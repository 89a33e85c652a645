------------------------------- MODULE Config -------------------------------
(***************************************************************************)
(* How the configuration file is read (project-config.c): a scanner that   *)
(* keeps the kind of the last token, and a parser that runs it.  One       *)
(* action per round of the parser's loop.                                  *)
(*                                                                         *)
(* A character the scanner does not know leaves the kind of the token      *)
(* before it in place, so what is done with it depends on what came first. *)
(***************************************************************************)
EXTENDS Ascend, Sequences, SequencesExt, FiniteSetsExt

CONSTANTS Letter, Digit, Stray   \* characters, with "-" among the strays

Blank == {" ", "\n"}
KeyCharacter == Letter \union Digit \union {"-"}
Character == Letter \union Digit \union Stray \union Blank \union {"=", "#"}

ASSUME ConfigAssumption ==
    /\ "-" \in Stray
    /\ LET kinds == <<Letter, Digit, Stray, Blank, {"="}, {"#"}>>
       IN  \A k, l \in DOMAIN kinds : k # l => kinds[k] \intersect kinds[l] = {}

VARIABLES
    text,      \* the file: env->cache
    pos,       \* characters consumed
    curr,      \* kind of the last token that was known
    node,      \* the definition that is being read
    hasKey, hasValue,
    advances,  \* should_go: whether the scanner goes on in this round
    list,      \* definitions, the last one first
    parser     \* "off", "reads", "read" or "died"

config == <<text, pos, curr, node, hasKey, hasValue, advances, list, parser>>

NewNode == [key |-> <<>>, value |-> <<>>]

ConfigOff ==
    /\ text = <<>> /\ pos = 0 /\ curr = "invalid"
    /\ node = NewNode /\ hasKey = FALSE /\ hasValue = FALSE
    /\ advances = TRUE /\ list = <<>> /\ parser = "off"

StartParser(file, state) ==
    /\ text' = file /\ pos' = 0 /\ curr' = "invalid"
    /\ node' = NewNode /\ hasKey' = FALSE /\ hasValue' = FALSE
    /\ advances' = TRUE /\ list' = <<>> /\ parser' = state

\* read_config_file, and what parse_config_file starts with.
ReadConfig(file) == StartParser(file, "reads")

\* Its memory is gone.
ForgetConfig == StartParser(<<>>, "off")

\* Where the characters of a set end that begin after k ones.
Past(set, k) ==
    Min({l \in k .. Len(text) : l = Len(text) \/ text[l + 1] \notin set})

AfterBlanks == IF advances THEN Past(Blank, pos) ELSE pos

AtEnd == advances /\ AfterBlanks = Len(text)

KindOf(ch) ==
    CASE ch \in Digit  -> "number"
      [] ch \in Letter -> "string"
      [] ch = "="      -> "assign"
      [] ch = "#"      -> "comment"
      [] OTHER         -> curr

Kind == IF advances THEN KindOf(text[AfterBlanks + 1]) ELSE curr

\* A round of the loop finds a token of this kind.
Finds(kind) ==
    /\ parser = "reads" /\ ~AtEnd
    /\ ~(hasKey /\ hasValue)
    /\ Kind = kind
    /\ curr' = kind

\* The parser allocates a node unless it has a key.
Current == IF hasKey THEN node ELSE NewNode

EndOfText ==
    /\ parser = "reads" /\ AtEnd
    /\ parser' = "read"
    /\ UNCHANGED <<text, pos, curr, node, hasKey, hasValue, advances, list>>

Store ==
    /\ parser = "reads" /\ ~AtEnd
    /\ hasKey /\ hasValue
    /\ list' = <<node>> \o list
    /\ hasKey' = FALSE /\ hasValue' = FALSE /\ advances' = TRUE
    /\ UNCHANGED <<text, pos, curr, node, parser>>

\* "stray found in config file"
StrayFirst ==
    /\ Finds("invalid")
    /\ parser' = "died"
    /\ UNCHANGED <<text, pos, node, hasKey, hasValue, advances, list>>

\* read_number returns 0, which its caller takes for a failure.
Number ==
    /\ Finds("number")
    /\ parser' = "died"
    /\ UNCHANGED <<text, pos, node, hasKey, hasValue, advances, list>>

Key ==
    /\ Finds("string") /\ ~hasKey
    /\ pos' = Past(KeyCharacter, AfterBlanks)
    /\ node' = [NewNode EXCEPT !.key = SubSeq(text, AfterBlanks + 1, pos')]
    /\ hasKey' = TRUE
    /\ UNCHANGED <<text, hasValue, advances, list, parser>>

\* Mutant: a value ends like a key does.
ValueLikeKey ==
    /\ Finds("string") /\ hasKey
    /\ pos' = Past(KeyCharacter, AfterBlanks)
    /\ node' = [node EXCEPT !.value = SubSeq(text, AfterBlanks + 1, pos')]
    /\ hasValue' = TRUE /\ advances' = FALSE
    /\ UNCHANGED <<text, hasKey, list, parser>>

\* A value goes to the end of the line.
Value ==
    /\ Finds("string") /\ hasKey
    /\ pos' = Past(Letter \union Digit \union Stray \union {" ", "=", "#"}, AfterBlanks)
    /\ node' = [node EXCEPT !.value = SubSeq(text, AfterBlanks + 1, pos')]
    /\ hasValue' = TRUE /\ advances' = FALSE
    /\ UNCHANGED <<text, hasKey, list, parser>>

\* Mutant: the sign is not consumed.
AssignStuck ==
    /\ Finds("assign")
    /\ pos' = AfterBlanks
    /\ node' = Current
    /\ UNCHANGED <<text, hasKey, hasValue, advances, list, parser>>

\* The sign, or a stray character after it.
Assign ==
    /\ Finds("assign")
    /\ pos' = AfterBlanks + 1
    /\ node' = Current
    /\ UNCHANGED <<text, hasKey, hasValue, advances, list, parser>>

\* There is no test for the end of the text: of a last line without a newline
\* whatever follows in memory is read, which may be the process's end.
Comment ==
    /\ Finds("comment")
    /\ pos' = Past(Letter \union Digit \union Stray \union {" ", "=", "#"}, AfterBlanks)
    /\ node' = Current
    /\ parser' \in {"reads"} \union (IF pos' = Len(text) THEN {"died"} ELSE {})
    /\ UNCHANGED <<text, hasKey, hasValue, advances, list>>

Parse ==
    \/ EndOfText \/ Store \/ StrayFirst \/ Number
    \/ Key \/ Value \/ Assign \/ Comment

\* The value of a key; the first in the list is found.
IsDefined(key) == \E k \in DOMAIN list : list[k].key = key

ValueOf(key) ==
    list[Min({k \in DOMAIN list : list[k].key = key})].value

-----------------------------------------------------------------------------
(* What the lines of a file define *)

\* Where lines begin, and the line that begins there.
Begins(file) == {1} \union {k + 1 : k \in {l \in DOMAIN file : file[l] = "\n"}}

EndOf(file, b) ==
    Min({e \in b .. Len(file) + 1 : e = Len(file) + 1 \/ file[e] = "\n"})

LineAt(file, b) == SubSeq(file, b, EndOf(file, b) - 1)

\* A line that starts at a letter: its key, and its value from the first letter
\* after the sign on.  What stands before that letter is lost.
KeyOf(line) ==
    SubSeq(line, 1, Max({k \in DOMAIN line : \A l \in 1 .. k : line[l] \in KeyCharacter}))

Rest(line) == SubSeq(line, Len(KeyOf(line)) + 1, Len(line))

FirstLetter(rest) == Min({k \in DOMAIN rest : rest[k] \in Letter})

Definition(line) ==
    [key |-> KeyOf(line),
     value |-> SubSeq(Rest(line), FirstLetter(Rest(line)), Len(Rest(line)))]

IsBlank(line) == \A k \in DOMAIN line : line[k] = " "
IsComment(line) == line # <<>> /\ line[1] = "#"

IsDefinition(line) ==
    /\ line # <<>> /\ line[1] \in Letter
    /\ LET rest == Rest(line) IN
        \E k \in DOMAIN rest :
            /\ rest[k] \in Letter
            /\ \A l \in 1 .. k - 1 : rest[l] \in {" ", "="} \union Stray
            /\ \E l \in 1 .. k - 1 :
                    /\ rest[l] = "="
                    /\ \A x \in 1 .. l - 1 : rest[x] = " "

\* Lines the documents show, and a comment that ends the file ends its line.
WellFormed(file) ==
    /\ \A b \in Begins(file) :
            LET line == LineAt(file, b)
            IN  IsBlank(line) \/ IsComment(line) \/ IsDefinition(line)
    /\ ~IsComment(LineAt(file, Max(Begins(file))))

Defining(file) == {b \in Begins(file) : IsDefinition(LineAt(file, b))}

Defined(file) ==
    LET order == Ascending(Defining(file))
    IN  [k \in DOMAIN order |-> Definition(LineAt(file, order[k]))]

\* A well-formed file is read without complaint and defines what its lines
\* define, a later line hiding an earlier one (project-config.c:194).
ConfigRead ==
    parser \in {"read", "died"} /\ WellFormed(text) =>
        parser = "read" /\ list = Reverse(Defined(text))

=============================================================================

----------------------------- MODULE Arguments ------------------------------
(***************************************************************************)
(* What the arguments of a command make it do: which commits, which files. *)
(* An argument is a record: an option, a number after "~" or "master~", or *)
(* a word, which may be a path, a hash or a tag.  A word is a sequence of  *)
(* characters; of a hash only the first few matter.                        *)
(*                                                                         *)
(* A tree maps the names of the files and directories that are there to    *)
(* "file" or "dir".                                                        *)
(***************************************************************************)
EXTENDS CommitFile

OptArg(o) == [opt |-> o, word |-> <<>>, num |-> 0]
WordArg(w) == [opt |-> "", word |-> w, num |-> 0]
NumberArg(o, n) == [opt |-> o, word |-> <<>>, num |-> n]
IgnoreArg(w) == [opt |-> "-i", word |-> w, num |-> 0]

First(set) == IF set = {} THEN 0 ELSE Min(set)

-----------------------------------------------------------------------------
(* Commits: cl is the list a process has read                              *)

FindHash(cl, w) == First({k \in DOMAIN cl : IsPrefix(w, cl[k].hash)})

FindTag(cl, w) == First({k \in DOMAIN cl : cl[k].tag # NoTag /\ cl[k].tag = w})

Find(cl, w) == IF FindHash(cl, w) # 0 THEN FindHash(cl, w) ELSE FindTag(cl, w)

HeadOf(cl) == First({k \in DOMAIN cl : cl[k].head})

\* Mutant: the last commit is one back from itself.
NthBackFromEnd(cl, n) == IF n > Len(cl) THEN 0 ELSE Max({Len(cl) - n + 1, 1})

\* n commits before the last one.  The list is walked count - n - 1 times, so
\* as many as there are leads to the first one as well.
NthBack(cl, n) == IF n > Len(cl) THEN 0 ELSE Max({Len(cl) - n, 1})

Nothing == [does |-> "nothing"]
Dies == [does |-> "die"]
Crashes == [does |-> "crash"]

\* commit_delta: the second word's tag is not looked for, the first one's is.
CompareCommits(cl, v, w) ==
    LET one == Find(cl, v)
        two == IF FindHash(cl, w) # 0 THEN FindHash(cl, w) ELSE FindTag(cl, v)
    IN  IF v = w THEN Nothing
        ELSE IF one = 0 \/ two = 0 THEN Dies
        ELSE [does |-> "compare", first |-> one, second |-> two]

\* do_single_commit_delta
CompareWithHead(cl, w) ==
    IF Find(cl, w) = 0 THEN Dies
    ELSE IF HeadOf(cl) = 0 THEN Crashes
    ELSE [does |-> "compare", first |-> Find(cl, w), second |-> HeadOf(cl)]

\* reset_head_command: the first argument decides.  There is no HEAD to move
\* if there was none.
ParseHead(cl, args) ==
    LET to == IF args[1].opt = "--reset" THEN Len(cl)
              ELSE IF args[1].opt = "master~" THEN NthBack(cl, args[1].num)
              ELSE Find(cl, args[1].word)
    IN  IF args = <<>> \/ args[1].opt = "-h" THEN Nothing
        ELSE IF cl = <<>> \/ to = 0 THEN Dies
        ELSE IF HeadOf(cl) = 0 /\ args[1].opt # "--reset" THEN Crashes
        ELSE [does |-> "head", to |-> to]

\* create_tag, set_tag: a tag does not name the commit to be tagged.
ParseTag(cl, args) ==
    LET to == IF Len(args) = 1 THEN Len(cl) ELSE FindHash(cl, args[1].word)
    IN  IF args = <<>> THEN Nothing
        ELSE IF to = 0 THEN Dies
        ELSE [does |-> "tag", to |-> to, tag |-> args[IF Len(args) = 1 THEN 1 ELSE 2].word]

\* commit(): an option takes the argument after it, and so does -q; --log and
\* -h end the arguments.  What stands after -m is the message, even an option;
\* after -q, --log prints nothing.
TakesNext(opt) == opt \in {"-m", "-d", "-t", "-q"}

AsText(a) == IF a.opt = "" THEN a.word ELSE <<a.opt>>

ParseCommit(args) ==
    LET start == [message |-> <<>>, given |-> {}, skip |-> FALSE, fails |-> FALSE, ends |-> ""]
        Take(p, k) ==
            LET a == args[k]
                next == IF k < Len(args) THEN AsText(args[k + 1]) ELSE <<>>
            IN  IF p.fails \/ p.ends # "" THEN p
                ELSE IF ~p.skip /\ a.opt \in {"-h", "--log"} THEN [p EXCEPT !.ends = a.opt]
                ELSE IF p.skip THEN [p EXCEPT !.skip = FALSE]
                ELSE [p EXCEPT
                        !.skip = TakesNext(a.opt),
                        !.given = @ \union {a.opt},
                        !.message = IF a.opt = "-m" THEN @ \o next ELSE @,
                        !.fails = @ \/ (k = Len(args) /\ a.opt \in {"-m", "-d", "-t"})]
        parsed[k \in 0 .. Len(args)] ==
            IF k = 0 THEN start ELSE Take(parsed[k - 1], k)
        all == parsed[Len(args)]
    IN  IF all.ends = "-h" THEN Nothing
        ELSE IF all.ends = "--log"
             THEN [does |-> IF "-q" \in all.given THEN "quiet log" ELSE "log"]
        ELSE IF args = <<>> \/ all.fails \/ all.message = <<>> THEN Dies
        ELSE [does |-> "commit", message |-> all.message, given |-> all.given]

-----------------------------------------------------------------------------
(* Paths *)

\* What the file system finds by a path.
Plain(path) == IF IsPrefix(<<".", "/">>, path) THEN SubSeq(path, 3, Len(path)) ELSE path

Stat(tree, path) == IF Plain(path) \in DOMAIN tree THEN tree[Plain(path)] ELSE "none"

\* Mutant: the prefix is left out.
PegPathAsGiven(path) == path

\* get_peg_path_buf: names are kept with "./", but for those of hidden files
\* and below directories of one letter.
PegPath(path) ==
    IF path[1] # "." /\ (Len(path) < 2 \/ path[2] # "/") THEN <<".", "/">> \o path ELSE path

(***************************************************************************)
(* delta_parse_options, delta_main: a path is guessed from what is there,  *)
(* and a word that names no file is a hash.  Only a guessed path is put    *)
(* into the form names are kept in; a second one is not.                   *)
(***************************************************************************)
CompareStart ==
    [commit |-> FALSE, file |-> FALSE, deep |-> FALSE, fails |-> FALSE,
     path |-> <<>>, hashes |-> <<>>]

CompareArgument(tree, p, a) ==
    LET kind == Stat(tree, a.word)
        Hash == [p EXCEPT !.commit = TRUE,
                          !.hashes = IF @ = <<>> THEN <<a.word>> ELSE <<@[1], a.word>>]
        Path(stored) == [p EXCEPT !.file = TRUE, !.path = stored, !.deep = @ \/ kind = "dir"]
    IN  IF a.opt = "--hash" THEN [p EXCEPT !.commit = TRUE]
        ELSE IF a.opt = "-f" THEN [p EXCEPT !.file = TRUE]
        ELSE IF a.opt # "" THEN p
        ELSE IF p.commit /\ p.file THEN [p EXCEPT !.fails = TRUE]
        ELSE IF p.file THEN IF kind = "none" THEN [p EXCEPT !.fails = TRUE] ELSE Path(a.word)
        ELSE IF p.commit \/ kind = "none" THEN Hash
        ELSE Path(PegPath(a.word))

CompareParsed(tree, args) ==
    LET parsed[k \in 0 .. Len(args)] ==
            IF k = 0 THEN CompareStart ELSE CompareArgument(tree, parsed[k - 1], args[k])
    IN  parsed

ParseCompare(cl, tree, args) ==
    LET all == CompareParsed(tree, args)[Len(args)]
    IN  IF all.fails \/ "-h" \in {args[k].opt : k \in DOMAIN args} THEN Dies
        ELSE IF all.commit /\ ~all.file THEN
            IF all.hashes = <<>> THEN Dies
            ELSE IF Len(all.hashes) = 1 THEN CompareWithHead(cl, all.hashes[1])
            ELSE CompareCommits(cl, all.hashes[1], all.hashes[2])
        ELSE IF cl = <<>> THEN Dies
        ELSE IF all.file /\ ~all.commit THEN
            IF all.path = <<>> \/ (all.deep /\ Stat(tree, all.path) # "dir") THEN Dies
            ELSE [does |-> IF all.deep THEN "compare dir" ELSE "compare file", path |-> all.path]
        ELSE [does |-> "compare dir", path |-> <<".">>]

(***************************************************************************)
(* revert_parse_options, checkout: ~n counts for directories after it, and *)
(* for all files.  Paths collect in one buffer, and a path that is not     *)
(* there is taken for what the one before it was; `stale' is what the      *)
(* first one's uninitialised memory says.  --hard ends the list.           *)
(* status() is called for the argument of a directory, and the walk starts *)
(* in the buffer's; `mixed' says that there are new and modified files: no *)
(* directory is reverted then.                                             *)
(***************************************************************************)
RevertStart(stale) ==
    [n |-> 0, buf |-> <<>>, kind |-> stale, files |-> <<>>, dirs |-> <<>>,
     hard |-> FALSE, ends |-> Nothing]

\* What becomes of the process at a directory.
RevertEnds(cl, tree, mixed, dir, n, given) ==
    IF Stat(tree, given) # "dir" \/ (cl # <<>> /\ NthBack(cl, n) = 0) THEN Dies
    ELSE IF cl = <<>> \/ (~mixed /\ Stat(tree, dir) # "dir") THEN Crashes
    ELSE Nothing

RevertArgument(cl, tree, mixed, p, a) ==
    LET buf == p.buf \o PegPath(a.word)
        kind == IF Stat(tree, buf) = "none" THEN p.kind ELSE Stat(tree, buf)
        q == [p EXCEPT !.buf = buf, !.kind = kind]
    IN  IF p.hard \/ p.ends # Nothing THEN p
        ELSE IF a.opt = "~" THEN [p EXCEPT !.n = a.num]
        ELSE IF a.opt = "--hard" THEN [p EXCEPT !.hard = TRUE]
        ELSE IF kind = "file" THEN [q EXCEPT !.files = Append(@, buf)]
        ELSE IF kind = "dir"
        THEN [q EXCEPT !.dirs = Append(@, <<buf, p.n>>),
                       !.ends = RevertEnds(cl, tree, mixed, buf, p.n, a.word)]
        ELSE q

RevertParsed(cl, tree, args, stale, mixed) ==
    LET parsed[k \in 0 .. Len(args)] ==
            IF k = 0 THEN RevertStart(stale)
            ELSE RevertArgument(cl, tree, mixed, parsed[k - 1], args[k])
    IN  parsed

ParseRevert(cl, tree, args, stale, mixed) ==
    LET all == RevertParsed(cl, tree, args, stale, mixed)[Len(args)]
    IN  IF all.ends # Nothing THEN all.ends
        ELSE IF cl = <<>> \/ (all.files # <<>> /\ NthBack(cl, all.n) = 0) THEN Dies
        ELSE [does |-> "revert", files |-> all.files,
              dirs |-> IF mixed THEN <<>> ELSE all.dirs,
              from |-> NthBack(cl, all.n), hard |-> all.hard]

-----------------------------------------------------------------------------
(* insert *)

\* The first k characters are the same.
Agree(v, w, k) == Len(v) >= k /\ Len(w) >= k /\ SubSeq(v, 1, k) = SubSeq(w, 1, k)

\* is_marked_as_ignored: one character less than the pattern has is compared.
IsIgnored(name, patterns) ==
    \E p \in patterns :
        \/ Agree(name, p, Len(p) - 1)
        \/ name[1] # "." /\ Len(name) >= 2 /\ name[2] # "/"
               /\ Agree(name, <<".", "/">> \o p, Len(p) + 1)

(***************************************************************************)
(* process_argument: paths are looked at as they come, with the patterns   *)
(* given so far; after -a they are passed over.  A dot is `all' if it is   *)
(* the first argument, a directory otherwise.                              *)
(***************************************************************************)
InsertStart == [all |-> FALSE, patterns |-> {}, picks |-> <<>>, fails |-> FALSE]

InsertArgument(tree, args, p, k) ==
    LET a == args[k] IN
    IF p.fails THEN p
    ELSE IF a.opt = "-a" \/ (k = 1 /\ a.opt = "" /\ a.word = <<".">>)
    THEN [p EXCEPT !.all = TRUE]
    ELSE IF a.opt = "-i" THEN [p EXCEPT !.patterns = {PegPath(a.word)}]
    ELSE IF a.opt # "" \/ p.all THEN p
    ELSE IF Stat(tree, a.word) = "none" /\ a.word # <<".">>
    THEN [p EXCEPT !.fails = TRUE]
    ELSE [p EXCEPT !.picks = Append(@, [path |-> PegPath(a.word), patterns |-> p.patterns])]

InsertParsed(tree, args) ==
    LET parsed[k \in 0 .. Len(args)] ==
            IF k = 0 THEN InsertStart ELSE InsertArgument(tree, args, parsed[k - 1], k)
    IN  parsed

ParseInsert(tree, args) ==
    LET all == InsertParsed(tree, args)[Len(args)]
    IN  IF args = <<>> \/ all.fails \/ "-h" \in {args[k].opt : k \in DOMAIN args} THEN Dies
        ELSE [does |-> "insert", all |-> all.all, patterns |-> all.patterns,
              picks |-> all.picks]

=============================================================================

---------------------------- MODULE CommandLine -----------------------------
(***************************************************************************)
(* peg processes, one after the other, from their arguments to what they   *)
(* are about to do (main.c): a process reads the configuration, finds the  *)
(* command or proposes one, and parses the arguments.  Only create is      *)
(* followed to its end; it may die at every step.                          *)
(***************************************************************************)
EXTENDS Config, Suggest, CreateRepo, Listing

CONSTANTS
    CommandTypes,  \* what the commands do, in the order of their names
    UserName,      \* keys that have to be defined: "username" and "useremail"
    UserEmail,
    Invocations,   \* what is run: [word, args, config, commits, cut, tree, stage, found]
    HelpWord,      \* the word "--help"; no word at all does the same
    CreateWord,    \* the name of create
    NoFile,        \* the configuration file that is not there
    MaxRuns        \* bound: processes

\* The types that main.c knows.
Types == {"create", "insert", "commit", "reset", "hist", "head", "status", "show",
          "revert", "compare", "checkout", "list", "tag", "replay", "help", "see"}

IsText(t) == t \in Seq(Range(t))

ASSUME CommandLineAssumption ==
    /\ MaxRuns \in Nat
    /\ MinStart \in Nat
    /\ Commands \in Seq(Range(Commands)) /\ Commands # <<>>
    /\ \A c \in DOMAIN Commands : IsText(Commands[c])
    /\ CommandTypes \in Seq(Types) /\ DOMAIN Commands = DOMAIN CommandTypes
    /\ \A r \in Invocations :
            /\ IsText(r.word)
            /\ r.args \in Seq(Range(r.args))
            /\ \A a \in Range(r.args) : IsText(a.word) /\ a.num \in Nat
            /\ r.config # NoFile => r.config \in Seq(Character)
            /\ r.commits \in Seq(Range(r.commits)) /\ r.cut \in Nat
            /\ \A c \in Range(r.commits) :
                    /\ IsText(c.name) /\ IsText(c.email) /\ IsText(c.message) /\ IsText(c.desc)
                    /\ c.place # Junk
            /\ \A name \in DOMAIN r.tree : IsText(name) /\ Plain(name) = name

VARIABLES
    pc,       \* "none", "start", "config", "find", "ask", "parse", "create", "done"
    run,      \* what runs
    runs,     \* processes so far
    command,  \* the command that was found or proposed, 0 before
    call,     \* what the process is about to do
    makers    \* processes that made a part of the repository

process == <<pc, run, runs, command, call, makers>>
vars == <<config, create, process>>

None == [does |-> "none"]

NoRun ==
    [word |-> <<>>, args |-> <<>>, config |-> NoFile, commits |-> <<>>, cut |-> 0,
     tree |-> <<>>, stage |-> <<>>, found |-> <<>>]

\* There is a repository, or none.
Init ==
    /\ ConfigOff
    /\ repo \in {{}, Whole} /\ makes = <<>> /\ greeted = FALSE
    /\ pc = "none" /\ run = NoRun
    /\ runs = 0 /\ command = 0 /\ call = None /\ makers = {}

Run ==
    /\ pc = "none" /\ runs < MaxRuns
    /\ run' \in Invocations
    /\ runs' = runs + 1
    /\ pc' = "start"
    /\ UNCHANGED <<config, create, command, call, makers>>

\* Nothing is left of a process but what it made.
Exit ==
    /\ pc = "done"
    /\ ForgetConfig
    /\ pc' = "none" /\ run' = NoRun /\ command' = 0 /\ call' = None
    /\ greeted' = FALSE
    /\ UNCHANGED <<repo, makes, runs, makers>>

\* The process ends without having done anything.
Stop(how) ==
    /\ pc' = "done" /\ call' = [does |-> how]
    /\ UNCHANGED <<config, create, run, runs, command, makers>>

GoTo(next) ==
    /\ pc' = next
    /\ UNCHANGED <<config, create, run, runs, command, call, makers>>

-----------------------------------------------------------------------------
(* main: help, the repository, the configuration *)

MainHelp == pc = "start" /\ run.word = HelpWord /\ Stop("help")

Startable == pc = "start" /\ run.word # HelpWord

\* "Not a peg repository."
NotARepository ==
    /\ Startable /\ run.word # CreateWord /\ ".peg" \notin repo
    /\ Stop("die")

ReadConfiguration ==
    /\ Startable /\ (run.word = CreateWord \/ ".peg" \in repo)
    /\ IF run.config = NoFile THEN Stop("die")
       ELSE /\ ReadConfig(run.config)
            /\ pc' = "config"
            /\ UNCHANGED <<create, run, runs, command, call, makers>>

ParseConfiguration ==
    /\ pc = "config" /\ Parse
    /\ UNCHANGED <<create, process>>

\* The parser died, or there is no name or no address.
NoEnvironment ==
    /\ pc = "config"
    /\ parser = "died" \/ (parser = "read" /\ ~(IsDefined(UserName) /\ IsDefined(UserEmail)))
    /\ Stop("die")

Environment ==
    /\ pc = "config" /\ parser = "read"
    /\ IsDefined(UserName) /\ IsDefined(UserEmail)
    /\ GoTo("find")

-----------------------------------------------------------------------------
(* The command *)

Matches == {c \in DOMAIN Commands : Commands[c] = run.word}

FindCommand ==
    /\ pc = "find" /\ Matches # {}
    /\ command' = Min(Matches)
    /\ pc' = "parse"
    /\ UNCHANGED <<config, create, run, runs, call, makers>>

Proposal == [word \in {r.word : r \in Invocations} |-> Suggested(word)]

\* "Did you mean?"  The pointer to the command may not have been initialised.
Propose ==
    /\ pc = "find" /\ Matches = {}
    /\ IF Proposal[run.word] = 0 THEN Stop("crash")
       ELSE /\ command' = Proposal[run.word]
            /\ pc' = "ask"
            /\ UNCHANGED <<config, create, run, runs, call, makers>>

SayYes == pc = "ask" /\ GoTo("parse")

SayNo == pc = "ask" /\ Stop("nothing")

Type == CommandTypes[command]

\* commit.idx: what was written, or its beginning.
CommitIdx(commits, cut) ==
    LET file == WriteList(commits) IN SubSeq(file, 1, Len(file) - cut)

\* What processes get, for every file there may be.
MakeCommitList ==
    [h \in {<<r.commits, r.cut>> : r \in Invocations} |-> Readings(CommitIdx(h[1], h[2]))]

\* These read the commits, or let status() read them, before they do anything.
ReadFirst ==
    \/ Type \in {"head", "tag", "insert", "revert", "status", "checkout", "hist", "list"}
    \/ Type = "commit" /\ ParseCommit(run.args) # Nothing

\* What a command may be about to do.  Whoever follows a place that was not
\* read may crash.  In a repository that is not whole a command dies on the
\* first file that is missing, or reads of none.
CallsWith(reading) ==
    LET cl == reading.commits
        args == run.args
    IN  IF ~reading.readable /\ ReadFirst THEN {Dies}
        ELSE (IF Junk \in {cl[k].place : k \in DOMAIN cl} THEN {Crashes} ELSE {}) \union
             CASE Type = "head"    -> {ParseHead(cl, args)}
               [] Type = "tag"     -> {IF args = <<>> THEN Tags(cl) ELSE ParseTag(cl, args)}
               [] Type = "commit"  -> {IF ParseCommit(args) = [does |-> "log"] THEN Log(cl)
                                       ELSE ParseCommit(args)}
               [] Type \in {"compare", "see"} -> {ParseCompare(cl, run.tree, args)}
               [] Type = "insert"  -> {ParseInsert(run.tree, args)}
               [] Type = "revert"  -> {ParseRevert(cl, run.tree, args, stale, mixed) :
                                            stale \in {"file", "dir", "other"}, mixed \in BOOLEAN}
               [] Type = "hist"    -> {Log(cl)}
               [] Type = "list"    -> {ParseList(cl, args)}
               [] Type = "show"    -> {ParseShow(reading, run.stage, args)}
               [] Type = "status"  -> {StatusLists(run.found)}
               [] OTHER            -> {[does |-> Type]}

Calls ==
    IF repo # Whole THEN {Dies, Nothing}
    ELSE UNION {CallsWith(reading) : reading \in MakeCommitList[<<run.commits, run.cut>>]}

ParseArguments ==
    /\ pc = "parse" /\ Type # "create"
    /\ call' \in Calls
    /\ pc' = "done"
    /\ UNCHANGED <<config, create, run, runs, command, makers>>

-----------------------------------------------------------------------------
(* create *)

BeginCreate ==
    /\ pc = "parse" /\ Type = "create"
    /\ IF ParseCreate(run.args).outcome = "ok"
       THEN /\ makes' = Items
            /\ pc' = "create"
            /\ UNCHANGED <<config, repo, greeted, run, runs, command, call, makers>>
       ELSE Stop(ParseCreate(run.args).outcome)

Make ==
    /\ pc = "create" /\ MakeItem
    /\ makers' = makers \union {runs}
    /\ UNCHANGED <<config, pc, run, runs, command, call>>

\* The end of create: all is made, a directory was there, or the process dies.
EndCreate ==
    /\ pc = "create"
    /\ \/ makes = <<>> /\ call' = [does |-> "created"]
       \/ Refused /\ call' = Dies
       \/ makes # <<>> /\ call' = Crashes
    /\ makes' = <<>>
    /\ pc' = "done"
    /\ UNCHANGED <<config, repo, greeted, run, runs, command, makers>>

-----------------------------------------------------------------------------
Step ==
    \/ MainHelp \/ NotARepository \/ ReadConfiguration
    \/ ParseConfiguration \/ NoEnvironment \/ Environment
    \/ FindCommand \/ Propose \/ SayYes \/ SayNo \/ ParseArguments
    \/ BeginCreate \/ Make \/ EndCreate

Next == Run \/ Step \/ Exit

Spec == Init /\ [][Next]_vars

\* A process that was started goes on; the user answers, or the input ends.
FairSpec == Spec /\ WF_vars(Step)

-----------------------------------------------------------------------------
(* Properties *)

\* Every process ends, whatever the configuration holds: each round of the
\* parser's loop gets further although a token may be looked at twice.
EveryProcessEnds == pc = "start" ~> pc = "done"

\* A repository is made by one process; one that died half way is not made
\* whole by another create, although main.c:105 speaks of reinitialising.
MadeByOne ==
    /\ Cardinality(makers) <= 1
    /\ call = [does |-> "created"] => repo = Whole

\* What is proposed is the first of the commands that the fewest edits lead
\* to, if two are enough; for the empty word, whose weights are all zero, it is
\* the first of all (main.c:380).
SuggestsNearest ==
    pc = "ask" =>
        /\ run.word = <<>> => command = 1
        /\ run.word # <<>> =>
              \E near \in {[n \in 0 .. 2 |->
                               {c \in DOMAIN Commands : Within(run.word, Commands[c], n)}]} :
                \A n \in 1 .. 2 :
                    near[n] # {} /\ near[n - 1] = {} => command = Min(near[n])

\* Commits a word names.
NamedBy(w) ==
    {k \in DOMAIN run.commits : IsPrefix(w, run.commits[k].hash) \/ run.commits[k].tag = w}

\* A number counts back from the last commit, and one more than the history is
\* long names the first.
Back(n) ==
    {k \in DOMAIN run.commits : Len(run.commits) - k = n \/ (k = 1 /\ n = Len(run.commits))}

\* The arguments that are words.
WordsAt == {k \in DOMAIN run.args : run.args[k].opt = ""}

FirstWord == run.args[Min(WordsAt)].word
LastWord == run.args[Max(WordsAt)].word
OneWord == Min(WordsAt) = Max(WordsAt)

\* compare, head, tag, list and revert act on commits that their arguments name: the
\* only one that bears the tag or whose hash begins so, if there is no other.
\* The second of two commits to be compared is none of those its argument
\* names if that is a tag (delta.c:640).
ActsOnNamed ==
    pc = "done" =>
        /\ call.does = "compare" =>
              /\ call.first \in NamedBy(FirstWord)
              /\ IF OneWord THEN run.commits[call.second].head
                 ELSE call.second \in
                        (IF \E k \in NamedBy(LastWord) : IsPrefix(LastWord, run.commits[k].hash)
                         THEN NamedBy(LastWord) ELSE NamedBy(FirstWord))
        /\ call.does = "head" =>
              call.to \in (CASE run.args[1].opt = "--reset" -> {Len(run.commits)}
                             [] run.args[1].opt = "master~" -> Back(run.args[1].num)
                             [] OTHER                       -> NamedBy(run.args[1].word))
        /\ call.does = "tag" =>
              IF Len(run.args) = 1 THEN call.to = Len(run.commits)
              ELSE call.to \in NamedBy(run.args[1].word)
        /\ call.does = "list" =>
              IF WordsAt = {} THEN run.commits[call.commit].head
              ELSE call.commit \in NamedBy(LastWord)
        /\ call.does = "revert" /\ call.files # <<>> =>
              \E a \in {run.args[k] : k \in DOMAIN run.args} \union {NumberArg("~", 0)} :
                    a.opt = "~" /\ call.from \in Back(a.num)

\* A name or an address for which a reader has no memory.
TooLong(name) == Len(name) > Room

(***************************************************************************)
(* What one process has written to commit.idx the next one reads: hist     *)
(* shows the commits as they were made, and dies of no file that is whole  *)
(* and whose names fit.  A file that was cut is refused, or is empty, or   *)
(* lacks data of its last commit only.  But commit writes names of any     *)
(* length, and after one that is too long no command that wants the        *)
(* commits gets any further (author.h:38, commit.c:112).                   *)
(***************************************************************************)
CommitsReadBack ==
    pc = "done" =>
        /\ call.does = "log" =>
              IF run.cut = 0 THEN call = Log(run.commits)
              ELSE call.rows # <<>> =>
                      /\ Front(call.rows) = Front(Log(run.commits).rows)
                      /\ Last(call.rows).hash = Last(run.commits).hash
        /\ call = Dies /\ command # 0 /\ CommandTypes[command] = "hist" /\ repo = Whole =>
              \/ run.cut > 0
              \/ \E k \in DOMAIN run.commits :
                    TooLong(run.commits[k].name) \/ TooLong(run.commits[k].email)
        /\ run.cut = 0 /\ (\E k \in DOMAIN run.commits : TooLong(run.commits[k].name)) =>
              call.does \notin {"log", "quiet log", "list", "list html", "tags", "tag", "head",
                               "commit", "compare", "compare file", "compare dir", "insert",
                               "revert"}

\* The form in which status() reports names and commits keep them.
Stored(path) == <<".", "/">> \o Plain(path)

\* Paths that get_peg_path_buf puts into this form: not hidden files, nor what
\* is below a directory of one letter.
Ordinary(path) ==
    \/ IsPrefix(<<".", "/">>, path)
    \/ path[1] # "." /\ (Len(path) < 2 \/ path[2] # "/")

\* Arguments that name what is there, and the first that is not a number.
Paths == {a \in Range(run.args) : a.opt = "" /\ (Stat(run.tree, a.word) # "none" \/ a.word = <<".">>)}

FirstPath == run.args[Min({k \in DOMAIN run.args : run.args[k].opt # "~"})]

Below(name, path) == name = path \/ IsPrefix(path \o <<"/">>, name)

\* The one pattern that insert is given.
OnlyPattern(a) == {b \in Range(run.args) : b.opt = "-i"} = {a}

\* An ordinary path is looked up under the name it is kept by, in compare if it
\* is the only argument, in revert if it is the first path and is there, in
\* insert always (path.c:16); and insert leaves out what its pattern names, and
\* what is below it (stage.c:238).
PathsNamed ==
    pc = "done" =>
        /\ call.does \in {"compare file", "compare dir"} /\ Len(run.args) = 1 =>
              (run.args[1].opt = "" /\ Ordinary(run.args[1].word)
                    => call.path = Stored(run.args[1].word))
        /\ call.does = "revert" /\ call.files # <<>> =>
              (FirstPath.opt = "" /\ Stat(run.tree, FirstPath.word) = "file"
                        /\ Ordinary(FirstPath.word)
                    => call.files[1] = Stored(FirstPath.word))
        /\ call.does = "insert" =>
              /\ \A k \in DOMAIN call.picks : \E a \in Paths :
                    IF Ordinary(a.word) THEN call.picks[k].path = Stored(a.word)
                    ELSE call.picks[k].path = a.word
              /\ \A a \in Range(run.args) : \A name \in DOMAIN run.tree :
                    OnlyPattern(a) /\ Ordinary(a.word) /\ Below(name, Plain(a.word))
                        => IsIgnored(Stored(name), call.patterns)

=============================================================================

----------------------------- MODULE CreateRepo ------------------------------
(***************************************************************************)
(* `peg create' (project-init.c): its arguments, and the directories and   *)
(* files it makes one after the other.  mkdir fails on a directory that is *)
(* there, and so does create; a file that is there would be emptied.       *)
(***************************************************************************)
EXTENDS Naturals, Sequences, SequencesExt

VARIABLES
    repo,     \* what is there: a file, and its "count" once it is written
    makes,    \* what create still has to make; <<>> when it does not run
    greeted   \* "Initialised an empty project" was printed

create == <<repo, makes, greeted>>

Directories == <<".peg", "cache", "db", "commit">>

\* make_peg_directories, create_description_file, create_cache_files and
\* create_database_files.  Both files of the stage are open before either is
\* closed, and what is written to a file is there once it is closed.
Items ==
    Directories \o <<"desc", "cache.pack", "cache.idx", "cache.idx count",
                     "commit.idx", "commit.idx count", "db.idx", "db.pack">>

Whole == Range(Items)

\* The process dies on a directory that it cannot make.
Refused == makes # <<>> /\ makes[1] \in Range(Directories) \intersect repo

\* What a file holds that is emptied when it is opened.
CountOf == [item \in Range(Items) |-> CASE item = "cache.idx"  -> {"cache.idx count"}
                                [] item = "commit.idx" -> {"commit.idx count"}
                                [] OTHER               -> {}]

\* What opening or writing the file leaves of it.
Made(item) == (repo \ CountOf[item]) \union {item}

\* Mutant: a directory that is there is as good as a new one.
MakeItemAgain ==
    /\ makes # <<>>
    /\ repo' = Made(makes[1])
    /\ makes' = Tail(makes)
    /\ greeted' = (greeted \/ makes[1] = "desc")

\* The greeting comes after the description, before the files are made.
MakeItem ==
    /\ makes # <<>> /\ ~Refused
    /\ repo' = Made(makes[1])
    /\ makes' = Tail(makes)
    /\ greeted' = (greeted \/ makes[1] = "desc")

-----------------------------------------------------------------------------
(* Arguments: an option, or a word; there is NULL after the last one *)

IsOption(arg) == arg.opt # ""

Null == [opt |-> "NULL", word |-> <<>>]

Separator == [opt |-> ";", word |-> <<>>]

Empty(name) == \A k \in DOMAIN name : ~IsOption(name[k]) /\ name[k].word = <<>>

(***************************************************************************)
(* parse_single_argument, for every argument in turn: the one after an     *)
(* option is its value, and is then looked at as an argument again.  Other *)
(* arguments are accepted once there is a name.  -a adds to the name.      *)
(***************************************************************************)
CreateArgument(p, args, k) ==
    LET arg == args[k]
        value == IF k < Len(args) THEN args[k + 1] ELSE Null
    IN  CASE p.outcome # "ok" -> p
          [] p.outcome = "ok" /\ ((arg.opt = "-n" /\ ~p.named) \/ arg.opt \in {"-a", "-d"}) ->
                IF value = Null THEN [p EXCEPT !.outcome = "crash"]
                ELSE IF arg.opt = "-n" THEN [p EXCEPT !.named = TRUE, !.name = <<value>>]
                ELSE IF arg.opt = "-a" THEN [p EXCEPT !.name = @ \o <<Separator, value>>]
                ELSE p
          [] OTHER -> IF p.named THEN p ELSE [p EXCEPT !.outcome = "bad arguments"]

Unnamed == [named |-> FALSE, name |-> <<>>, outcome |-> "ok"]

CreateParsed(args) ==
    LET first == IF IsOption(args[1]) THEN Unnamed
                 ELSE [Unnamed EXCEPT !.named = TRUE, !.name = <<args[1]>>]
        parsed[k \in 0 .. Len(args)] ==
            IF k = 0 THEN first ELSE CreateArgument(parsed[k - 1], args, k)
    IN  parsed

\* parse_arguments: the first argument is the name unless it is an option.
ParseCreate(args) ==
    LET all == CreateParsed(args)[Len(args)]
    IN  IF args = <<>> \/ "-h" \in {args[k].opt : k \in DOMAIN args}
        THEN [Unnamed EXCEPT !.outcome = "usage"]
        ELSE IF all.outcome = "ok" /\ Empty(all.name)
        THEN [Unnamed EXCEPT !.outcome = "no name"]
        ELSE all

=============================================================================

---------------------------- MODULE VersionStore ----------------------------
(***************************************************************************)
(* What pegit promises about its repository, without files, offsets or     *)
(* write order: a history of snapshots that only grows, and a stage that   *)
(* collects file contents and turns into the next snapshot in one step.    *)
(* src/src/commit.c and src/src/cache.c are what implements it (PegStore). *)
(***************************************************************************)
EXTENDS Naturals, Sequences

CONSTANTS
    Paths,      \* names of files under version control
    Contents,   \* contents a file may have
    EmptyFile   \* the content of a file with no bytes

VARIABLES
    history,    \* sequence of snapshots; a snapshot maps live paths to contents
    stage       \* partial function: staged path -> [content, deleted]

vars == <<history, stage>>

Nothing == [p \in {} |-> p]

StageNodes == [content : Contents \union {EmptyFile}, deleted : BOOLEAN]

\* The snapshot the next commit starts from: the last one, or nothing.
Master == IF history = <<>> THEN Nothing ELSE history[Len(history)]

(***************************************************************************)
(* The snapshot that committing the stage on top of `base' gives.  A       *)
(* deletion removes a path the base has; a deletion of a path it has not   *)
(* is stored as a file, like any other new path (commit.c:488-531).        *)
(***************************************************************************)
Removed(base) == {p \in DOMAIN stage : stage[p].deleted /\ p \in DOMAIN base}

Apply(base) ==
    [p \in (DOMAIN base \union DOMAIN stage) \ Removed(base) |->
        IF p \in DOMAIN stage THEN stage[p].content ELSE base[p]]

Init ==
    /\ history = <<>>
    /\ stage = Nothing

\* One insert command: paths not staged yet join the stage, the others stay.
Insert ==
    \E new \in SUBSET (Paths \ DOMAIN stage) :
        /\ stage' \in [DOMAIN stage \union new -> StageNodes]
        /\ \A p \in DOMAIN stage : stage'[p] = stage[p]
        /\ UNCHANGED history

Commit ==
    /\ stage # Nothing
    /\ history' = Append(history, Apply(Master))
    /\ stage' = Nothing

Reset ==
    /\ stage' = Nothing
    /\ UNCHANGED history

Next == Insert \/ Commit \/ Reset

Spec == Init /\ [][Next]_vars
=============================================================================

------------------------------ MODULE PegRepo -------------------------------
(***************************************************************************)
(* The work tree, the stage and the commits, as the user sees them through *)
(* pegit's commands: what insert finds changed, what commit records, and   *)
(* what head, checkout and revert do to the work tree.                     *)
(*                                                                         *)
(* insert, commit, reset and tag are one step each; the files they rewrite *)
(* one after the other, and what a crash does to those, are in PegStore.   *)
(* Checking files out is one step per file, and the process may die        *)
(* between any two.  The user edits only while no command runs.            *)
(*                                                                         *)
(* Time.  status() compares contents only if the time stamp kept with the  *)
(* index entry is older than the file's (status.c:124).  Clocks do not run *)
(* backwards here, so of an entry's stamp it is enough to know whether it  *)
(* is the file's own ("same", or "raced" if the file has been written      *)
(* since, within the same second), an older one ("older"), or was never    *)
(* written ("junk": copy_index_list and is_modified leave it               *)
(* uninitialised, and the comparison may go either way).                   *)
(*                                                                         *)
(* Directories are one level deep.  Of their walk it is enough to know     *)
(* which directory it leaves out (StatusWalk).                             *)
(***************************************************************************)
EXTENDS Naturals, Sequences

CONSTANTS
    Paths,       \* files
    Dirs,        \* directories below the root
    Root,        \* the root directory
    DirOf,       \* the directory each file is in
    NoDir,       \* the walk leaves out no directory that holds a file
    Contents,    \* contents the user may write
    Empty,       \* the content of a file of no bytes
    Absent,      \* no such file
    RacyEdits,   \* whether a file may be written twice within one second
    MaxCommits,  \* bound: commits
    MaxEvents    \* bound: edits, commands killed, and files that pegit writes
                 \* within the second of the write before

ASSUME RepoAssumption ==
    /\ NoDir \notin Dirs \union {Root} /\ Root \notin Dirs
    /\ DirOf \in [Paths -> Dirs \union {Root}]
    /\ Absent \notin Contents \union {Empty}
    /\ RacyEdits \in BOOLEAN
    /\ MaxCommits \in Nat /\ MaxEvents \in Nat

VARIABLES
    work,     \* content of every file in the work tree
    stage,    \* partial function: staged path -> node
    commits,  \* sequence of partial functions: path -> index entry
    head,     \* the commit with the HEAD flag, 0 if there is none
    pc,       \* "idle", or the part of a checkout that runs
    source,   \* commit whose versions are written back
    todo,     \* files that are still to be written back
    asked,    \* whether the user has agreed to lose uncommitted changes
    events    \* of those MaxEvents bounds, so far

repo == <<stage, commits, head>>
checking == <<pc, source, todo, asked>>
vars == <<work, repo, checking, events>>

FileContent == Contents \union {Empty}
Stamp == {"same", "raced", "older", "junk"}
OwnStamps == {"same", "raced"}
Node == [content : FileContent, stamp : Stamp, deleted : BOOLEAN]

Nothing == [p \in {} |-> p]

\* Functions: what f has no value for, g may have one for.
Over(f, g) ==
    [p \in DOMAIN f \union DOMAIN g |-> IF p \in DOMAIN f THEN f[p] ELSE g[p]]

-----------------------------------------------------------------------------
(* The work tree against the HEAD commit: status.c *)

Present == {p \in Paths : work[p] # Absent}

\* The live entries of a commit; there are none if there is no commit.
Live(i) ==
    IF i = 0 THEN {} ELSE {p \in DOMAIN commits[i] : ~commits[i][p].deleted}

Snapshot(i) == [p \in Live(i) |-> commits[i][p].content]

HeadLive == Live(head)

Unchanged(p) == p \in HeadLive /\ work[p] = commits[head][p].content

\* Paths whose stamp in the HEAD commit was never written.
JunkStamped == {p \in HeadLive : commits[head][p].stamp = "junk"}

\* Files that status() may take for unchanged though they are not.
Doubtful == {p \in Present \cap HeadLive : commits[head][p].stamp \in {"raced", "junk"}}

\* Files at or below a directory.
In(d) == {p \in Present : d = Root \/ DirOf[p] = d}

(***************************************************************************)
(* What status() reports if it compares the files `seen'.  A junk stamp    *)
(* makes it trust any subset of the files it belongs to.  Every live entry *)
(* whose file was not seen is reported as deleted.                         *)
(***************************************************************************)
StatusOf(seen, trusted) ==
    [new      |-> seen \ HeadLive,
     modified |-> {p \in seen \cap HeadLive :
                    /\ ~Unchanged(p)
                    /\ commits[head][p].stamp \notin OwnStamps
                    /\ p \notin trusted},
     gone     |-> HeadLive \ seen]

\* status(".") in a fresh process leaves one directory out (StatusWalk).
Statuses ==
    {StatusOf({p \in Present : DirOf[p] # d}, t) :
        d \in Dirs \union {NoDir}, t \in SUBSET JunkStamped}

StatusesIn(d) == {StatusOf(In(d), t) : t \in SUBSET JunkStamped}

-----------------------------------------------------------------------------
Init ==
    /\ work \in [Paths -> Contents \union {Absent}]
    /\ stage = Nothing
    /\ commits = <<>>
    /\ head = 0
    /\ pc = "idle"
    /\ source = 0
    /\ todo = {}
    /\ asked = FALSE
    /\ events = 0

\* What becomes of the file's own stamp in an entry when the file is written.
Restamped(entries, p, stamp) ==
    IF p \in DOMAIN entries /\ entries[p].stamp \in OwnStamps
    THEN [entries EXCEPT ![p].stamp = stamp]
    ELSE entries

\* A file is written.
PutFile(p, c, stamp) ==
    /\ work' = [work EXCEPT ![p] = c]
    /\ stage' = Restamped(stage, p, stamp)
    /\ commits' = [i \in DOMAIN commits |-> Restamped(commits[i], p, stamp)]

\* What a write makes of it: it may come within the second of the one before.
Stampings == IF RacyEdits THEN {"older", "raced"} ELSE {"older"}

Event == events < MaxEvents /\ events' = events + 1

\* create_file: a file is written by pegit.
WriteOut(p, c) ==
    \/ PutFile(p, c, "older") /\ UNCHANGED events
    \/ RacyEdits /\ Event /\ PutFile(p, c, "raced")

Edit(p) ==
    /\ pc = "idle"
    /\ Event
    /\ \/ \E c \in Contents, stamp \in Stampings : work[p] # c /\ PutFile(p, c, stamp)
       \/ /\ p \in Present
          /\ work' = [work EXCEPT ![p] = Absent]
          /\ UNCHANGED <<stage, commits>>
    /\ UNCHANGED <<head, checking>>

-----------------------------------------------------------------------------
(* peg insert, peg reset *)

\* The node for a path that status() has reported.
NodeOf(p, deleted) ==
    [content |-> IF p \in Present THEN work[p] ELSE Empty,
     stamp   |-> IF p \in Present THEN "same" ELSE "junk",
     deleted |-> deleted]

\* cache_files: a path that is staged already is ignored.
StageReported(paths, gone) ==
    stage' = Over(stage, [p \in paths |-> NodeOf(p, p \in gone)])

\* Mutant: files reported as deleted are left out.
InsertAllButGone(ignored) ==
    /\ pc = "idle"
    /\ \E r \in Statuses :
        StageReported((r.new \union r.modified) \ ignored, r.gone)
    /\ UNCHANGED <<work, commits, head, checking, events>>

\* insert -a, insert . , with or without -i
InsertAll(ignored) ==
    /\ pc = "idle"
    /\ \E r \in Statuses :
        StageReported((r.new \union r.modified \union r.gone) \ ignored, r.gone)
    /\ UNCHANGED <<work, commits, head, checking, events>>

\* insert <dir>: everything tracked outside <dir> is reported as deleted.
InsertDir(d) ==
    /\ pc = "idle"
    /\ \E r \in StatusesIn(d) :
        StageReported(r.new \union r.modified \union r.gone, r.gone)
    /\ UNCHANGED <<work, commits, head, checking, events>>

\* Mutant: contents are not compared.
InsertFileAlways(p) ==
    /\ pc = "idle"
    /\ p \in Present
    /\ stage' = Over(stage, [q \in {p} |-> NodeOf(q, FALSE)])
    /\ UNCHANGED <<work, commits, head, checking, events>>

\* insert <file>: contents are always compared, and for a modified file the
\* stat buffer of the node is not filled in (stage.c:336-346).
InsertFile(p) ==
    /\ pc = "idle"
    /\ p \in Present
    /\ stage' = IF Unchanged(p) THEN stage
                ELSE Over(stage, [q \in {p} |-> [NodeOf(q, FALSE) EXCEPT
                        !.stamp = IF q \in HeadLive THEN "junk" ELSE @]])
    /\ UNCHANGED <<work, commits, head, checking, events>>

Reset ==
    /\ pc = "idle"
    /\ stage' = Nothing
    /\ UNCHANGED <<work, commits, head, checking, events>>

-----------------------------------------------------------------------------
(* peg commit, peg tag *)

Last == Len(commits)

\* copy_index_list: name, range and flag are copied, the stat buffer is not.
Carried == [p \in Live(Last) |-> [commits[Last][p] EXCEPT !.stamp = "junk"]]

\* transfer_staged_data for one node.
Transferred(p) ==
    IF stage[p].deleted /\ p \in Live(Last)
    THEN [content |-> Empty, stamp |-> "junk", deleted |-> TRUE]
    ELSE [stage[p] EXCEPT !.deleted = FALSE]

\* Mutant: the commit starts from HEAD and forgets what is not in it.
CommitOnlyStage ==
    /\ pc = "idle"
    /\ stage # Nothing
    /\ Last < MaxCommits
    /\ commits' = Append(commits, [p \in DOMAIN stage |-> Transferred(p)])
    /\ head' = Last + 1
    /\ stage' = Nothing
    /\ UNCHANGED <<work, checking, events>>

Commit ==
    /\ pc = "idle"
    /\ stage # Nothing
    /\ Last < MaxCommits
    /\ commits' = Append(commits,
                    Over([p \in DOMAIN stage |-> Transferred(p)], Carried))
    /\ head' = Last + 1
    /\ stage' = Nothing
    /\ UNCHANGED <<work, checking, events>>

\* set_tag: cm->flags = TAG_FLAG.  Without a commit, the last one is taken.
Tag(i) ==
    /\ pc = "idle"
    /\ head' = IF head = i THEN 0 ELSE head
    /\ UNCHANGED <<work, stage, commits, checking, events>>

-----------------------------------------------------------------------------
(* peg head, peg checkout, peg revert *)

\* Mutant: the question is asked only if there are modified files.
CheckOutAskingLess(target, force) ==
    /\ pc = "idle"
    /\ head' = target
    /\ \E r \in Statuses :
        LET dirty == r.modified # {}
            refused == r.new # {} /\ r.modified # {} /\ ~force
        IN \/ /\ dirty
              /\ UNCHANGED <<pc, asked>>
           \/ /\ ~refused
              /\ pc' = "cleaning"
              /\ asked' = dirty
    /\ UNCHANGED <<work, stage, commits, source, todo, events>>

(***************************************************************************)
(* status("."), the new HEAD, then revert_files_hard.  With both new and   *)
(* modified files it refuses; with either it asks, and the answer may be   *)
(* no.  In both cases HEAD has moved and the work tree has not.            *)
(***************************************************************************)
CheckOut(target, force) ==
    /\ pc = "idle"
    /\ head' = target
    /\ \E r \in Statuses :
        LET dirty == r.new # {} \/ r.modified # {}
            refused == r.new # {} /\ r.modified # {} /\ ~force
        IN \/ /\ dirty
              /\ UNCHANGED <<pc, asked>>
           \/ /\ ~refused
              /\ pc' = "cleaning"
              /\ asked' = dirty
    /\ UNCHANGED <<work, stage, commits, source, todo, events>>

\* peg head <commit>: the old HEAD is dereferenced.
HeadTo(i) == head # 0 /\ CheckOut(i, FALSE)

\* peg head --reset
HeadReset == commits # <<>> /\ CheckOut(Last, FALSE)

\* peg checkout, peg revert --hard
CheckOutHead == \E force \in BOOLEAN : CheckOut(head, force)

\* clean_directory
RemoveFile(p) ==
    /\ pc = "cleaning"
    /\ p \in Present
    /\ work' = [work EXCEPT ![p] = Absent]
    /\ UNCHANGED <<repo, checking, events>>

\* Mutant: the work tree is not cleaned before it is rewritten.
CleanDoneEarly ==
    /\ pc = "cleaning"
    /\ pc' = "rewriting"
    /\ source' = head
    /\ todo' = IF head = 0 THEN {} ELSE DOMAIN commits[head]
    /\ asked' = FALSE
    /\ UNCHANGED <<work, repo, events>>

\* revert_all_files takes every entry of HEAD, the deleted ones included.
CleanDone ==
    /\ pc = "cleaning"
    /\ Present = {}
    /\ pc' = "rewriting"
    /\ source' = head
    /\ todo' = IF head = 0 THEN {} ELSE DOMAIN commits[head]
    /\ asked' = FALSE
    /\ UNCHANGED <<work, repo, events>>

\* Mutant: the file is not taken off the list.
WriteBackAgain(p) ==
    /\ pc \in {"rewriting", "reverting"}
    /\ p \in todo
    /\ WriteOut(p, commits[source][p].content)
    /\ UNCHANGED <<head, pc, source, todo, asked>>

\* revert_file
WriteBack(p) ==
    /\ pc \in {"rewriting", "reverting"}
    /\ p \in todo
    /\ todo' = todo \ {p}
    /\ WriteOut(p, commits[source][p].content)
    /\ UNCHANGED <<head, pc, source, asked>>

Exit ==
    /\ pc' = "idle"
    /\ source' = 0
    /\ todo' = {}
    /\ asked' = FALSE

WrittenBack ==
    /\ pc \in {"rewriting", "reverting"}
    /\ todo = {}
    /\ Exit
    /\ UNCHANGED <<work, repo, events>>

\* peg revert ~n <file>; for a missing file stat leaves its buffer as it was,
\* which may or may not look like a regular file (checkout.c:326-348).
RevertFile(p, i) ==
    /\ pc = "idle"
    /\ p \in Live(i)
    /\ WriteOut(p, commits[i][p].content)
    /\ UNCHANGED <<head, checking>>

\* peg revert ~n <dir>: status(".") and status(<dir>) add up their counts; to
\* the second, all files of a directory not named ./<dir> are new.
RevertDir(d, i) ==
    /\ pc = "idle"
    /\ \E r \in Statuses,
           s \in StatusesIn(d) \union {[new |-> In(d), modified |-> {}]} :
        r.new \union s.new = {} \/ r.modified \union s.modified = {}
    /\ pc' = "reverting"
    /\ source' = i
    /\ todo' = In(d) \cap Live(i)
    /\ UNCHANGED <<work, repo, asked, events>>

\* The process is killed, between two files or in the middle of one.
Kill ==
    /\ pc # "idle"
    /\ Event
    /\ Exit
    /\ \/ UNCHANGED <<work, stage, commits>>
       \/ \E p \in todo, stamp \in Stampings : PutFile(p, Empty, stamp)
    /\ UNCHANGED head

-----------------------------------------------------------------------------
CheckingOut ==
    \/ \E p \in Paths : RemoveFile(p) \/ WriteBack(p)
    \/ CleanDone \/ WrittenBack

Command ==
    \/ \E ignored \in SUBSET Paths : InsertAll(ignored)
    \/ \E d \in Dirs : InsertDir(d)
    \/ \E p \in Paths : InsertFile(p)
    \/ Reset
    \/ Commit
    \/ \E i \in DOMAIN commits : Tag(i) \/ HeadTo(i)
    \/ HeadReset
    \/ CheckOutHead
    \/ \E p \in Paths, i \in DOMAIN commits : RevertFile(p, i)
    \/ \E d \in Dirs \union {Root}, i \in DOMAIN commits : RevertDir(d, i)

Next == Command \/ CheckingOut \/ Kill \/ \E p \in Paths : Edit(p)

Spec == Init /\ [][Next]_vars

\* A checkout that has begun waits for nobody.
FairSpec == Spec /\ WF_vars(CheckingOut)

-----------------------------------------------------------------------------
(* Properties *)

\* What is staged, on top of HEAD, is the work tree.  A path that is staged
\* as deleted is one that HEAD has: where HEAD has moved to a commit without
\* the path, the next commit takes it for a new file of no bytes
\* (commit.c:488, which asks for the entry before the status).
StagedAsIs(p) ==
    IF p \in DOMAIN stage
    THEN IF stage[p].deleted THEN p \in HeadLive /\ work[p] = Absent
                             ELSE work[p] = stage[p].content
    ELSE work[p] = IF p \in HeadLive THEN commits[head][p].content ELSE Absent

StageIsWork == \A p \in Paths : StagedAsIs(p)

StagedAsDeleted(p) == p \in DOMAIN stage /\ stage[p].deleted

WorkSnapshot == [p \in Present |-> work[p]]

(***************************************************************************)
(* A commit records the work tree: if all that differs from HEAD is staged *)
(* as it is now, and HEAD is the last commit, the new commit is the work   *)
(* tree, deletions included (commit.c:463-569).                            *)
(***************************************************************************)
CommitRecordsWork ==
    [][(Commit /\ StageIsWork /\ head = Last /\ stage # Nothing)
            => Snapshot(head)' = WorkSnapshot]_vars

(***************************************************************************)
(* `insert .' on an empty stage finds every change but those of files with *)
(* a stamp that lies or was never written, and those in the one directory  *)
(* the walk leaves out.  Of that directory it stages everything HEAD has,  *)
(* as deleted (status.c:116-235).                                          *)
(***************************************************************************)
InsertFindsChanges ==
    [][(stage = Nothing /\ InsertAll({}))
            => \E d \in Dirs \union {NoDir} : \A p \in Paths :
                    IF DirOf[p] = d
                    THEN IF p \in HeadLive THEN StagedAsDeleted(p)'
                                           ELSE p \notin DOMAIN stage'
                    ELSE p \in Doubtful \/ StagedAsIs(p)']_vars

(***************************************************************************)
(* A file that has not changed is staged only as deleted, and only for its *)
(* directory: it is in the one directory the walk leaves out, or beside    *)
(* the directory insert was given (status.c:195).                          *)
(***************************************************************************)
UnchangedOnlyAsDeleted ==
    [][LET unchanged == {p \in DOMAIN stage' \ DOMAIN stage : Unchanged(p)}
       IN  /\ \A p \in unchanged : StagedAsDeleted(p)'
           /\ unchanged # {} =>
                 \E d \in Dirs : \/ unchanged \subseteq In(d)
                                 \/ InsertDir(d) /\ unchanged \cap In(d) = {}]_vars

(***************************************************************************)
(* Checking out HEAD, from whatever state a killed checkout or an edit has *)
(* left the work tree in, ends with HEAD's files and no others; a path     *)
(* that HEAD has as deleted is there as an empty file (checkout.c:183).    *)
(***************************************************************************)
Restored(i) ==
    [p \in Paths |-> IF i # 0 /\ p \in DOMAIN commits[i]
                     THEN commits[i][p].content ELSE Absent]

CheckOutRestores ==
    [][(WrittenBack /\ pc = "rewriting") => work' = Restored(head)]_vars

(***************************************************************************)
(* No file is removed from the work tree without the question being asked  *)
(* unless the old HEAD has its content, status() could not know because of *)
(* its stamp, or it is in the one directory status() has left out          *)
(* (checkout.c:73-95 rests on status(".")).                                *)
(***************************************************************************)
NothingLostSilently ==
    [][(pc = "idle" /\ pc' = "cleaning" /\ ~asked')
            => \E d \in Dirs \union {NoDir} : \A p \in Present :
                    Unchanged(p) \/ p \in Doubtful \/ DirOf[p] = d]_vars

\* A checkout that has begun comes to its end, or is killed.
CheckOutEnds == (pc # "idle") ~> (pc = "idle")

\* The commits are the snapshots, and the stage the nodes, of the abstract store.
VS == INSTANCE VersionStore
        WITH EmptyFile <- Empty,
             history <- [i \in DOMAIN commits |-> Snapshot(i)],
             stage <- [p \in DOMAIN stage |-> [content |-> stage[p].content,
                                               deleted |-> stage[p].deleted]]

(***************************************************************************)
(* The commands implement the abstract store that the files of PegStore    *)
(* implement: nothing but commit makes history, moving HEAD and checking   *)
(* out never change it, and a commit starts from the last one, wherever    *)
(* HEAD is.                                                                *)
(***************************************************************************)
ImplementsVersionStore == VS!Spec

-----------------------------------------------------------------------------
(* What documents say and the code does not do *)

(***************************************************************************)
(* The usage text of insert, stage.c:29: "-a, --all: add all the files     *)
(* that have been modified".  The walk leaves out nothing here.            *)
(***************************************************************************)
InsertAddsAllModified ==
    [][InsertAll({}) =>
        \A p \in Present \cap HeadLive : Unchanged(p) \/ p \in DOMAIN stage']_vars

(***************************************************************************)
(* A file is staged only if it differs from the HEAD commit (main.c:109:   *)
(* "Note: only changed files are added to stage area").                    *)
(***************************************************************************)
OnlyChangesStaged ==
    [][\A p \in DOMAIN stage' \ DOMAIN stage : ~Unchanged(p)]_vars
=============================================================================

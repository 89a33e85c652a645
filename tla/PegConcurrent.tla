--------------------------- MODULE PegConcurrent ----------------------------
(***************************************************************************)
(* Several pegit processes in one repository.  Nothing is locked: every    *)
(* command reads the files it needs, one after the other, and writes back  *)
(* whole files, each one by truncating it and writing it.                  *)
(*                                                                         *)
(* An insert stages one new file, so a name stands for a file and for its  *)
(* content; a pack is a sequence of contents.  Modified and deleted files, *)
(* and one process that dies, are in PegStore.                             *)
(***************************************************************************)
EXTENDS Naturals, Sequences

CONSTANTS
    Proc,         \* processes
    MaxCommands,  \* bound: commands that are run
    MaxCuts       \* bound: writes of db.pack that a full disk cuts

ASSUME ConcurrentAssumption == MaxCommands \in Nat /\ MaxCuts \in Nat

File == {"commits", "index", "pack", "stageIdx", "stagePack"}

VARIABLES
    disk,     \* contents of the five files
    open,     \* processes that have truncated a file and not closed it
    pc,       \* what a process does next, "idle" between commands
    mine,     \* what a process has read, or prepared to write
    next,     \* the next new file
    done,     \* the commits that were completed, as they were then
    staged,   \* names inserted, and not taken out by a commit or a reset
    raced,    \* two processes were in the same file's commands at once
    cuts      \* writes that were cut

vars == <<disk, open, pc, mine, next, done, staged, raced, cuts>>

\* A node of the stage, or an entry of a commit, says where in a pack the
\* content of a file is.
Nowhere == [name |-> 0, pos |-> 0]

Empty == [commits |-> <<>>, copy |-> <<>>, index |-> <<>>, pack |-> <<>>,
          stageIdx |-> <<>>, stagePack |-> <<>>]

\* What lies at a position, if anything does.
At(seq, k, junk) == IF k \in DOMAIN seq THEN seq[k] ELSE junk

\* The entries of a commit, as far as they are in the index.
Entries(c, index) ==
    [k \in 1 .. c.len |-> At(index, c.start + k - 1, Nowhere)]

Names(entries) == {entries[k].name : k \in DOMAIN entries}

\* The contents of the entries are the ones their names stand for.
Genuine(entries, pack) ==
    \A k \in DOMAIN entries : At(pack, entries[k].pos, 0) = entries[k].name

\* One commit of one file, and a staged file.
Init ==
    /\ disk = [commits   |-> <<[start |-> 1, len |-> 1, head |-> TRUE]>>,
               index     |-> <<[name |-> 1, pos |-> 1]>>,
               pack      |-> <<1>>,
               stageIdx  |-> <<[name |-> 2, pos |-> 1]>>,
               stagePack |-> <<2>>]
    /\ open = [f \in File |-> {}]
    /\ pc = [p \in Proc |-> "idle"]
    /\ mine = [p \in Proc |-> Empty]
    /\ next = 3
    /\ done = {[entries |-> <<[name |-> 1, pos |-> 1]>>, genuine |-> TRUE]}
    /\ staged = {2}
    /\ raced = [history |-> FALSE, stage |-> FALSE]
    /\ cuts = 0

\* The flag is taken off the first commit that has it.
WithoutHead(c) ==
    [k \in DOMAIN c |->
        [c[k] EXCEPT !.head = @ /\ \E l \in 1 .. (k - 1) : c[l].head]]

-----------------------------------------------------------------------------
(* Reading and writing files *)

\* p has read a file and goes on.
Read(p, f, to) ==
    /\ mine' = [mine EXCEPT ![p][f] = disk[f]]
    /\ pc' = [pc EXCEPT ![p] = to]
    /\ UNCHANGED <<disk, open, next, done, staged, cuts>>

Truncate(p, f, to) ==
    /\ disk' = [disk EXCEPT ![f] = <<>>]
    /\ open' = [open EXCEPT ![f] = @ \union {p}]
    /\ pc' = [pc EXCEPT ![p] = to]
    /\ UNCHANGED <<mine, next, done, staged, cuts>>

(***************************************************************************)
(* What is written starts at the first byte.  If another process has       *)
(* written the file since, the rest of what it wrote remains; readers of   *)
(* commit.idx, cache.idx and db.pack stop at a length that comes first.    *)
(***************************************************************************)
Counted == {"commits", "stageIdx", "pack"}

Written(f, new) ==
    IF f \in Counted THEN new
    ELSE new \o SubSeq(disk[f], Len(new) + 1, Len(disk[f]))

Close(p, f, new) ==
    /\ disk' = [disk EXCEPT ![f] = Written(f, new)]
    /\ open' = [open EXCEPT ![f] = @ \ {p}]

\* The process ends, or dies with a message.
Exit(p) ==
    /\ pc' = [pc EXCEPT ![p] = "idle"]
    /\ mine' = [mine EXCEPT ![p] = Empty]

Begin(p, to) ==
    /\ pc[p] = "idle" /\ next < 3 + MaxCommands
    /\ pc' = [pc EXCEPT ![p] = to]
    /\ next' = next + 1
    /\ UNCHANGED <<disk, open, mine, done, staged, cuts>>

-----------------------------------------------------------------------------
(* insert: stage.c, cache.c *)

\* The name of the new file is kept with the process.
BeginInsert(p) ==
    /\ pc[p] = "idle" /\ next < 3 + MaxCommands
    /\ pc' = [pc EXCEPT ![p] = "insertReadIdx"]
    /\ mine' = [mine EXCEPT ![p].copy = <<next>>]
    /\ next' = next + 1
    /\ UNCHANGED <<disk, open, done, staged, cuts>>

InsertReadIdx(p) == pc[p] = "insertReadIdx" /\ Read(p, "stageIdx", "insertReadPack")

\* The new file comes after what was read.
InsertReadPack(p) ==
    /\ pc[p] = "insertReadPack"
    /\ LET name == mine[p].copy[1]
           place == [name |-> name, pos |-> Len(disk.stagePack) + 1]
       IN  mine' = [mine EXCEPT ![p].stagePack = Append(disk.stagePack, name),
                                ![p].stageIdx = Append(@, place)]
    /\ pc' = [pc EXCEPT ![p] = "insertOpenPack"]
    /\ UNCHANGED <<disk, open, next, done, staged, cuts>>

InsertOpenPack(p) == pc[p] = "insertOpenPack" /\ Truncate(p, "stagePack", "insertPack")

InsertPack(p) ==
    /\ pc[p] = "insertPack"
    /\ Close(p, "stagePack", mine[p].stagePack)
    /\ pc' = [pc EXCEPT ![p] = "insertOpenIdx"]
    /\ UNCHANGED <<mine, next, done, staged, cuts>>

InsertOpenIdx(p) == pc[p] = "insertOpenIdx" /\ Truncate(p, "stageIdx", "insertIdx")

InsertIdx(p) ==
    /\ pc[p] = "insertIdx"
    /\ Close(p, "stageIdx", mine[p].stageIdx)
    /\ staged' = staged \union {mine[p].copy[1]}
    /\ Exit(p)
    /\ UNCHANGED <<next, done, cuts>>

Insert(p) ==
    \/ BeginInsert(p) \/ InsertReadIdx(p) \/ InsertReadPack(p)
    \/ InsertOpenPack(p) \/ InsertPack(p) \/ InsertOpenIdx(p) \/ InsertIdx(p)

-----------------------------------------------------------------------------
(* commit: generate_new_commit *)

BeginCommit(p) == Begin(p, "readCommits")

ReadCommits(p) == pc[p] = "readCommits" /\ Read(p, "commits", "readMaster")

\* The entries of the last commit are carried over.
ReadMaster(p) ==
    /\ pc[p] = "readMaster"
    /\ LET c == mine[p].commits IN
        mine' = [mine EXCEPT ![p].copy =
                    IF c = <<>> THEN <<>> ELSE Entries(c[Len(c)], disk.index)]
    /\ pc' = [pc EXCEPT ![p] = "readStageIdx"]
    /\ UNCHANGED <<disk, open, next, done, staged, cuts>>

ReadStageIdx(p) == pc[p] = "readStageIdx" /\ Read(p, "stageIdx", "readStagePack")

ReadStagePack(p) == pc[p] = "readStagePack" /\ Read(p, "stagePack", "readIndex")

\* "stage data empty"
CommitNothing(p) ==
    /\ pc[p] = "readIndex" /\ mine[p].stageIdx = <<>>
    /\ Exit(p)
    /\ UNCHANGED <<disk, open, next, done, staged, cuts>>

ReadIndex(p) ==
    /\ pc[p] = "readIndex" /\ mine[p].stageIdx # <<>>
    /\ Read(p, "index", "readPack")

\* Mutant: positions are counted in db.idx.
ReadPackByIndex(p) ==
    /\ pc[p] = "readPack"
    /\ LET me == mine[p]
           nodes == me.stageIdx
           new == [k \in DOMAIN nodes |->
                      [name |-> nodes[k].name, pos |-> Len(me.index) + k]]
           all == me.copy \o new
           commit == [start |-> Len(me.index) + 1, len |-> Len(all), head |-> TRUE]
       IN  mine' = [mine EXCEPT
               ![p].pack = disk.pack \o
                   [k \in DOMAIN nodes |-> At(me.stagePack, nodes[k].pos, 0)],
               ![p].index = @ \o all,
               ![p].copy = all,
               ![p].commits = Append(WithoutHead(@), commit)]
    /\ pc' = [pc EXCEPT ![p] = "openPack"]
    /\ UNCHANGED <<disk, open, next, done, staged, cuts>>

\* Staged contents come after the pack, their entries after the copied ones.
ReadPack(p) ==
    /\ pc[p] = "readPack"
    /\ LET me == mine[p]
           nodes == me.stageIdx
           new == [k \in DOMAIN nodes |->
                      [name |-> nodes[k].name, pos |-> Len(disk.pack) + k]]
           all == me.copy \o new
           commit == [start |-> Len(me.index) + 1, len |-> Len(all), head |-> TRUE]
       IN  mine' = [mine EXCEPT
               ![p].pack = disk.pack \o
                   [k \in DOMAIN nodes |-> At(me.stagePack, nodes[k].pos, 0)],
               ![p].index = @ \o all,
               ![p].copy = all,
               ![p].commits = Append(WithoutHead(@), commit)]
    /\ pc' = [pc EXCEPT ![p] = "openPack"]
    /\ UNCHANGED <<disk, open, next, done, staged, cuts>>

OpenPack(p) == pc[p] = "openPack" /\ Truncate(p, "pack", "writePack")

WritePack(p) ==
    /\ pc[p] = "writePack"
    /\ Close(p, "pack", mine[p].pack)
    /\ pc' = [pc EXCEPT ![p] = "openCommits"]
    /\ UNCHANGED <<mine, next, done, staged, cuts>>

\* A full disk cuts the file.  What fwrite returns is not looked at, and the
\* commit goes on (pack.h:44); a cut stream is inflated as far as it goes.
CutPack(p) ==
    /\ pc[p] = "writePack" /\ cuts < MaxCuts
    /\ \E n \in 0 .. Len(mine[p].pack) - 1 : Close(p, "pack", SubSeq(mine[p].pack, 1, n))
    /\ pc' = [pc EXCEPT ![p] = "openCommits"]
    /\ cuts' = cuts + 1
    /\ UNCHANGED <<mine, next, done, staged>>

OpenCommits(p) == pc[p] = "openCommits" /\ Truncate(p, "commits", "writeCommits")

WriteCommits(p) ==
    /\ pc[p] = "writeCommits"
    /\ Close(p, "commits", mine[p].commits)
    /\ pc' = [pc EXCEPT ![p] = "openIndex"]
    /\ UNCHANGED <<mine, next, done, staged, cuts>>

OpenIndex(p) == pc[p] = "openIndex" /\ Truncate(p, "index", "writeIndex")

Completed(p) ==
    done' = done \union {[entries |-> mine[p].copy,
                          genuine |-> Genuine(mine[p].copy, disk.pack)]}

\* Mutant: only the entries of the new commit are written.
WriteIndexNewOnly(p) ==
    /\ pc[p] = "writeIndex"
    /\ Close(p, "index", mine[p].copy)
    /\ pc' = [pc EXCEPT ![p] = "cleanIdx"]
    /\ Completed(p)
    /\ UNCHANGED <<mine, next, staged, cuts>>

\* The commit is complete.
WriteIndex(p) ==
    /\ pc[p] = "writeIndex"
    /\ Close(p, "index", mine[p].index)
    /\ pc' = [pc EXCEPT ![p] = "cleanIdx"]
    /\ Completed(p)
    /\ UNCHANGED <<mine, next, staged, cuts>>

Commit(p) ==
    \/ BeginCommit(p) \/ ReadCommits(p) \/ ReadMaster(p)
    \/ ReadStageIdx(p) \/ ReadStagePack(p) \/ CommitNothing(p)
    \/ ReadIndex(p) \/ ReadPack(p)
    \/ OpenPack(p) \/ WritePack(p) \/ CutPack(p)
    \/ OpenCommits(p) \/ WriteCommits(p) \/ OpenIndex(p) \/ WriteIndex(p)

-----------------------------------------------------------------------------
(* The end of a commit, and reset: cache_object_clean *)

BeginReset(p) == Begin(p, "resetRead")

\* reset reads the stage as well.
ResetRead(p) == pc[p] = "resetRead" /\ Read(p, "stageIdx", "cleanIdx")

\* Mutant: the pack is emptied, the index is not.
CleanIdxForgotten(p) ==
    /\ pc[p] = "cleanIdx"
    /\ staged' = staged \ Names(mine[p].stageIdx)
    /\ pc' = [pc EXCEPT ![p] = "cleanPack"]
    /\ UNCHANGED <<disk, open, mine, next, done, cuts>>

\* An index of no nodes reads like a truncated one.
CleanIdx(p) ==
    /\ pc[p] = "cleanIdx"
    /\ disk' = [disk EXCEPT !.stageIdx = <<>>]
    /\ staged' = staged \ Names(mine[p].stageIdx)
    /\ pc' = [pc EXCEPT ![p] = "cleanPack"]
    /\ UNCHANGED <<open, mine, next, done, cuts>>

CleanPack(p) ==
    /\ pc[p] = "cleanPack"
    /\ disk' = [disk EXCEPT !.stagePack = <<>>]
    /\ Exit(p)
    /\ UNCHANGED <<open, next, done, staged, cuts>>

Clean(p) == BeginReset(p) \/ ResetRead(p) \/ CleanIdx(p) \/ CleanPack(p)

-----------------------------------------------------------------------------
(* tag and head: commit.idx is read and written *)

BeginFlags(p) == Begin(p, "flagsRead")

\* There is no commit, or no HEAD to take the flag from.
NoCommits(p) ==
    /\ pc[p] = "flagsRead"
    /\ ~\E k \in DOMAIN disk.commits : disk.commits[k].head
    /\ Exit(p)
    /\ UNCHANGED <<disk, open, next, done, staged, cuts>>

\* head moves the flag to any commit, if there is a HEAD, and --reset to the
\* last one; tag takes all flags off the commit it names.
FlagsRead(p) ==
    /\ pc[p] = "flagsRead"
    /\ LET c == disk.commits IN
        \E k \in DOMAIN c :
            \/ /\ k = Len(c) \/ \E l \in DOMAIN c : c[l].head
               /\ mine' = [mine EXCEPT ![p].commits = [WithoutHead(c) EXCEPT ![k].head = TRUE]]
            \/ mine' = [mine EXCEPT ![p].commits = [c EXCEPT ![k].head = FALSE]]
    /\ pc' = [pc EXCEPT ![p] = "openFlags"]
    /\ UNCHANGED <<disk, open, next, done, staged, cuts>>

OpenFlags(p) == pc[p] = "openFlags" /\ Truncate(p, "commits", "writeFlags")

WriteFlags(p) ==
    /\ pc[p] = "writeFlags"
    /\ Close(p, "commits", mine[p].commits)
    /\ Exit(p)
    /\ UNCHANGED <<next, done, staged, cuts>>

Flags(p) ==
    BeginFlags(p) \/ NoCommits(p) \/ FlagsRead(p) \/ OpenFlags(p) \/ WriteFlags(p)

-----------------------------------------------------------------------------
(* Commands that run at once *)

\* From the first to the last access to commit.idx, db.idx and db.pack.
HistoryWindow ==
    {"readMaster", "readStageIdx", "readStagePack", "readIndex", "readPack",
     "openPack", "writePack", "openCommits", "writeCommits", "openIndex",
     "writeIndex", "openFlags", "writeFlags"}

\* From the first to the last access to the stage, if it is written.
StageWindow ==
    {"insertReadPack", "insertOpenPack", "insertPack", "insertOpenIdx", "insertIdx",
     "readStagePack", "readIndex", "readPack", "openPack", "writePack",
     "openCommits", "writeCommits", "openIndex", "writeIndex", "cleanIdx", "cleanPack"}

Both(window) == \E p, q \in Proc : p # q /\ pc[p] \in window /\ pc[q] \in window

Next ==
    /\ \E p \in Proc : Insert(p) \/ Commit(p) \/ Clean(p) \/ Flags(p)
    /\ raced' = [history |-> raced.history \/ Both(HistoryWindow)',
                 stage   |-> raced.stage \/ Both(StageWindow)']

Spec == Init /\ [][Next]_vars

-----------------------------------------------------------------------------
(* Properties *)

\* A completed commit keeps its entries and their contents, whatever other
\* processes insert or reset meanwhile, unless two commands that write the
\* history were at it at once.  Where db.pack was cut, the entries are kept.
HistoryKept ==
    /\ \A f \in {"commits", "index", "pack"} : open[f] = {}
    /\ ~raced.history
    => \A c \in done :
           /\ \E k \in DOMAIN disk.commits :
                  Entries(disk.commits[k], disk.index) = c.entries
           /\ c.genuine /\ cuts = 0 => Genuine(c.entries, disk.pack)

\* A file that was inserted stays in the stage, with its content, until a
\* commit or a reset that has read it takes it out, unless two commands were
\* at the stage at once.
StagedKept ==
    /\ open["stageIdx"] = {} /\ open["stagePack"] = {}
    /\ ~raced.stage
    => /\ staged = Names(disk.stageIdx)
       /\ Genuine(disk.stageIdx, disk.stagePack)

\* A commit holds the contents that were inserted, unless one of the two
\* places was written by two commands at once or db.pack was cut: neither a
\* commit beside an insert that has not begun to write, nor an insert beside
\* head or tag, mixes them up.
CommitsAreGenuine ==
    ~raced.history /\ ~raced.stage /\ cuts = 0 => \A c \in done : c.genuine

=============================================================================

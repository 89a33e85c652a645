------------------------------ MODULE PegStore ------------------------------
(***************************************************************************)
(* The files under .peg/ and the commands that rewrite them.  Every        *)
(* command is a process of its own that reads whole files into memory,     *)
(* works there, and writes each file back with fopen("wb"), which empties  *)
(* it, followed by fwrite.  The process may die between any two of these   *)
(* steps.  One command runs at a time: pegit takes no lock, and two        *)
(* commands at once are outside this module.                               *)
(*                                                                         *)
(* Abstractions: offsets and lengths in the index are counted in entries,  *)
(* not in sizeof(struct index); db.pack is modelled after decompression;   *)
(* author, message, hash, time stamps, stat data and version numbers are   *)
(* left out; an emptied file and one with a zero count read the same       *)
(* (cache.c:83-85, commit.c:204-206) and are one value.                    *)
(***************************************************************************)
EXTENDS Naturals, Sequences

CONSTANTS
    Paths,       \* names of the files in the work tree
    NoPath,      \* the name in an index entry that was never written
    Bytes,       \* bytes a file is made of
    Junk,        \* a byte read from memory outside a buffer
    Contents,    \* the contents an insert may find in a file
    MaxCommits,  \* bound: no commit starts once this many exist
    MaxCrashes,  \* bound: how many processes die
    CrashPoints  \* points at which the process may die

(***************************************************************************)
(* Points of a command, named for the last thing it did.  At xTrunc the    *)
(* file x has been emptied by fopen and not written yet.                   *)
(***************************************************************************)
Points == {"idle", "staging", "cachePackTrunc", "cachePackDone",
           "cacheIdxTrunc", "copy", "transfer", "packTrunc", "packDone",
           "commitsTrunc", "commitsDone", "indexTrunc", "indexDone",
           "cleanPack", "flagsTrunc"}

\* Points at which a crash harms the history, and the stage.
HistoryPoints ==
    {"packTrunc", "commitsTrunc", "commitsDone", "indexTrunc", "flagsTrunc"}
StagePoints == {"cachePackTrunc", "cacheIdxTrunc"}

ASSUME StoreAssumption ==
    /\ NoPath \notin Paths
    /\ Junk \notin Bytes
    /\ Contents \subseteq Seq(Bytes)
    /\ MaxCommits \in Nat
    /\ MaxCrashes \in Nat
    /\ CrashPoints \subseteq Points \ {"idle"}

VARIABLES
    cacheIdx,   \* .peg/cache/cache.idx: the staged nodes
    cachePack,  \* .peg/cache/cache.pack: their bytes
    dbIdx,      \* .peg/db/db.idx: the index entries of all commits
    dbPack,     \* .peg/db/db.pack: the bytes of all versions of all files
    commitIdx,  \* .peg/commit/commit.idx: the commits
    pc,         \* where the running command is; "idle" when none runs
    node,       \* position of the copy or transfer loop
    mEntries,   \* memory: co.ci.entries
    mCache,     \* memory: co.cc.cache_buf
    mPack,      \* memory: the pack_file_cache
    mIdx,       \* memory: the index_file_cache
    mCopy,      \* memory: the index list of the commit being made
    mCommits,   \* memory: the commit_list
    crashes     \* history variable: the points at which a process died

disk == <<cacheIdx, cachePack, dbIdx, dbPack, commitIdx>>
mem == <<node, mEntries, mCache, mPack, mIdx, mCopy, mCommits>>
vars == <<disk, pc, mem, crashes>>

Byte == Bytes \union {Junk}
StageNode == [path : Paths, start : Nat, len : Nat, deleted : BOOLEAN]
Entry == [path : Paths \union {NoPath}, start : Nat, len : Nat,
          flags : {"NEW", "MODIFIED", "DELETED"}]
CommitRec == [index : Nat, length : Nat, head : BOOLEAN]

-----------------------------------------------------------------------------
(***************************************************************************)
(* Reading.  Neither strbuf_add on a buffer nor make_index_from_cache      *)
(* checks the range it is given: what lies outside is junk.                *)
(***************************************************************************)

\* The len bytes at offset start of a pack.
Slice(pack, start, len) ==
    [k \in 1 .. len |->
        IF start + k \in DOMAIN pack THEN pack[start + k] ELSE Junk]

\* get_file_content, which does check: an entry outside the pack is empty.
FileContent(pack, e) ==
    IF e.start + e.len <= Len(pack) THEN Slice(pack, e.start, e.len) ELSE <<>>

\* make_index_from_cache: what may be read at a position of db.idx.
EntryAt(idx, j) ==
    IF j \in DOMAIN idx THEN {idx[j]}
    ELSE {[path |-> NoPath, start |-> 0, len |-> 0, flags |-> f] :
            f \in {"NEW", "DELETED"}}

\* get_head_commit: the first commit that carries the HEAD flag.
IsHead(cs, i) == cs[i].head /\ \A j \in 1 .. i - 1 : ~cs[j].head

HasHead(cs) == \E i \in DOMAIN cs : cs[i].head

\* Mutant: the old HEAD keeps its flag.
DropHeadForgotten(cs) == cs

\* old->flags ^= HEAD_FLAG
DropHead(cs) ==
    [i \in DOMAIN cs |-> IF IsHead(cs, i) THEN [cs[i] EXCEPT !.head = FALSE]
                                          ELSE cs[i]]

\* make_index_list_from_commit
EntriesOf(idx, c) == UNION {EntryAt(idx, c.index + k) : k \in 1 .. c.length}

\* get_head_commit_list, the live part of it
HeadLive ==
    {e \in UNION {EntriesOf(dbIdx, commitIdx[i]) :
                    i \in {h \in DOMAIN commitIdx : IsHead(commitIdx, h)}} :
        e.flags # "DELETED"}

\* find_file_index_list on the list of the commit being made
IsFound(list, p, i) ==
    /\ list[i].path = p
    /\ list[i].flags # "DELETED"
    /\ \A j \in 1 .. i - 1 : list[j].path # p \/ list[j].flags = "DELETED"

\* Mutant: the last entry of the list is not looked at.
MissingButLast(list, p) ==
    \A i \in 1 .. Len(list) - 1 :
        list[i].path # p \/ list[i].flags = "DELETED"

Missing(list, p) ==
    \A i \in DOMAIN list : list[i].path # p \/ list[i].flags = "DELETED"

\* exist->pack_start, exist->pack_len, exist->flags
SetEntry(list, i, start, len, flags) ==
    [list EXCEPT ![i] = [@ EXCEPT !.start = start, !.len = len, !.flags = flags]]

\* cm->flags, of which only the HEAD flag is kept here
SetHead(cs, i, h) == [cs EXCEPT ![i] = [@ EXCEPT !.head = h]]

-----------------------------------------------------------------------------
\* `peg create' leaves every file empty (project-init.c:87-116).
Init ==
    /\ cacheIdx = <<>> /\ cachePack = <<>>
    /\ dbIdx = <<>> /\ dbPack = <<>> /\ commitIdx = <<>>
    /\ pc = "idle"
    /\ node = 1
    /\ mEntries = <<>> /\ mCache = <<>> /\ mPack = <<>>
    /\ mIdx = <<>> /\ mCopy = <<>> /\ mCommits = <<>>
    /\ crashes = <<>>

\* The memory of a process is gone when it ends.
Exit ==
    /\ pc' = "idle"
    /\ node' = 1
    /\ mEntries' = <<>> /\ mCache' = <<>> /\ mPack' = <<>>
    /\ mIdx' = <<>> /\ mCopy' = <<>> /\ mCommits' = <<>>

-----------------------------------------------------------------------------
(* peg insert *)

\* cache_object_init
InsertBegin ==
    /\ pc = "idle"
    /\ pc' = "staging"
    /\ mEntries' = cacheIdx
    /\ mCache' = cachePack
    /\ UNCHANGED <<disk, node, mPack, mIdx, mCopy, mCommits, crashes>>

(***************************************************************************)
(* process_node and cache_object_addindex for one file whose content       *)
(* differs from the HEAD commit, or that is reported deleted.  A deleted   *)
(* node may carry a content: `insert <dir>' reports every tracked file     *)
(* outside <dir> as deleted (status.c:195-212).  A path that is staged     *)
(* already is ignored (stage.c:402), whatever its content is now.          *)
(***************************************************************************)
StageFile(p, content, deleted) ==
    /\ pc = "staging"
    /\ \A i \in DOMAIN mEntries : mEntries[i].path # p
    /\ IF deleted THEN \E e \in HeadLive : e.path = p
       ELSE \A e \in HeadLive :
                e.path = p => FileContent(dbPack, e) # content
    /\ mEntries' = Append(mEntries, [path |-> p, start |-> Len(mCache),
                                     len |-> Len(content),
                                     deleted |-> deleted])
    /\ mCache' = mCache \o content
    /\ UNCHANGED <<disk, pc, node, mPack, mIdx, mCopy, mCommits, crashes>>

\* cache_object_write: write_cache_file, then write_index_file.
TruncCachePack ==
    /\ pc = "staging"
    /\ pc' = "cachePackTrunc"
    /\ cachePack' = <<>>
    /\ UNCHANGED <<cacheIdx, dbIdx, dbPack, commitIdx, mem, crashes>>

WriteCachePack ==
    /\ pc = "cachePackTrunc"
    /\ pc' = "cachePackDone"
    /\ cachePack' = mCache
    /\ UNCHANGED <<cacheIdx, dbIdx, dbPack, commitIdx, mem, crashes>>

TruncCacheIdx ==
    /\ pc = "cachePackDone"
    /\ pc' = "cacheIdxTrunc"
    /\ cacheIdx' = <<>>
    /\ UNCHANGED <<cachePack, dbIdx, dbPack, commitIdx, mem, crashes>>

WriteCacheIdx ==
    /\ pc = "cacheIdxTrunc"
    /\ cacheIdx' = mEntries
    /\ Exit
    /\ UNCHANGED <<cachePack, dbIdx, dbPack, commitIdx, crashes>>

Insert ==
    \/ InsertBegin
    \/ \E p \in Paths, c \in Contents, d \in BOOLEAN : StageFile(p, c, d)
    \/ \E p \in Paths : StageFile(p, <<>>, TRUE)
    \/ TruncCachePack \/ WriteCachePack
    \/ TruncCacheIdx \/ WriteCacheIdx

-----------------------------------------------------------------------------
(* peg commit: generate_new_commit *)

\* Mutant: the stage is emptied when it is read, not when it is committed.
CommitBeginTakingStage ==
    /\ pc = "idle"
    /\ cacheIdx # <<>>
    /\ Len(commitIdx) < MaxCommits
    /\ pc' = "copy"
    /\ node' = 1
    /\ mEntries' = cacheIdx
    /\ cacheIdx' = <<>>
    /\ mCache' = cachePack
    /\ mPack' = dbPack
    /\ mIdx' = dbIdx
    /\ mCopy' = <<>>
    /\ mCommits' = commitIdx
    /\ UNCHANGED <<cachePack, dbIdx, dbPack, commitIdx, crashes>>

\* The commit list, the stage, db.idx and db.pack are read; an empty stage dies.
CommitBegin ==
    /\ pc = "idle"
    /\ cacheIdx # <<>>
    /\ Len(commitIdx) < MaxCommits
    /\ pc' = "copy"
    /\ node' = 1
    /\ mEntries' = cacheIdx
    /\ mCache' = cachePack
    /\ mPack' = dbPack
    /\ mIdx' = dbIdx
    /\ mCopy' = <<>>
    /\ mCommits' = commitIdx
    /\ UNCHANGED <<disk, crashes>>

\* get_master_commit_list takes the last commit, whether or not it is HEAD.
MasterLength == IF mCommits = <<>> THEN 0 ELSE mCommits[Len(mCommits)].length

\* Mutant: `continue' on a deleted entry without stepping to the next one.
CopyEntryStuck ==
    /\ pc = "copy"
    /\ node <= MasterLength
    /\ \E e \in EntryAt(mIdx, mCommits[Len(mCommits)].index + node) :
        IF e.flags = "DELETED" THEN UNCHANGED <<mCopy, node>>
        ELSE mCopy' = Append(mCopy, e) /\ node' = node + 1
    /\ UNCHANGED <<disk, pc, mEntries, mCache, mPack, mIdx, mCommits, crashes>>

\* One turn of copy_index_list: deleted entries are not copied.
CopyEntry ==
    /\ pc = "copy"
    /\ node <= MasterLength
    /\ node' = node + 1
    /\ \E e \in EntryAt(mIdx, mCommits[Len(mCommits)].index + node) :
        mCopy' = IF e.flags = "DELETED" THEN mCopy ELSE Append(mCopy, e)
    /\ UNCHANGED <<disk, pc, mEntries, mCache, mPack, mIdx, mCommits, crashes>>

CopyDone ==
    /\ pc = "copy"
    /\ node > MasterLength
    /\ pc' = "transfer"
    /\ node' = 1
    /\ UNCHANGED <<disk, mEntries, mCache, mPack, mIdx, mCopy, mCommits,
                   crashes>>

\* One turn of the loop of transfer_staged_data.
Transferring ==
    /\ pc = "transfer"
    /\ node \in DOMAIN mEntries
    /\ node' = node + 1
    /\ UNCHANGED <<disk, pc, mEntries, mCache, mIdx, mCommits, crashes>>

AppendBytes(n) == mPack' = mPack \o Slice(mCache, n.start, n.len)

\* A path the master commit has not is appended, a deletion included.
TransferNew ==
    /\ Transferring
    /\ LET n == mEntries[node] IN
        /\ Missing(mCopy, n.path)
        /\ mCopy' = Append(mCopy, [path |-> n.path, start |-> Len(mPack),
                                   len |-> n.len, flags |-> "NEW"])
        /\ AppendBytes(n)

\* Mutant: the flag of the stage, not the one of the index.
TransferDeleteStageFlag ==
    /\ Transferring
    /\ mEntries[node].deleted
    /\ \E i \in DOMAIN mCopy :
        /\ IsFound(mCopy, mEntries[node].path, i)
        /\ mCopy' = SetEntry(mCopy, i, 0, 0, "S_DELETED")
    /\ UNCHANGED mPack

TransferDelete ==
    /\ Transferring
    /\ mEntries[node].deleted
    /\ \E i \in DOMAIN mCopy :
        /\ IsFound(mCopy, mEntries[node].path, i)
        /\ mCopy' = SetEntry(mCopy, i, 0, 0, "DELETED")
    /\ UNCHANGED mPack

\* Mutant: the offset is taken after the bytes are appended.
TransferModifyLate ==
    /\ Transferring
    /\ LET n == mEntries[node] IN
        /\ ~n.deleted
        /\ \E i \in DOMAIN mCopy :
            /\ IsFound(mCopy, n.path, i)
            /\ mCopy' = SetEntry(mCopy, i, Len(mPack) + n.len, n.len, "MODIFIED")
        /\ AppendBytes(n)

TransferModify ==
    /\ Transferring
    /\ LET n == mEntries[node] IN
        /\ ~n.deleted
        /\ \E i \in DOMAIN mCopy :
            /\ IsFound(mCopy, n.path, i)
            /\ mCopy' = SetEntry(mCopy, i, Len(mPack), n.len, "MODIFIED")
        /\ AppendBytes(n)

\* flush_pack_cache
TruncPack ==
    /\ pc = "transfer"
    /\ node > Len(mEntries)
    /\ pc' = "packTrunc"
    /\ dbPack' = <<>>
    /\ UNCHANGED <<cacheIdx, cachePack, dbIdx, commitIdx, mem, crashes>>

WritePack ==
    /\ pc = "packTrunc"
    /\ pc' = "packDone"
    /\ dbPack' = mPack
    /\ UNCHANGED <<cacheIdx, cachePack, dbIdx, commitIdx, mem, crashes>>

\* Mutant: the length counts what was staged, not what is indexed.
NewCommitsOfStage ==
    Append(DropHead(mCommits),
           [index |-> Len(mIdx), length |-> Len(mEntries), head |-> TRUE])

\* Mutant: the HEAD flag is not set on the new commit.
NewCommitsWithoutHead ==
    Append(DropHead(mCommits),
           [index |-> Len(mIdx), length |-> Len(mCopy), head |-> FALSE])

(***************************************************************************)
(* finalize_commit and flush_commit_list: the old HEAD loses its flag, the *)
(* new commit has it and names the entries behind the present end of       *)
(* db.idx, which are not in that file yet.                                 *)
(***************************************************************************)
NewCommits ==
    Append(DropHead(mCommits),
           [index |-> Len(mIdx), length |-> Len(mCopy), head |-> TRUE])

TruncCommits ==
    /\ pc = "packDone"
    /\ pc' = "commitsTrunc"
    /\ commitIdx' = <<>>
    /\ UNCHANGED <<cacheIdx, cachePack, dbIdx, dbPack, mem, crashes>>

WriteCommits ==
    /\ pc = "commitsTrunc"
    /\ pc' = "commitsDone"
    /\ commitIdx' = NewCommits
    /\ UNCHANGED <<cacheIdx, cachePack, dbIdx, dbPack, mem, crashes>>

\* flush_index
TruncIndex ==
    /\ pc = "commitsDone"
    /\ pc' = "indexTrunc"
    /\ dbIdx' = <<>>
    /\ UNCHANGED <<cacheIdx, cachePack, dbPack, commitIdx, mem, crashes>>

\* Mutant: only the new entries are written to db.idx.
WriteIndexNewOnly ==
    /\ pc = "indexTrunc"
    /\ pc' = "indexDone"
    /\ dbIdx' = mCopy
    /\ UNCHANGED <<cacheIdx, cachePack, dbPack, commitIdx, mem, crashes>>

WriteIndex ==
    /\ pc = "indexTrunc"
    /\ pc' = "indexDone"
    /\ dbIdx' = mIdx \o mCopy
    /\ UNCHANGED <<cacheIdx, cachePack, dbPack, commitIdx, mem, crashes>>

\* Mutant: cache.pack is cleaned and cache.idx is not.
CleanIdxWrongFile ==
    /\ pc = "indexDone"
    /\ pc' = "cleanPack"
    /\ cachePack' = <<>>
    /\ UNCHANGED <<cacheIdx, dbIdx, dbPack, commitIdx, mem, crashes>>

\* cache_object_clean: cache.idx, then cache.pack.
CleanIdx ==
    /\ pc = "indexDone"
    /\ pc' = "cleanPack"
    /\ cacheIdx' = <<>>
    /\ UNCHANGED <<cachePack, dbIdx, dbPack, commitIdx, mem, crashes>>

CleanPack ==
    /\ pc = "cleanPack"
    /\ cachePack' = <<>>
    /\ Exit
    /\ UNCHANGED <<cacheIdx, dbIdx, dbPack, commitIdx, crashes>>

Commit ==
    \/ CommitBegin \/ CopyEntry \/ CopyDone
    \/ TransferNew \/ TransferDelete \/ TransferModify
    \/ TruncPack \/ WritePack
    \/ TruncCommits \/ WriteCommits
    \/ TruncIndex \/ WriteIndex
    \/ CleanIdx \/ CleanPack

-----------------------------------------------------------------------------
(* peg reset, peg tag, peg head *)

\* main.c:271-276: the first half of cache_object_clean.
Reset ==
    /\ pc = "idle"
    /\ pc' = "cleanPack"
    /\ cacheIdx' = <<>>
    /\ UNCHANGED <<cachePack, dbIdx, dbPack, commitIdx, mem, crashes>>

\* Both commands change flags in the commit list and flush it.
RewriteCommits(cs) ==
    /\ pc' = "flagsTrunc"
    /\ mCommits' = cs
    /\ commitIdx' = <<>>
    /\ UNCHANGED <<cacheIdx, cachePack, dbIdx, dbPack, node, mEntries, mCache,
                   mPack, mIdx, mCopy, crashes>>

\* set_tag: cm->flags = TAG_FLAG, which takes HEAD away from the commit.
Tag(i) ==
    /\ pc = "idle"
    /\ RewriteCommits(SetHead(commitIdx, i, FALSE))

\* set_head_commit, set_head_commit_relative: `old' is dereferenced.
MoveHead(i) ==
    /\ pc = "idle"
    /\ HasHead(commitIdx)
    /\ RewriteCommits(SetHead(DropHead(commitIdx), i, TRUE))

\* reset_head_to_master tests `old'.
ResetHead ==
    /\ pc = "idle"
    /\ commitIdx # <<>>
    /\ RewriteCommits(SetHead(DropHead(commitIdx), Len(commitIdx), TRUE))

WriteFlags ==
    /\ pc = "flagsTrunc"
    /\ commitIdx' = mCommits
    /\ Exit
    /\ UNCHANGED <<cacheIdx, cachePack, dbIdx, dbPack, crashes>>

Flags ==
    \/ \E i \in DOMAIN commitIdx : Tag(i)
    \/ \E i \in DOMAIN commitIdx : MoveHead(i)
    \/ ResetHead
    \/ WriteFlags

-----------------------------------------------------------------------------
Crash ==
    /\ pc \in CrashPoints
    /\ Len(crashes) < MaxCrashes
    /\ crashes' = Append(crashes, pc)
    /\ Exit
    /\ UNCHANGED disk

Next == Insert \/ Commit \/ Reset \/ Flags \/ Crash

Spec == Init /\ [][Next]_vars

(***************************************************************************)
(* A process that has started a command keeps running: it has no input to  *)
(* wait for once its arguments are read.  What the user starts next is not *)
(* promised, and neither is that a process never dies.                     *)
(***************************************************************************)
Running ==
    \/ TruncCachePack \/ WriteCachePack \/ TruncCacheIdx \/ WriteCacheIdx
    \/ CopyEntry \/ CopyDone \/ TransferNew \/ TransferDelete \/ TransferModify
    \/ TruncPack \/ WritePack \/ TruncCommits \/ WriteCommits
    \/ TruncIndex \/ WriteIndex \/ CleanIdx \/ CleanPack \/ WriteFlags

FairSpec == Spec /\ WF_vars(Running)
-----------------------------------------------------------------------------
(***************************************************************************)
(* What the files stand for while a command is rewriting them: an emptied  *)
(* file stands for the copy in memory it is about to be given, and the     *)
(* commit being made counts from the moment commit.idx is emptied.         *)
(***************************************************************************)
Committing == pc \in {"commitsTrunc", "commitsDone", "indexTrunc"}

RealCachePack == IF pc = "cachePackTrunc" THEN mCache ELSE cachePack
RealCacheIdx == CASE pc = "cacheIdxTrunc" -> mEntries
                  [] Committing \/ pc = "indexDone" -> <<>>
                  [] OTHER -> cacheIdx
RealPack == IF pc = "packTrunc" THEN mPack ELSE dbPack
RealIdx == IF Committing THEN mIdx \o mCopy ELSE dbIdx
RealCommits == CASE Committing -> NewCommits
                 [] pc = "flagsTrunc" -> mCommits
                 [] OTHER -> commitIdx

\* No process has died where the history, or the stage, can be lost.
HistoryUnharmed == \A i \in DOMAIN crashes : crashes[i] \notin HistoryPoints
StageUnharmed == \A i \in DOMAIN crashes : crashes[i] \notin StagePoints

InPack(e, pack) == e.start + e.len <= Len(pack)
InIndex(c, idx) == c.index + c.length <= Len(idx)

-----------------------------------------------------------------------------
(* Properties *)

\* Every variable has its type, with junk wherever a range was not checked.
TypeOK ==
    /\ cacheIdx \in Seq(StageNode) /\ mEntries \in Seq(StageNode)
    /\ cachePack \in Seq(Byte) /\ mCache \in Seq(Byte)
    /\ dbIdx \in Seq(Entry) /\ mIdx \in Seq(Entry) /\ mCopy \in Seq(Entry)
    /\ dbPack \in Seq(Byte) /\ mPack \in Seq(Byte)
    /\ commitIdx \in Seq(CommitRec) /\ mCommits \in Seq(CommitRec)
    /\ pc \in Points
    /\ node \in Nat \ {0}
    /\ crashes \in Seq(Points)

(***************************************************************************)
(* Crash safety of the history.  Wherever a process dies outside           *)
(* HistoryPoints, the files it leaves can be read: every commit's entries  *)
(* are inside db.idx and every entry's bytes inside db.pack, which no      *)
(* reader checks (commit.c:285-313, checkout.c:116).                       *)
(***************************************************************************)
DiskReadable ==
    (HistoryUnharmed /\ pc \notin HistoryPoints) =>
        /\ \A i \in DOMAIN commitIdx : InIndex(commitIdx[i], dbIdx)
        /\ \A j \in DOMAIN dbIdx : InPack(dbIdx[j], dbPack)

(***************************************************************************)
(* Crash safety of the stage: what commit reads for a staged node is in    *)
(* cache.pack, which it does not check (commit.c:493, 540), unless an      *)
(* insert died with cache.pack emptied.  Staging in two inserts, a commit  *)
(* or reset that dies between the two files, and a new insert after that   *)
(* must all keep the two files in step.  A path is staged once.            *)
(***************************************************************************)
StageReadable ==
    (StageUnharmed /\ pc \notin StagePoints) =>
        /\ \A i \in DOMAIN cacheIdx : InPack(cacheIdx[i], cachePack)
        /\ \A i, j \in DOMAIN cacheIdx :
                cacheIdx[i].path = cacheIdx[j].path => i = j

(***************************************************************************)
(* Commits own disjoint stretches of db.idx, in order and without a gap,   *)
(* so that no later commit can change what an earlier one reads.           *)
(***************************************************************************)
CommitsTile ==
    (HistoryUnharmed /\ pc \notin HistoryPoints) =>
        \A i \in DOMAIN commitIdx :
            commitIdx[i].index + commitIdx[i].length =
                IF i = Len(commitIdx) THEN Len(dbIdx) ELSE commitIdx[i + 1].index

(***************************************************************************)
(* A commit holds a path at most once among its live entries: the first    *)
(* match of find_file_index_list (commit.c:342) is the only one, so        *)
(* status, checkout and the next commit see the same version.              *)
(***************************************************************************)
OneLiveEntryPerPath ==
    HistoryUnharmed =>
        \A i \in DOMAIN RealCommits :
            \A j, k \in 1 .. RealCommits[i].length :
                LET e == RealIdx[RealCommits[i].index + j]
                    f == RealIdx[RealCommits[i].index + k]
                IN (e.path = f.path /\ e.flags # "DELETED" /\ f.flags # "DELETED")
                        => j = k

\* Two commits never carry the HEAD flag at once, whatever crashes there are.
AtMostOneHead ==
    \A i, j \in DOMAIN commitIdx :
        commitIdx[i].head /\ commitIdx[j].head => i = j

(***************************************************************************)
(* History is immutable: as long as no process dies at a history point, no *)
(* step of any command drops a commit, moves its range, or changes an      *)
(* index entry or a byte that is in the repository.                        *)
(***************************************************************************)
Extends(new, old) ==
    /\ Len(new) >= Len(old)
    /\ \A i \in 1 .. Len(old) : new[i] = old[i]

KeepsHistory ==
    HistoryUnharmed' =>
        /\ Extends(RealPack', RealPack)
        /\ Extends(RealIdx', RealIdx)
        /\ Len(RealCommits') >= Len(RealCommits)
        /\ \A i \in DOMAIN RealCommits :
            /\ RealCommits'[i].index = RealCommits[i].index
            /\ RealCommits'[i].length = RealCommits[i].length

HistoryKept == [][KeepsHistory]_vars

(***************************************************************************)
(* No command but `peg tag' takes the HEAD flag away without giving it to  *)
(* another commit: commit, head and reset move it in one write of          *)
(* commit.idx, also when the target is the present HEAD.                   *)
(***************************************************************************)
HeadKept ==
    [][(HasHead(RealCommits) /\ HistoryUnharmed') =>
            \/ HasHead(RealCommits')
            \/ \E i \in DOMAIN commitIdx : Tag(i)]_vars

(***************************************************************************)
(* A command that has read its arguments comes to its end: the copy loop   *)
(* (commit.c:296) stops only when the offset meets the end of the range    *)
(* exactly, and the transfer loop must pass every staged node.             *)
(***************************************************************************)
CommandsFinish == (pc \notin {"idle", "staging"}) ~> (pc \in {"idle", "staging"})
=============================================================================

--------------------------- MODULE PegStoreProofs ---------------------------
(***************************************************************************)
(* What holds of PegStore for every set of paths and contents, any number  *)
(* of commits and crashes: of its history, of its HEAD, of its stage, and  *)
(* of the live entries of its commits; and that its files implement        *)
(* VersionStore, for crashes that harm neither the history nor the stage.  *)
(***************************************************************************)
EXTENDS PegStoreRefinement, SequenceTheorems, TLAPS

-----------------------------------------------------------------------------
(* Lemmas on the operators PegStore is built from *)

\* A slice of a pack is a sequence of bytes as long as it was asked for,
\* wherever the range lies.
LEMMA SliceType ==
    ASSUME NEW pack \in Seq(Byte), NEW start \in Nat, NEW len \in Nat
    PROVE  Slice(pack, start, len) \in Seq(Byte) /\ Len(Slice(pack, start, len)) = len
<1>1. Slice(pack, start, len) \in [1 .. len -> Byte]
    BY DEF Slice, Byte
<1>2. QED
    BY <1>1, SeqDef

\* What is read at any position of db.idx is an entry.
LEMMA EntryAtType ==
    ASSUME NEW idx \in Seq(Entry), NEW j \in Nat
    PROVE  EntryAt(idx, j) \subseteq Entry
<1>1. CASE j \in DOMAIN idx
  <2>1. idx[j] \in Entry
    BY <1>1
  <2>2. QED
    BY <1>1, <2>1 DEF EntryAt
<1>2. CASE j \notin DOMAIN idx
  <2>1. \A f \in {"NEW", "DELETED"} :
            [path |-> NoPath, start |-> 0, len |-> 0, flags |-> f] \in Entry
    BY DEF Entry
  <2>2. QED
    BY <1>2, <2>1 DEF EntryAt
<1>3. QED
    BY <1>1, <1>2

\* Replacing the range and the flag of an entry gives a list of entries, and
\* leaves the other entries and the path alone.
LEMMA EntryUpdate ==
    ASSUME NEW list \in Seq(Entry), NEW i \in DOMAIN list,
           NEW s \in Nat, NEW l \in Nat,
           NEW f \in {"NEW", "MODIFIED", "DELETED"}
    PROVE  LET new == SetEntry(list, i, s, l, f) IN
           /\ new \in Seq(Entry)
           /\ Len(new) = Len(list)
           /\ new[i].path = list[i].path /\ new[i].flags = f
           /\ new[i].start = s /\ new[i].len = l
           /\ \A j \in DOMAIN list : j # i => new[j] = list[j]
<1>0. i \in 1 .. Len(list)
    OBVIOUS
<1> DEFINE e == [list[i] EXCEPT !.start = s, !.len = l, !.flags = f]
<1>1. list[i] \in Entry
    OBVIOUS
<1>2. /\ e \in Entry /\ e.path = list[i].path
      /\ e.start = s /\ e.len = l /\ e.flags = f
    BY <1>1 DEF Entry
<1>3. SetEntry(list, i, s, l, f) = [list EXCEPT ![i] = e]
    BY DEF SetEntry
<1> HIDE DEF e
<1>4. QED
    BY <1>0, <1>2, <1>3, ExceptSeq

\* Setting the HEAD flag of a commit gives a list of commits.
LEMMA FlagUpdate ==
    ASSUME NEW cs \in Seq(CommitRec), NEW i \in DOMAIN cs, NEW h \in BOOLEAN
    PROVE  LET new == SetHead(cs, i, h) IN
           /\ new \in Seq(CommitRec)
           /\ Len(new) = Len(cs)
           /\ new[i].index = cs[i].index /\ new[i].length = cs[i].length
           /\ new[i].head = h
           /\ \A j \in DOMAIN cs : j # i => new[j] = cs[j]
<1>0. i \in 1 .. Len(cs)
    OBVIOUS
<1> DEFINE c == [cs[i] EXCEPT !.head = h]
<1>1. cs[i] \in CommitRec
    OBVIOUS
<1>2. /\ c \in CommitRec /\ c.index = cs[i].index /\ c.length = cs[i].length
      /\ c.head = h
    BY <1>1 DEF CommitRec
<1>3. SetHead(cs, i, h) = [cs EXCEPT ![i] = c]
    BY DEF SetHead
<1> HIDE DEF c
<1>4. QED
    BY <1>0, <1>2, <1>3, ExceptSeq

\* Clearing HEAD changes nothing but the flag, and sets none.
LEMMA DropHeadType ==
    ASSUME NEW cs \in Seq(CommitRec)
    PROVE  /\ DropHead(cs) \in Seq(CommitRec)
           /\ Len(DropHead(cs)) = Len(cs)
           /\ \A i \in DOMAIN cs :
                /\ DropHead(cs)[i].index = cs[i].index
                /\ DropHead(cs)[i].length = cs[i].length
                /\ DropHead(cs)[i].head => cs[i].head /\ ~IsHead(cs, i)
<1>1. DropHead(cs) \in [1 .. Len(cs) -> CommitRec]
  <2>1. \A i \in DOMAIN cs : cs[i] \in CommitRec
                              /\ [cs[i] EXCEPT !.head = FALSE] \in CommitRec
    <3>1. ASSUME NEW c \in CommitRec
          PROVE  [c EXCEPT !.head = FALSE] \in CommitRec
      BY DEF CommitRec
    <3>2. QED
      BY <3>1
  <2>2. QED
    BY <2>1 DEF DropHead
<1>2. DropHead(cs) \in Seq(CommitRec) /\ Len(DropHead(cs)) = Len(cs)
    BY <1>1, SeqDef
<1>3. ASSUME NEW i \in DOMAIN cs
      PROVE  /\ DropHead(cs)[i].index = cs[i].index
             /\ DropHead(cs)[i].length = cs[i].length
             /\ DropHead(cs)[i].head => cs[i].head /\ ~IsHead(cs, i)
  <2>1. cs[i] \in CommitRec
    BY <1>3
  <2>2. DropHead(cs)[i] = IF IsHead(cs, i) THEN [cs[i] EXCEPT !.head = FALSE]
                                           ELSE cs[i]
    BY <1>3 DEF DropHead
  <2>3. /\ [cs[i] EXCEPT !.head = FALSE].index = cs[i].index
        /\ [cs[i] EXCEPT !.head = FALSE].length = cs[i].length
        /\ ~[cs[i] EXCEPT !.head = FALSE].head
    BY <2>1 DEF CommitRec
  <2>4. QED
    BY <2>2, <2>3
<1>4. QED
    BY <1>2, <1>3

\* The position the copy loop reads, counted from the end of the list of commits.
LEMMA CopyPosition ==
    ASSUME NEW cs \in Seq(CommitRec), cs # <<>>, NEW n \in Nat
    PROVE  cs[Len(cs)].index + n \in Nat
<1>1. cs[Len(cs)] \in CommitRec
    OBVIOUS
<1>2. QED
    BY <1>1 DEF CommitRec

\* Bytes are appended to bytes.
LEMMA BytesAppended ==
    ASSUME NEW pack \in Seq(Byte), NEW bytes \in Seq(Byte)
    PROVE  pack \o bytes \in Seq(Byte)
OBVIOUS

-----------------------------------------------------------------------------
(* Type correctness *)

\* Init establishes the type invariant.
LEMMA TypeInit == Init => TypeOK
BY DEF Init, TypeOK, Points

\* Every step of every command, and a crash, preserves it.
LEMMA TypeNext == TypeOK /\ [Next]_vars => TypeOK'
<1> SUFFICES ASSUME TypeOK, [Next]_vars
             PROVE  TypeOK'
    OBVIOUS
<1> USE DEF TypeOK, disk, mem
<1> DEFINE Fresh == node' \in Nat \ {0} /\ mEntries' \in Seq(StageNode)
                    /\ mCache' \in Seq(Byte) /\ mPack' \in Seq(Byte)
                    /\ mIdx' \in Seq(Entry) /\ mCopy' \in Seq(Entry)
                    /\ mCommits' \in Seq(CommitRec) /\ pc' \in Points
<1>0. Exit => Fresh
    BY DEF Exit, Points
<1>1. CASE InsertBegin
    BY <1>1 DEF InsertBegin, Points
<1>2. ASSUME NEW p \in Paths, NEW c \in Seq(Bytes), NEW d \in BOOLEAN,
             StageFile(p, c, d)
      PROVE  TypeOK'
  <2>1. [path |-> p, start |-> Len(mCache), len |-> Len(c), deleted |-> d]
            \in StageNode
    BY DEF StageNode
  <2>2. mEntries' \in Seq(StageNode)
    BY <1>2, <2>1 DEF StageFile
  <2>3. c \in Seq(Byte)
    BY DEF Byte
  <2>4. mCache' \in Seq(Byte)
    BY <1>2, <2>3 DEF StageFile
  <2>5. QED
    BY <1>2, <2>2, <2>4 DEF StageFile
<1>3. CASE TruncCachePack \/ WriteCachePack \/ TruncCacheIdx
  <2>1. CASE TruncCachePack
    BY <2>1 DEF TruncCachePack, Points
  <2>2. CASE WriteCachePack
    BY <2>2 DEF WriteCachePack, Points
  <2>3. CASE TruncCacheIdx
    BY <2>3 DEF TruncCacheIdx, Points
  <2>4. QED
    BY <1>3, <2>1, <2>2, <2>3
<1>4. CASE WriteCacheIdx
    BY <1>4, <1>0 DEF WriteCacheIdx
<1>5. CASE CommitBegin
    BY <1>5 DEF CommitBegin, Points
<1>6. CASE CopyEntry
  <2> DEFINE at == mCommits[Len(mCommits)].index + node
  <2>1. mCommits # <<>>
    BY <1>6 DEF CopyEntry, MasterLength
  <2>2. at \in Nat
    BY <2>1, CopyPosition
  <2>3. PICK e \in EntryAt(mIdx, at) :
            mCopy' = IF e.flags = "DELETED" THEN mCopy ELSE Append(mCopy, e)
    BY <1>6 DEF CopyEntry
  <2>4. e \in Entry
    BY <2>2, <2>3, EntryAtType
  <2>5. QED
    BY <1>6, <2>3, <2>4 DEF CopyEntry
<1>7. CASE CopyDone
    BY <1>7 DEF CopyDone, Points
<1>8. ASSUME Transferring
      PROVE  /\ mEntries[node] \in StageNode
             /\ node' \in Nat \ {0}
             /\ Slice(mCache, mEntries[node].start, mEntries[node].len) \in Seq(Byte)
  <2>1. mEntries[node] \in StageNode /\ node' \in Nat \ {0}
    BY <1>8 DEF Transferring
  <2>2. QED
    BY <2>1, SliceType DEF StageNode
<1>9. CASE TransferNew
  <2>1. Transferring
    BY <1>9 DEF TransferNew
  <2> DEFINE new == [path |-> mEntries[node].path, start |-> Len(mPack),
                     len |-> mEntries[node].len, flags |-> "NEW"]
  <2>2. new \in Entry
    <3>1. mEntries[node].path \in Paths /\ mEntries[node].len \in Nat
      BY <1>8, <2>1 DEF StageNode
    <3>2. Len(mPack) \in Nat
      OBVIOUS
    <3>3. QED
      BY <3>1, <3>2 DEF Entry
  <2>3. mCopy' = Append(mCopy, new)
        /\ mPack' = mPack \o Slice(mCache, mEntries[node].start, mEntries[node].len)
    BY <1>9 DEF TransferNew, AppendBytes
  <2>4. mCopy' \in Seq(Entry) /\ mPack' \in Seq(Byte)
    BY <1>8, <2>1, <2>2, <2>3
  <2>5. QED
    BY <1>8, <2>1, <2>4 DEF Transferring
<1>10. CASE TransferDelete
  <2>1. Transferring
    BY <1>10 DEF TransferDelete
  <2>2. PICK i \in DOMAIN mCopy : mCopy' = SetEntry(mCopy, i, 0, 0, "DELETED")
    BY <1>10 DEF TransferDelete
  <2>4. mCopy' \in Seq(Entry)
    BY <2>2, EntryUpdate
  <2>5. QED
    BY <1>8, <1>10, <2>1, <2>4 DEF TransferDelete, Transferring
<1>11. CASE TransferModify
  <2>1. Transferring
    BY <1>11 DEF TransferModify
  <2>2. PICK i \in DOMAIN mCopy :
            mCopy' = SetEntry(mCopy, i, Len(mPack), mEntries[node].len, "MODIFIED")
    BY <1>11 DEF TransferModify
  <2>3. Len(mPack) \in Nat /\ mEntries[node].len \in Nat
    <3>1. mEntries[node].len \in Nat
      BY <1>8, <2>1 DEF StageNode
    <3>2. Len(mPack) \in Nat
      OBVIOUS
    <3>3. QED
      BY <3>1, <3>2
  <2>4. mCopy' \in Seq(Entry)
    BY <2>2, <2>3, EntryUpdate
  <2>5. mPack' \in Seq(Byte)
    <3>1. mPack' = mPack \o Slice(mCache, mEntries[node].start,
                                  mEntries[node].len)
      BY <1>11 DEF TransferModify, AppendBytes
    <3>2. QED
      BY <1>8, <2>1, <3>1, BytesAppended
  <2>6. QED
    BY <1>8, <2>1, <2>4, <2>5 DEF Transferring
<1>12. CASE TruncPack \/ WritePack \/ TruncCommits
  <2>1. CASE TruncPack
    BY <2>1 DEF TruncPack, Points
  <2>2. CASE WritePack
    BY <2>2 DEF WritePack, Points
  <2>3. CASE TruncCommits
    BY <2>3 DEF TruncCommits, Points
  <2>4. QED
    BY <1>12, <2>1, <2>2, <2>3
<1>13. CASE WriteCommits
  <2>1. [index |-> Len(mIdx), length |-> Len(mCopy), head |-> TRUE] \in CommitRec
    BY DEF CommitRec
  <2>2. NewCommits \in Seq(CommitRec)
    BY <2>1, DropHeadType DEF NewCommits
  <2>3. QED
    BY <1>13, <2>2 DEF WriteCommits, Points
<1>14. CASE TruncIndex \/ WriteIndex \/ CleanIdx \/ Reset
  <2>1. CASE TruncIndex
    BY <2>1 DEF TruncIndex, Points
  <2>2. CASE WriteIndex
    BY <2>2 DEF WriteIndex, Points
  <2>3. CASE CleanIdx
    BY <2>3 DEF CleanIdx, Points
  <2>4. CASE Reset
    BY <2>4 DEF Reset, Points
  <2>5. QED
    BY <1>14, <2>1, <2>2, <2>3, <2>4
<1>15. CASE CleanPack
    BY <1>15, <1>0 DEF CleanPack
<1>16. ASSUME NEW cs \in Seq(CommitRec), RewriteCommits(cs)
       PROVE  TypeOK'
    BY <1>16 DEF RewriteCommits, Points
<1>18. CASE \E i \in DOMAIN commitIdx : Tag(i)
    BY <1>16, FlagUpdate, <1>18 DEF Tag
<1>19. CASE \E i \in DOMAIN commitIdx : MoveHead(i)
  <2>1. PICK i \in DOMAIN commitIdx :
            RewriteCommits(SetHead(DropHead(commitIdx), i, TRUE))
    BY <1>19 DEF MoveHead
  <2>2. DropHead(commitIdx) \in Seq(CommitRec) /\ i \in DOMAIN DropHead(commitIdx)
    BY DropHeadType
  <2>3. SetHead(DropHead(commitIdx), i, TRUE) \in Seq(CommitRec)
    BY <2>2, FlagUpdate
  <2>4. QED
    BY <1>16, <2>1, <2>3
<1>20. CASE ResetHead
  <2>1. Len(commitIdx) \in DOMAIN DropHead(commitIdx)
    BY <1>20, DropHeadType DEF ResetHead
  <2>2. QED
    BY <1>16, FlagUpdate, <1>20, <2>1, DropHeadType DEF ResetHead
<1>21. CASE WriteFlags
    BY <1>21, <1>0 DEF WriteFlags
<1>22. CASE Crash
    BY <1>22, <1>0, StoreAssumption DEF Crash
<1>23. CASE UNCHANGED vars
    BY <1>23 DEF vars
<1>24. CASE Insert
  <2>1. CASE \E p \in Paths, c \in Contents, d \in BOOLEAN : StageFile(p, c, d)
    BY <1>2, <2>1, StoreAssumption
  <2>2. CASE \E p \in Paths : StageFile(p, <<>>, TRUE)
    <3>1. <<>> \in Seq(Bytes)
      OBVIOUS
    <3>2. QED
      BY <1>2, <2>2, <3>1
  <2>3. QED
    BY <1>1, <1>3, <1>4, <1>24, <2>1, <2>2 DEF Insert
<1>25. CASE Commit
    BY <1>5, <1>6, <1>7, <1>9, <1>10, <1>11, <1>12, <1>13, <1>14, <1>15, <1>25
    DEF Commit
<1>26. CASE Flags
    BY <1>18, <1>19, <1>20, <1>21, <1>26 DEF Flags
<1>27. QED
    BY <1>14, <1>22, <1>23, <1>24, <1>25, <1>26 DEF Next

\* Every variable keeps its type, whatever crashes there are.
THEOREM TypeCorrect == Spec => []TypeOK
BY TypeInit, TypeNext, PTL DEF Spec

-----------------------------------------------------------------------------
(***************************************************************************)
(* The history: why the files can be read after a crash outside            *)
(* HistoryPoints.  DiskReadable and CommitsTile speak of the disk between  *)
(* two dangerous stretches; to get across one, the invariant says of the   *)
(* Real files what they say of the disk, and how the memory of a commit    *)
(* under way relates to the disk.                                          *)
(***************************************************************************)
Making == {"copy", "transfer", "packTrunc", "packDone",
           "commitsTrunc", "commitsDone", "indexTrunc"}

RangesFit ==
    /\ \A i \in DOMAIN RealCommits : InIndex(RealCommits[i], RealIdx)
    /\ \A j \in DOMAIN RealIdx : InPack(RealIdx[j], RealPack)

Tiled(cs, idx) ==
    \A i \in DOMAIN cs :
        cs[i].index + cs[i].length = IF i = Len(cs) THEN Len(idx) ELSE cs[i + 1].index

\* The list being made only names bytes that are in the pack in memory.
CopyFits ==
    pc \in Making => \A j \in DOMAIN mCopy : InPack(mCopy[j], mPack)

\* Where the files are still those the process read, or already its own.
MemoryInStep ==
    /\ pc \in Making \ {"indexTrunc"} => mIdx = dbIdx
    /\ pc \in {"copy", "transfer", "packTrunc", "packDone"} => mCommits = commitIdx
    /\ pc \in {"copy", "transfer"} => Extends(mPack, dbPack)
    /\ pc \in {"packDone", "commitsTrunc", "commitsDone", "indexTrunc"}
            => mPack = dbPack
    /\ pc \in {"commitsDone", "indexTrunc"} => commitIdx = NewCommits

HistoryInv ==
    HistoryUnharmed => /\ RangesFit
                       /\ Tiled(RealCommits, RealIdx)
                       /\ CopyFits
                       /\ MemoryInStep

-----------------------------------------------------------------------------
(* Lemmas: what a step that leaves the history alone, or adds to it, keeps *)

RealDefs ==
    /\ RealPack = IF pc = "packTrunc" THEN mPack ELSE dbPack
    /\ RealIdx = IF pc \in {"commitsTrunc", "commitsDone", "indexTrunc"}
                 THEN mIdx \o mCopy ELSE dbIdx
    /\ RealCommits = IF pc \in {"commitsTrunc", "commitsDone", "indexTrunc"}
                     THEN NewCommits
                     ELSE IF pc = "flagsTrunc" THEN mCommits ELSE commitIdx

\* The definitions of the real files, spelled out.
LEMMA RealFiles == RealDefs
BY DEF RealDefs, RealPack, RealIdx, RealCommits, Committing

\* The same of the next state.
LEMMA RealFilesNext == RealDefs'
BY DEF RealDefs, RealPack, RealIdx, RealCommits, Committing

\* The commit list with the new commit: the old ranges, and the new one.
LEMMA NewCommitsType ==
    ASSUME TypeOK
    PROVE  /\ NewCommits \in Seq(CommitRec)
           /\ Len(NewCommits) = Len(mCommits) + 1
           /\ \A i \in DOMAIN mCommits :
                /\ NewCommits[i].index = mCommits[i].index
                /\ NewCommits[i].length = mCommits[i].length
           /\ NewCommits[Len(mCommits) + 1] =
                [index |-> Len(mIdx), length |-> Len(mCopy), head |-> TRUE]
<1> DEFINE c == [index |-> Len(mIdx), length |-> Len(mCopy), head |-> TRUE]
<1>1. c \in CommitRec
    BY DEF TypeOK, CommitRec
<1>2. mCommits \in Seq(CommitRec)
    BY DEF TypeOK
<1>3. NewCommits = Append(DropHead(mCommits), c)
    BY DEF NewCommits
<1> HIDE DEF c
<1>4. /\ NewCommits \in Seq(CommitRec)
      /\ Len(NewCommits) = Len(mCommits) + 1
      /\ \A i \in DOMAIN mCommits : NewCommits[i] = DropHead(mCommits)[i]
      /\ NewCommits[Len(mCommits) + 1] = c
    BY <1>1, <1>2, <1>3, DropHeadType
<1>5. QED
    BY <1>2, <1>4, DropHeadType DEF c

\* The real files have the types of the files.
LEMMA RealTypes ==
    ASSUME TypeOK
    PROVE  /\ RealPack \in Seq(Byte)
           /\ RealIdx \in Seq(Entry)
           /\ RealCommits \in Seq(CommitRec)
<1>1. mIdx \o mCopy \in Seq(Entry)
    BY DEF TypeOK
<1>2. QED
    BY <1>1, RealFiles, NewCommitsType DEF RealDefs, TypeOK

\* A sequence extends itself, and a concatenation its first part.
LEMMA ExtendsSelf == ASSUME NEW S, NEW s \in Seq(S) PROVE Extends(s, s)
BY DEF Extends

\* A sequence is extended by what is concatenated to it.
LEMMA ExtendsConcat ==
    ASSUME NEW S, NEW s \in Seq(S), NEW t \in Seq(S) PROVE Extends(s \o t, s)
BY DEF Extends

\* A step that leaves the real files alone keeps what is true of them.
SameHistory ==
    RealPack' = RealPack /\ RealIdx' = RealIdx /\ RealCommits' = RealCommits

\* A step that leaves what the files stand for keeps the history.
LEMMA SameHistoryKeeps ==
    ASSUME TypeOK, SameHistory, RangesFit, Tiled(RealCommits, RealIdx)
    PROVE  RangesFit' /\ Tiled(RealCommits, RealIdx)' /\ KeepsHistory
<1>1. RangesFit' /\ Tiled(RealCommits, RealIdx)'
    BY DEF SameHistory, RangesFit, Tiled
<1>2. Extends(RealPack, RealPack) /\ Extends(RealIdx, RealIdx)
    BY RealTypes, ExtendsSelf
<1>3. Len(RealCommits) \in Nat
    BY RealTypes
<1>4. QED
    BY <1>1, <1>2, <1>3 DEF SameHistory, KeepsHistory

\* Growing a pack leaves the ranges that fit.
LEMMA FitsGrow ==
    ASSUME NEW list \in Seq(Entry), NEW old \in Seq(Byte), NEW new \in Seq(Byte),
           Len(old) <= Len(new), \A j \in DOMAIN list : InPack(list[j], old)
    PROVE  \A j \in DOMAIN list : InPack(list[j], new)
<1>1. ASSUME NEW j \in DOMAIN list
      PROVE  InPack(list[j], new)
  <2>1. list[j].start \in Nat /\ list[j].len \in Nat
    <3>1. list[j] \in Entry
      OBVIOUS
    <3>2. QED
      BY <3>1 DEF Entry
  <2>2. QED
    BY <2>1 DEF InPack
<1>2. QED
    BY <1>1

-----------------------------------------------------------------------------
(* The invariant of the history is inductive *)

\* The empty repository satisfies the invariant.
LEMMA HistoryInit == Init => HistoryInv
BY RealFiles DEF Init, HistoryInv, RangesFit, Tiled, CopyFits, MemoryInStep,
                 Making, RealDefs

\* What a step preserves, and what it may do to the history.
HistoryStep ==
    HistoryUnharmed' => /\ RangesFit' /\ Tiled(RealCommits, RealIdx)'
                        /\ CopyFits' /\ MemoryInStep'
                        /\ KeepsHistory

\* A slice of the stage appended to the pack makes it longer.
LEMMA TransferredPack ==
    ASSUME TypeOK, Transferring
    PROVE  LET n == mEntries[node]
               new == mPack \o Slice(mCache, n.start, n.len)
           IN /\ n \in StageNode
              /\ new \in Seq(Byte)
              /\ Len(new) = Len(mPack) + n.len
              /\ \A old \in Seq(Byte) : Extends(mPack, old) => Extends(new, old)
<1> DEFINE n == mEntries[node]
           sl == Slice(mCache, n.start, n.len)
<1>1. n \in StageNode
    BY DEF TypeOK, Transferring
<1>2. n.start \in Nat /\ n.len \in Nat
    BY <1>1 DEF StageNode
<1>3. sl \in Seq(Byte) /\ Len(sl) = n.len
    BY <1>2, SliceType DEF TypeOK
<1>4. mPack \in Seq(Byte)
    BY DEF TypeOK
<1> HIDE DEF sl
<1>5. mPack \o sl \in Seq(Byte) /\ Len(mPack \o sl) = Len(mPack) + n.len
    BY <1>2, <1>3, <1>4
<1>6. ASSUME NEW old \in Seq(Byte), Extends(mPack, old)
      PROVE  Extends(mPack \o sl, old)
    BY <1>2, <1>3, <1>4, <1>6 DEF Extends
<1>7. QED
    BY <1>1, <1>5, <1>6 DEF sl

\* Copying an entry of the master commit.
LEMMA CopyEntryStep ==
    ASSUME TypeOK, HistoryInv, CopyEntry PROVE HistoryStep
<1> SUFFICES ASSUME HistoryUnharmed'
             PROVE  /\ RangesFit' /\ Tiled(RealCommits, RealIdx)'
                    /\ CopyFits' /\ MemoryInStep' /\ KeepsHistory
    BY DEF HistoryStep
<1>1. HistoryUnharmed
    BY DEF CopyEntry, HistoryUnharmed
<1>2. pc = "copy" /\ pc' = pc /\ UNCHANGED disk
    BY DEF CopyEntry
<1>3. /\ RangesFit /\ Tiled(RealCommits, RealIdx) /\ CopyFits
      /\ mIdx = dbIdx /\ mCommits = commitIdx /\ Extends(mPack, dbPack)
    BY <1>1, <1>2 DEF HistoryInv, MemoryInStep, Making
<1>4. SameHistory
    BY <1>2, RealFiles, RealFilesNext DEF SameHistory, RealDefs, disk
<1>5. /\ mCommits' = mCommits /\ mIdx' = mIdx /\ mPack' = mPack
      /\ node <= MasterLength
    BY DEF CopyEntry
<1> DEFINE m == mCommits[Len(mCommits)]
<1>6. PICK e \in EntryAt(mIdx, m.index + node) :
            mCopy' = IF e.flags = "DELETED" THEN mCopy ELSE Append(mCopy, e)
    BY DEF CopyEntry
<1>7. mCommits # <<>> /\ m \in CommitRec /\ node <= m.length /\ node \in Nat \ {0}
    BY <1>5 DEF TypeOK, MasterLength
<1>8. m.index + node \in DOMAIN mIdx
  <2>1. m.index \in Nat /\ m.length \in Nat
    BY <1>7 DEF CommitRec
  <2>2. InIndex(m, dbIdx)
    BY <1>2, <1>3, <1>7, RealFiles DEF RangesFit, RealDefs, TypeOK
  <2>3. mIdx \in Seq(Entry)
    BY DEF TypeOK
  <2>4. QED
    BY <1>3, <1>7, <2>1, <2>2, <2>3 DEF InIndex
<1>9. e \in Entry /\ InPack(e, dbPack)
  <2>1. e = dbIdx[m.index + node] /\ m.index + node \in DOMAIN dbIdx
    BY <1>3, <1>6, <1>8 DEF EntryAt
  <2>2. QED
    BY <1>2, <1>3, <2>1, RealFiles DEF RangesFit, RealDefs, TypeOK
<1>10. InPack(e, mPack)
  <2>1. e.start \in Nat /\ e.len \in Nat
    BY <1>9 DEF Entry
  <2>2. QED
    BY <1>3, <1>9, <2>1 DEF InPack, Extends, TypeOK
<1>11. CopyFits'
  <2>1. \A j \in DOMAIN mCopy : InPack(mCopy[j], mPack)
    BY <1>2, <1>3 DEF CopyFits, Making
  <2>2. mCopy \in Seq(Entry)
    BY DEF TypeOK
  <2>3. \A j \in DOMAIN mCopy' : InPack(mCopy'[j], mPack)
    BY <1>6, <1>9, <1>10, <2>1, <2>2
  <2>4. QED
    BY <1>5, <2>3 DEF CopyFits
<1>12. MemoryInStep'
    BY <1>2, <1>3, <1>5 DEF MemoryInStep, disk
<1>13. QED
    BY <1>3, <1>4, <1>11, <1>12, SameHistoryKeeps

\* Transferring a staged node.
LEMMA TransferStep ==
    ASSUME TypeOK, HistoryInv, TransferNew \/ TransferDelete \/ TransferModify
    PROVE  HistoryStep
<1> SUFFICES ASSUME HistoryUnharmed'
             PROVE  /\ RangesFit' /\ Tiled(RealCommits, RealIdx)'
                    /\ CopyFits' /\ MemoryInStep' /\ KeepsHistory
    BY DEF HistoryStep
<1>0. Transferring
    BY DEF TransferNew, TransferDelete, TransferModify
<1>1. HistoryUnharmed
    BY <1>0 DEF Transferring, HistoryUnharmed
<1>2. /\ pc = "transfer" /\ pc' = pc /\ UNCHANGED disk
      /\ mCommits' = mCommits /\ mIdx' = mIdx
    BY <1>0 DEF Transferring
<1>3. /\ RangesFit /\ Tiled(RealCommits, RealIdx) /\ CopyFits
      /\ mIdx = dbIdx /\ mCommits = commitIdx /\ Extends(mPack, dbPack)
    BY <1>1, <1>2 DEF HistoryInv, MemoryInStep, Making
<1>4. SameHistory
    BY <1>2, RealFiles, RealFilesNext DEF SameHistory, RealDefs, disk
<1> DEFINE n == mEntries[node]
           grown == mPack \o Slice(mCache, n.start, n.len)
<1>5. /\ n \in StageNode /\ grown \in Seq(Byte)
      /\ Len(grown) = Len(mPack) + n.len
      /\ \A old \in Seq(Byte) : Extends(mPack, old) => Extends(grown, old)
    BY <1>0, TransferredPack
<1>6. /\ mCopy \in Seq(Entry) /\ mPack \in Seq(Byte) /\ dbPack \in Seq(Byte)
      /\ n.len \in Nat /\ n.path \in Paths
    BY <1>5 DEF TypeOK, StageNode
<1>7. \A j \in DOMAIN mCopy : InPack(mCopy[j], mPack)
    BY <1>2, <1>3 DEF CopyFits, Making
<1> HIDE DEF grown
<1>8. \A j \in DOMAIN mCopy : InPack(mCopy[j], grown)
  <2>1. Len(mPack) <= Len(grown)
    BY <1>5, <1>6
  <2>2. QED
    BY <1>5, <1>6, <1>7, <2>1, FitsGrow, Zenon
<1>9. /\ Extends(mPack', dbPack)
      /\ \A j \in DOMAIN mCopy' : InPack(mCopy'[j], mPack')
  <2>1. CASE TransferNew
    <3> DEFINE new == [path |-> n.path, start |-> Len(mPack), len |-> n.len,
                       flags |-> "NEW"]
    <3>1. mPack' = grown /\ mCopy' = Append(mCopy, new)
      BY <2>1 DEF TransferNew, AppendBytes, grown
    <3>2. new \in Entry
      BY <1>6 DEF Entry
    <3>3. InPack(new, grown)
      BY <1>5, <1>6 DEF InPack
    <3> HIDE DEF new
    <3>4. \A j \in DOMAIN mCopy' : InPack(mCopy'[j], grown)
      BY <1>6, <1>8, <3>1, <3>2, <3>3
    <3>5. QED
      BY <1>3, <1>5, <1>6, <3>1, <3>4
  <2>2. CASE TransferDelete
    <3>1. PICK i \in DOMAIN mCopy :
                mPack' = mPack /\ mCopy' = SetEntry(mCopy, i, 0, 0, "DELETED")
      BY <2>2 DEF TransferDelete
    <3>2. /\ mCopy' \in Seq(Entry) /\ Len(mCopy') = Len(mCopy)
          /\ mCopy'[i].start = 0 /\ mCopy'[i].len = 0
          /\ \A j \in DOMAIN mCopy : j # i => mCopy'[j] = mCopy[j]
      BY <1>6, <3>1, EntryUpdate
    <3>3. InPack(mCopy'[i], mPack)
      BY <1>6, <3>2 DEF InPack
    <3>4. ASSUME NEW j \in DOMAIN mCopy' PROVE InPack(mCopy'[j], mPack)
      <4>1. j \in DOMAIN mCopy
        BY <1>6, <3>2
      <4>2. CASE j = i
        BY <3>3, <4>2
      <4>3. CASE j # i
        BY <1>7, <3>2, <4>1, <4>3
      <4>4. QED
        BY <4>2, <4>3
    <3>5. QED
      BY <1>3, <3>1, <3>4
  <2>3. CASE TransferModify
    <3>1. PICK i \in DOMAIN mCopy :
                /\ mPack' = grown
                /\ mCopy' = SetEntry(mCopy, i, Len(mPack), n.len, "MODIFIED")
      BY <2>3 DEF TransferModify, AppendBytes, grown
    <3>2. /\ mCopy' \in Seq(Entry) /\ Len(mCopy') = Len(mCopy)
          /\ mCopy'[i].start = Len(mPack) /\ mCopy'[i].len = n.len
          /\ \A j \in DOMAIN mCopy : j # i => mCopy'[j] = mCopy[j]
      BY <1>6, <3>1, EntryUpdate
    <3>3. InPack(mCopy'[i], grown)
      BY <1>5, <1>6, <3>2 DEF InPack
    <3>4. ASSUME NEW j \in DOMAIN mCopy' PROVE InPack(mCopy'[j], grown)
      <4>1. j \in DOMAIN mCopy
        BY <1>6, <3>2
      <4>2. CASE j = i
        BY <3>3, <4>2
      <4>3. CASE j # i
        BY <1>8, <3>2, <4>1, <4>3
      <4>4. QED
        BY <4>2, <4>3
    <3>5. QED
      BY <1>3, <1>5, <1>6, <3>1, <3>4
  <2>4. QED
    BY <2>1, <2>2, <2>3
<1>10. CopyFits'
    BY <1>9 DEF CopyFits
<1>11. MemoryInStep'
    BY <1>2, <1>3, <1>9 DEF MemoryInStep, disk
<1>12. QED
    BY <1>3, <1>4, <1>10, <1>11, SameHistoryKeeps

\* The first step of rewriting db.pack: the pack in memory extends the old one.
LEMMA TruncPackStep ==
    ASSUME TypeOK, HistoryInv, TruncPack PROVE HistoryStep
<1> SUFFICES ASSUME HistoryUnharmed'
             PROVE  /\ RangesFit' /\ Tiled(RealCommits, RealIdx)'
                    /\ CopyFits' /\ MemoryInStep' /\ KeepsHistory
    BY DEF HistoryStep
<1>1. HistoryUnharmed
    BY DEF TruncPack, HistoryUnharmed
<1>2. /\ pc = "transfer" /\ pc' = "packTrunc" /\ UNCHANGED mem
      /\ dbIdx' = dbIdx /\ commitIdx' = commitIdx
    BY DEF TruncPack
<1>3. /\ RangesFit /\ Tiled(RealCommits, RealIdx) /\ CopyFits
      /\ mIdx = dbIdx /\ mCommits = commitIdx /\ Extends(mPack, dbPack)
    BY <1>1, <1>2 DEF HistoryInv, MemoryInStep, Making
<1>4. /\ RealPack = dbPack /\ RealPack' = mPack
      /\ RealIdx = dbIdx /\ RealIdx' = RealIdx
      /\ RealCommits = commitIdx /\ RealCommits' = RealCommits
    BY <1>2, RealFiles, RealFilesNext DEF RealDefs, mem
<1>5. RangesFit'
  <2>1. Len(dbPack) <= Len(mPack)
    BY <1>3 DEF Extends
  <2>2. /\ dbIdx \in Seq(Entry) /\ dbPack \in Seq(Byte) /\ mPack \in Seq(Byte)
        /\ \A j \in DOMAIN dbIdx : InPack(dbIdx[j], dbPack)
    BY <1>3, <1>4 DEF RangesFit, TypeOK
  <2>3. \A j \in DOMAIN dbIdx : InPack(dbIdx[j], mPack)
    BY <2>1, <2>2, FitsGrow, Zenon
  <2>4. QED
    BY <1>3, <1>4, <2>3 DEF RangesFit
<1>6. Tiled(RealCommits, RealIdx)'
    BY <1>3, <1>4 DEF Tiled
<1>7. CopyFits' /\ MemoryInStep'
    BY <1>2, <1>3 DEF CopyFits, MemoryInStep, Making, mem
<1>8. KeepsHistory
  <2>1. Extends(RealIdx, RealIdx) /\ Len(RealCommits) \in Nat
    BY RealTypes, ExtendsSelf
  <2>2. QED
    BY <1>3, <1>4, <2>1 DEF KeepsHistory
<1>9. QED
    BY <1>5, <1>6, <1>7, <1>8

\* Emptying commit.idx, from where on the new commit counts.
LEMMA TruncCommitsStep ==
    ASSUME TypeOK, HistoryInv, TruncCommits PROVE HistoryStep
<1> SUFFICES ASSUME HistoryUnharmed'
             PROVE  /\ RangesFit' /\ Tiled(RealCommits, RealIdx)'
                    /\ CopyFits' /\ MemoryInStep' /\ KeepsHistory
    BY DEF HistoryStep
<1>1. HistoryUnharmed
    BY DEF TruncCommits, HistoryUnharmed
<1>2. /\ pc = "packDone" /\ pc' = "commitsTrunc" /\ UNCHANGED mem
      /\ dbIdx' = dbIdx /\ dbPack' = dbPack
    BY DEF TruncCommits
<1>3. /\ RangesFit /\ Tiled(RealCommits, RealIdx) /\ CopyFits
      /\ mIdx = dbIdx /\ mCommits = commitIdx /\ mPack = dbPack
    BY <1>1, <1>2 DEF HistoryInv, MemoryInStep, Making
<1> DEFINE idx == dbIdx \o mCopy
           n == Len(commitIdx)
<1>4. /\ RealPack = dbPack /\ RealPack' = dbPack
      /\ RealIdx = dbIdx /\ RealIdx' = idx
      /\ RealCommits = commitIdx /\ RealCommits' = NewCommits
  <2>1. NewCommits' = NewCommits
    BY <1>2 DEF NewCommits, mem
  <2>2. QED
    BY <1>2, <1>3, <2>1, RealFiles, RealFilesNext DEF RealDefs, mem
<1>5. /\ dbIdx \in Seq(Entry) /\ mCopy \in Seq(Entry) /\ dbPack \in Seq(Byte)
      /\ commitIdx \in Seq(CommitRec)
    BY DEF TypeOK
<1>6. /\ idx \in Seq(Entry) /\ Len(idx) = Len(dbIdx) + Len(mCopy)
      /\ \A j \in 1 .. Len(dbIdx) : idx[j] = dbIdx[j]
      /\ \A j \in DOMAIN idx : j > Len(dbIdx) =>
            j - Len(dbIdx) \in DOMAIN mCopy /\ idx[j] = mCopy[j - Len(dbIdx)]
    BY <1>5
<1>7. /\ NewCommits \in Seq(CommitRec) /\ Len(NewCommits) = n + 1
      /\ \A i \in DOMAIN commitIdx :
            /\ NewCommits[i].index = commitIdx[i].index
            /\ NewCommits[i].length = commitIdx[i].length
      /\ NewCommits[n + 1].index = Len(dbIdx)
      /\ NewCommits[n + 1].length = Len(mCopy)
    BY <1>3, NewCommitsType
<1>8. \A i \in DOMAIN commitIdx : commitIdx[i].index \in Nat /\ commitIdx[i].length \in Nat
  <2>1. \A i \in DOMAIN commitIdx : commitIdx[i] \in CommitRec
    BY <1>5
  <2>2. QED
    BY <2>1 DEF CommitRec
<1> HIDE DEF idx
<1>9. RangesFit'
  <2>1. ASSUME NEW i \in DOMAIN NewCommits PROVE InIndex(NewCommits[i], idx)
    <3>1. CASE i \in DOMAIN commitIdx
      <4>1. InIndex(commitIdx[i], dbIdx)
        BY <1>3, <1>4, <3>1 DEF RangesFit
      <4>2. QED
        BY <1>5, <1>6, <1>7, <1>8, <3>1, <4>1 DEF InIndex
    <3>2. CASE i = n + 1
      BY <1>5, <1>6, <1>7, <3>2 DEF InIndex
    <3>3. i \in DOMAIN commitIdx \/ i = n + 1
      BY <1>5, <1>7
    <3>4. QED
      BY <3>1, <3>2, <3>3
  <2>2. ASSUME NEW j \in DOMAIN idx PROVE InPack(idx[j], dbPack)
    <3>1. CASE j <= Len(dbIdx)
      <4>1. j \in DOMAIN dbIdx /\ idx[j] = dbIdx[j]
        BY <1>5, <1>6, <3>1
      <4>2. \A k \in DOMAIN dbIdx : InPack(dbIdx[k], dbPack)
        BY <1>3, <1>4 DEF RangesFit
      <4>3. QED
        BY <4>1, <4>2
    <3>2. CASE j > Len(dbIdx)
      <4>1. \A k \in DOMAIN mCopy : InPack(mCopy[k], dbPack)
        BY <1>2, <1>3 DEF CopyFits, Making
      <4>2. QED
        BY <1>6, <3>2, <4>1
    <3>3. QED
      BY <1>5, <1>6, <3>1, <3>2
  <2>3. QED
    BY <1>4, <2>1, <2>2 DEF RangesFit
<1>10. Tiled(RealCommits, RealIdx)'
  <2>1. Tiled(commitIdx, dbIdx)
    BY <1>3, <1>4
  <2>2. Tiled(NewCommits, idx)
    <3> SUFFICES ASSUME NEW i \in DOMAIN NewCommits
                 PROVE  NewCommits[i].index + NewCommits[i].length =
                            IF i = n + 1 THEN Len(idx) ELSE NewCommits[i + 1].index
      BY <1>7 DEF Tiled
    <3>1. CASE i = n + 1
      BY <1>5, <1>6, <1>7, <3>1
    <3>2. CASE i \in 1 .. n
      <4>1. i \in DOMAIN commitIdx
        BY <1>5, <3>2
      <4>2. commitIdx[i].index + commitIdx[i].length =
                IF i = n THEN Len(dbIdx) ELSE commitIdx[i + 1].index
        BY <2>1, <4>1 DEF Tiled
      <4>3. CASE i = n
        BY <1>5, <1>7, <4>1, <4>2, <4>3
      <4>4. CASE i # n
        <5>1. i + 1 \in DOMAIN commitIdx
          BY <1>5, <3>2, <4>4
        <5>2. QED
          BY <1>5, <1>7, <3>2, <4>1, <4>2, <4>4, <5>1
      <4>5. QED
        BY <4>3, <4>4
    <3>3. QED
      BY <1>5, <1>7, <3>1, <3>2
  <2>3. QED
    BY <1>4, <2>2
<1>11. CopyFits' /\ MemoryInStep'
    BY <1>2, <1>3 DEF CopyFits, MemoryInStep, Making, mem
<1>12. KeepsHistory
  <2>1. Extends(dbPack, dbPack) /\ Extends(idx, dbIdx)
    BY <1>5, ExtendsSelf, ExtendsConcat DEF idx
  <2>2. Len(NewCommits) >= Len(commitIdx)
    BY <1>5, <1>7
  <2>3. QED
    BY <1>4, <1>7, <2>1, <2>2 DEF KeepsHistory
<1>13. QED
    BY <1>9, <1>10, <1>11, <1>12

\* Writing commit.idx back with other flags: tag and head.
LEMMA RewriteCommitsStep ==
    ASSUME TypeOK, HistoryInv, pc = "idle",
           NEW cs \in Seq(CommitRec), RewriteCommits(cs),
           Len(cs) = Len(commitIdx),
           \A i \in DOMAIN commitIdx : cs[i].index = commitIdx[i].index
                                       /\ cs[i].length = commitIdx[i].length
    PROVE  HistoryStep
<1> SUFFICES ASSUME HistoryUnharmed'
             PROVE  /\ RangesFit' /\ Tiled(RealCommits, RealIdx)'
                    /\ CopyFits' /\ MemoryInStep' /\ KeepsHistory
    BY DEF HistoryStep
<1>1. HistoryUnharmed
    BY DEF RewriteCommits, HistoryUnharmed
<1>2. /\ pc' = "flagsTrunc" /\ mCommits' = cs
      /\ dbIdx' = dbIdx /\ dbPack' = dbPack
    BY DEF RewriteCommits
<1>3. RangesFit /\ Tiled(RealCommits, RealIdx)
    BY <1>1 DEF HistoryInv
<1>4. /\ RealPack = dbPack /\ RealPack' = dbPack
      /\ RealIdx = dbIdx /\ RealIdx' = dbIdx
      /\ RealCommits = commitIdx /\ RealCommits' = cs
    BY <1>2, RealFiles, RealFilesNext DEF RealDefs
<1>5. commitIdx \in Seq(CommitRec) /\ dbIdx \in Seq(Entry) /\ dbPack \in Seq(Byte)
    BY DEF TypeOK
<1>6. DOMAIN cs = DOMAIN commitIdx
    BY <1>5
<1>7. RangesFit'
    BY <1>3, <1>4, <1>6 DEF RangesFit, InIndex
<1>8. Tiled(cs, dbIdx)
  <2>1. Tiled(commitIdx, dbIdx)
    BY <1>3, <1>4
  <2>2. SUFFICES ASSUME NEW i \in DOMAIN commitIdx
                 PROVE  cs[i].index + cs[i].length =
                            IF i = Len(commitIdx) THEN Len(dbIdx) ELSE cs[i + 1].index
    BY <1>6 DEF Tiled
  <2>3. commitIdx[i].index + commitIdx[i].length =
            IF i = Len(commitIdx) THEN Len(dbIdx) ELSE commitIdx[i + 1].index
    BY <2>1 DEF Tiled
  <2>4. i # Len(commitIdx) => i + 1 \in DOMAIN commitIdx
    BY <1>5
  <2>5. QED
    BY <2>3, <2>4
<1>9. CopyFits' /\ MemoryInStep'
    BY <1>2 DEF CopyFits, MemoryInStep, Making
<1>10. KeepsHistory
  <2>1. Extends(dbPack, dbPack) /\ Extends(dbIdx, dbIdx)
    BY <1>5, ExtendsSelf
  <2>2. Len(cs) >= Len(commitIdx)
    BY <1>5
  <2>3. QED
    BY <1>4, <2>1, <2>2 DEF KeepsHistory
<1>11. QED
    BY <1>4, <1>7, <1>8, <1>9, <1>10

\* The commands that rewrite flags.
LEMMA FlagsStep ==
    ASSUME TypeOK, HistoryInv, 
           \/ \E i \in DOMAIN commitIdx : Tag(i)
           \/ \E i \in DOMAIN commitIdx : MoveHead(i)
           \/ ResetHead
    PROVE  HistoryStep
<1>0. commitIdx \in Seq(CommitRec)
    BY DEF TypeOK
<1>1. ASSUME NEW i \in DOMAIN commitIdx, Tag(i) PROVE HistoryStep
  <2> DEFINE cs == SetHead(commitIdx, i, FALSE)
  <2>1. pc = "idle" /\ RewriteCommits(cs)
    BY <1>1 DEF Tag
  <2>2. /\ cs \in Seq(CommitRec) /\ Len(cs) = Len(commitIdx)
        /\ cs[i].index = commitIdx[i].index /\ cs[i].length = commitIdx[i].length
        /\ \A j \in DOMAIN commitIdx : j # i => cs[j] = commitIdx[j]
    BY <1>0, <1>1, FlagUpdate
  <2> HIDE DEF cs
  <2>3. \A j \in DOMAIN commitIdx : cs[j].index = commitIdx[j].index
                                    /\ cs[j].length = commitIdx[j].length
    BY <2>2
  <2>4. QED
    BY <2>1, <2>2, <2>3, RewriteCommitsStep
<1>2. ASSUME NEW i \in DOMAIN commitIdx, pc = "idle",
             RewriteCommits(SetHead(DropHead(commitIdx), i, TRUE))
      PROVE  HistoryStep
  <2> DEFINE old == DropHead(commitIdx)
             cs == SetHead(old, i, TRUE)
  <2>1. /\ old \in Seq(CommitRec) /\ Len(old) = Len(commitIdx)
        /\ \A j \in DOMAIN commitIdx : /\ old[j].index = commitIdx[j].index
                                       /\ old[j].length = commitIdx[j].length
    BY <1>0, DropHeadType
  <2>2. RewriteCommits(cs)
    BY <1>2
  <2> HIDE DEF old
  <2>3. DOMAIN old = DOMAIN commitIdx
    BY <1>0, <2>1
  <2>4. /\ cs \in Seq(CommitRec) /\ Len(cs) = Len(old)
        /\ cs[i].index = old[i].index /\ cs[i].length = old[i].length
        /\ \A j \in DOMAIN old : j # i => cs[j] = old[j]
    BY <1>2, <2>1, <2>3, FlagUpdate
  <2> HIDE DEF cs
  <2>5. \A j \in DOMAIN commitIdx : cs[j].index = commitIdx[j].index
                                    /\ cs[j].length = commitIdx[j].length
    BY <2>1, <2>3, <2>4
  <2>6. QED
    BY <1>2, <2>1, <2>2, <2>4, <2>5, RewriteCommitsStep
<1>3. CASE \E i \in DOMAIN commitIdx : MoveHead(i)
    BY <1>2, <1>3 DEF MoveHead
<1>4. CASE ResetHead
  <2>1. Len(commitIdx) \in DOMAIN commitIdx
    BY <1>0, <1>4 DEF ResetHead
  <2>2. QED
    BY <1>2, <1>4, <2>1 DEF ResetHead
<1>5. QED
    BY <1>1, <1>3, <1>4

(***************************************************************************)
(* The steps that leave the real files alone: those of insert and reset,   *)
(* reading, writing what a file was emptied for, and cleaning the stage.   *)
(***************************************************************************)
QuietStep ==
    \/ InsertBegin \/ (\E p \in Paths, c \in Seq(Bytes), d \in BOOLEAN : StageFile(p, c, d))
    \/ TruncCachePack \/ WriteCachePack \/ TruncCacheIdx \/ WriteCacheIdx
    \/ CommitBegin \/ CopyDone \/ WritePack \/ WriteCommits
    \/ TruncIndex \/ WriteIndex \/ CleanIdx \/ CleanPack \/ Reset
    \/ WriteFlags \/ UNCHANGED vars

\* The steps that leave what the history files stand for.
LEMMA QuietSteps ==
    ASSUME TypeOK, HistoryInv, QuietStep PROVE HistoryStep
<1> SUFFICES ASSUME HistoryUnharmed'
             PROVE  /\ RangesFit' /\ Tiled(RealCommits, RealIdx)'
                    /\ CopyFits' /\ MemoryInStep' /\ KeepsHistory
    BY DEF HistoryStep
<1>a. HistoryUnharmed
  <2>1. crashes' = crashes
    BY DEF QuietStep, InsertBegin, TruncCachePack, WriteCachePack, TruncCacheIdx, WriteCacheIdx, CommitBegin, CopyDone, WritePack, WriteCommits, TruncIndex, WriteIndex, CleanIdx, CleanPack, Reset, WriteFlags, StageFile, vars
  <2>2. QED
    BY <2>1 DEF HistoryUnharmed
<1>b. /\ RangesFit /\ Tiled(RealCommits, RealIdx) /\ CopyFits /\ MemoryInStep
    BY <1>a DEF HistoryInv
<1>c. dbPack \in Seq(Byte)
    BY DEF TypeOK
<1>1. CASE InsertBegin
  <2>1. SameHistory
    BY <1>1, <1>b, RealFiles, RealFilesNext
    DEF InsertBegin, SameHistory, RealDefs, MemoryInStep, disk, mem
  <2>2. CopyFits'
    BY <1>1, <1>b DEF InsertBegin, CopyFits, Making, disk, mem
  <2>3. MemoryInStep'
    BY <1>1, <1>b, <1>c DEF InsertBegin, MemoryInStep, Making, disk, mem
  <2>4. QED
    BY <1>b, <2>1, <2>2, <2>3, SameHistoryKeeps
<1>2. CASE \E p \in Paths, c \in Seq(Bytes), d \in BOOLEAN : StageFile(p, c, d)
  <2>1. SameHistory
    BY <1>2, <1>b, RealFiles, RealFilesNext
    DEF StageFile, SameHistory, RealDefs, MemoryInStep, disk, mem
  <2>2. CopyFits'
    BY <1>2, <1>b DEF StageFile, CopyFits, Making, disk, mem
  <2>3. MemoryInStep'
    BY <1>2, <1>b, <1>c DEF StageFile, MemoryInStep, Making, disk, mem
  <2>4. QED
    BY <1>b, <2>1, <2>2, <2>3, SameHistoryKeeps
<1>3. CASE TruncCachePack
  <2>1. SameHistory
    BY <1>3, <1>b, RealFiles, RealFilesNext
    DEF TruncCachePack, SameHistory, RealDefs, MemoryInStep, disk, mem
  <2>2. CopyFits'
    BY <1>3, <1>b DEF TruncCachePack, CopyFits, Making, disk, mem
  <2>3. MemoryInStep'
    BY <1>3, <1>b, <1>c DEF TruncCachePack, MemoryInStep, Making, disk, mem
  <2>4. QED
    BY <1>b, <2>1, <2>2, <2>3, SameHistoryKeeps
<1>4. CASE WriteCachePack
  <2>1. SameHistory
    BY <1>4, <1>b, RealFiles, RealFilesNext
    DEF WriteCachePack, SameHistory, RealDefs, MemoryInStep, disk, mem
  <2>2. CopyFits'
    BY <1>4, <1>b DEF WriteCachePack, CopyFits, Making, disk, mem
  <2>3. MemoryInStep'
    BY <1>4, <1>b, <1>c DEF WriteCachePack, MemoryInStep, Making, disk, mem
  <2>4. QED
    BY <1>b, <2>1, <2>2, <2>3, SameHistoryKeeps
<1>5. CASE TruncCacheIdx
  <2>1. SameHistory
    BY <1>5, <1>b, RealFiles, RealFilesNext
    DEF TruncCacheIdx, SameHistory, RealDefs, MemoryInStep, disk, mem
  <2>2. CopyFits'
    BY <1>5, <1>b DEF TruncCacheIdx, CopyFits, Making, disk, mem
  <2>3. MemoryInStep'
    BY <1>5, <1>b, <1>c DEF TruncCacheIdx, MemoryInStep, Making, disk, mem
  <2>4. QED
    BY <1>b, <2>1, <2>2, <2>3, SameHistoryKeeps
<1>6. CASE WriteCacheIdx
  <2>1. SameHistory
    BY <1>6, <1>b, RealFiles, RealFilesNext
    DEF WriteCacheIdx, Exit, SameHistory, RealDefs, MemoryInStep, disk, mem
  <2>2. CopyFits'
    BY <1>6, <1>b DEF WriteCacheIdx, Exit, CopyFits, Making, disk, mem
  <2>3. MemoryInStep'
    BY <1>6, <1>b, <1>c DEF WriteCacheIdx, Exit, MemoryInStep, Making, disk, mem
  <2>4. QED
    BY <1>b, <2>1, <2>2, <2>3, SameHistoryKeeps
<1>7. CASE CommitBegin
  <2>1. SameHistory
    BY <1>7, <1>b, RealFiles, RealFilesNext
    DEF CommitBegin, SameHistory, RealDefs, MemoryInStep, disk, mem
  <2>2. CopyFits'
    BY <1>7, <1>b DEF CommitBegin, CopyFits, Making, disk, mem
  <2>3. MemoryInStep'
    BY <1>7, <1>b, <1>c DEF CommitBegin, Extends, MemoryInStep, Making, disk, mem
  <2>4. QED
    BY <1>b, <2>1, <2>2, <2>3, SameHistoryKeeps
<1>8. CASE CopyDone
  <2>1. SameHistory
    BY <1>8, <1>b, RealFiles, RealFilesNext
    DEF CopyDone, SameHistory, RealDefs, MemoryInStep, disk, mem
  <2>2. CopyFits'
    BY <1>8, <1>b DEF CopyDone, CopyFits, Making, disk, mem
  <2>3. MemoryInStep'
    BY <1>8, <1>b, <1>c DEF CopyDone, MemoryInStep, Making, disk, mem
  <2>4. QED
    BY <1>b, <2>1, <2>2, <2>3, SameHistoryKeeps
<1>9. CASE WritePack
  <2>1. SameHistory
    BY <1>9, <1>b, RealFiles, RealFilesNext
    DEF WritePack, SameHistory, RealDefs, MemoryInStep, disk, mem
  <2>2. CopyFits'
    BY <1>9, <1>b DEF WritePack, CopyFits, Making, disk, mem
  <2>3. MemoryInStep'
    BY <1>9, <1>b, <1>c DEF WritePack, MemoryInStep, Making, disk, mem
  <2>4. QED
    BY <1>b, <2>1, <2>2, <2>3, SameHistoryKeeps
<1>10. CASE WriteCommits
  <2>1. SameHistory
    BY <1>10, <1>b, RealFiles, RealFilesNext
    DEF WriteCommits, NewCommits, SameHistory, RealDefs, MemoryInStep, disk, mem
  <2>2. CopyFits'
    BY <1>10, <1>b DEF WriteCommits, CopyFits, Making, disk, mem
  <2>3. MemoryInStep'
    BY <1>10, <1>b, <1>c DEF WriteCommits, NewCommits, MemoryInStep, Making, disk, mem
  <2>4. QED
    BY <1>b, <2>1, <2>2, <2>3, SameHistoryKeeps
<1>11. CASE TruncIndex
  <2>1. SameHistory
    BY <1>11, <1>b, RealFiles, RealFilesNext
    DEF TruncIndex, NewCommits, SameHistory, RealDefs, MemoryInStep, disk, mem
  <2>2. CopyFits'
    BY <1>11, <1>b DEF TruncIndex, CopyFits, Making, disk, mem
  <2>3. MemoryInStep'
    BY <1>11, <1>b, <1>c DEF TruncIndex, NewCommits, MemoryInStep, Making, disk, mem
  <2>4. QED
    BY <1>b, <2>1, <2>2, <2>3, SameHistoryKeeps
<1>12. CASE WriteIndex
  <2>1. SameHistory
    BY <1>12, <1>b, RealFiles, RealFilesNext
    DEF WriteIndex, NewCommits, SameHistory, RealDefs, MemoryInStep, disk, mem
  <2>2. CopyFits'
    BY <1>12, <1>b DEF WriteIndex, CopyFits, Making, disk, mem
  <2>3. MemoryInStep'
    BY <1>12, <1>b, <1>c DEF WriteIndex, NewCommits, MemoryInStep, Making, disk, mem
  <2>4. QED
    BY <1>b, <2>1, <2>2, <2>3, SameHistoryKeeps
<1>13. CASE CleanIdx
  <2>1. SameHistory
    BY <1>13, <1>b, RealFiles, RealFilesNext
    DEF CleanIdx, SameHistory, RealDefs, MemoryInStep, disk, mem
  <2>2. CopyFits'
    BY <1>13, <1>b DEF CleanIdx, CopyFits, Making, disk, mem
  <2>3. MemoryInStep'
    BY <1>13, <1>b, <1>c DEF CleanIdx, MemoryInStep, Making, disk, mem
  <2>4. QED
    BY <1>b, <2>1, <2>2, <2>3, SameHistoryKeeps
<1>14. CASE CleanPack
  <2>1. SameHistory
    BY <1>14, <1>b, RealFiles, RealFilesNext
    DEF CleanPack, Exit, SameHistory, RealDefs, MemoryInStep, disk, mem
  <2>2. CopyFits'
    BY <1>14, <1>b DEF CleanPack, Exit, CopyFits, Making, disk, mem
  <2>3. MemoryInStep'
    BY <1>14, <1>b, <1>c DEF CleanPack, Exit, MemoryInStep, Making, disk, mem
  <2>4. QED
    BY <1>b, <2>1, <2>2, <2>3, SameHistoryKeeps
<1>15. CASE Reset
  <2>1. SameHistory
    BY <1>15, <1>b, RealFiles, RealFilesNext
    DEF Reset, SameHistory, RealDefs, MemoryInStep, disk, mem
  <2>2. CopyFits'
    BY <1>15, <1>b DEF Reset, CopyFits, Making, disk, mem
  <2>3. MemoryInStep'
    BY <1>15, <1>b, <1>c DEF Reset, MemoryInStep, Making, disk, mem
  <2>4. QED
    BY <1>b, <2>1, <2>2, <2>3, SameHistoryKeeps
<1>16. CASE WriteFlags
  <2>1. SameHistory
    BY <1>16, <1>b, RealFiles, RealFilesNext
    DEF WriteFlags, Exit, SameHistory, RealDefs, MemoryInStep, disk, mem
  <2>2. CopyFits'
    BY <1>16, <1>b DEF WriteFlags, Exit, CopyFits, Making, disk, mem
  <2>3. MemoryInStep'
    BY <1>16, <1>b, <1>c DEF WriteFlags, Exit, MemoryInStep, Making, disk, mem
  <2>4. QED
    BY <1>b, <2>1, <2>2, <2>3, SameHistoryKeeps
<1>17. CASE UNCHANGED vars
  <2>1. SameHistory
    BY <1>17, <1>b, RealFiles, RealFilesNext
    DEF vars, NewCommits, SameHistory, RealDefs, MemoryInStep, disk, mem
  <2>2. CopyFits'
    BY <1>17, <1>b DEF vars, CopyFits, Making, disk, mem
  <2>3. MemoryInStep'
    BY <1>17, <1>b, <1>c DEF vars, NewCommits, MemoryInStep, Making, disk, mem
  <2>4. QED
    BY <1>b, <2>1, <2>2, <2>3, SameHistoryKeeps
<1>18. QED
    BY <1>1, <1>2, <1>3, <1>4, <1>5, <1>6, <1>7, <1>8, <1>9,
       <1>10, <1>11, <1>12, <1>13, <1>14, <1>15, <1>16, <1>17
    DEF QuietStep

\* A process that dies where no file of the history was being replaced.
LEMMA CrashStep ==
    ASSUME TypeOK, HistoryInv, Crash PROVE HistoryStep
<1> SUFFICES ASSUME HistoryUnharmed'
             PROVE  /\ RangesFit' /\ Tiled(RealCommits, RealIdx)'
                    /\ CopyFits' /\ MemoryInStep' /\ KeepsHistory
    BY DEF HistoryStep
<1>1. crashes' = Append(crashes, pc) /\ crashes \in Seq(Points) /\ pc \in Points
    BY DEF Crash, TypeOK
<1>2. HistoryUnharmed /\ pc \notin HistoryPoints
  <2>1. /\ \A i \in DOMAIN crashes : i \in DOMAIN crashes' /\ crashes'[i] = crashes[i]
        /\ Len(crashes) + 1 \in DOMAIN crashes'
        /\ crashes'[Len(crashes) + 1] = pc
    BY <1>1
  <2>2. QED
    BY <2>1 DEF HistoryUnharmed
<1>3. RangesFit /\ Tiled(RealCommits, RealIdx)
    BY <1>2 DEF HistoryInv
<1>4. SameHistory
    BY <1>2, RealFiles, RealFilesNext
    DEF Crash, Exit, SameHistory, RealDefs, HistoryPoints, disk
<1>5. CopyFits' /\ MemoryInStep'
    BY DEF Crash, Exit, CopyFits, MemoryInStep, Making
<1>6. QED
    BY <1>3, <1>4, <1>5, SameHistoryKeeps

\* Every step, crashes included, preserves the invariant and the history.
LEMMA HistoryNext ==
    ASSUME TypeOK, HistoryInv, [Next]_vars PROVE HistoryStep
<1>1. CASE Insert \/ Reset \/ UNCHANGED vars
  <2>1. <<>> \in Seq(Bytes) /\ Contents \subseteq Seq(Bytes)
    BY StoreAssumption
  <2>2. QuietStep
    BY <1>1, <2>1 DEF Insert, QuietStep
  <2>3. QED
    BY <2>2, QuietSteps
<1>2. CASE Commit
    BY <1>2, QuietSteps, CopyEntryStep, TransferStep, TruncPackStep, TruncCommitsStep
    DEF Commit, QuietStep
<1>3. CASE Flags
    BY <1>3, QuietSteps, FlagsStep DEF Flags, QuietStep
<1>4. CASE Crash
    BY <1>4, CrashStep
<1>5. QED
    BY <1>1, <1>2, <1>3, <1>4 DEF Next

\* The first half of HistoryNext: HistoryInv is inductive.
LEMMA HistoryInductive ==
    TypeOK /\ HistoryInv /\ [Next]_vars => HistoryInv'
BY HistoryNext DEF HistoryStep, HistoryInv

\* The second half of HistoryNext: no step changes what was committed.
LEMMA HistoryStepKeeps ==
    TypeOK /\ HistoryInv /\ [Next]_vars => [KeepsHistory]_vars
BY HistoryNext DEF HistoryStep, KeepsHistory

\* The inductive invariant behind the theorems on the history files holds:
\* at every step of a commit the files and the memory of the process agree.
THEOREM HistoryInvariant == Spec => []HistoryInv
<1>1. Init => HistoryInv
    BY HistoryInit
<1>2. TypeOK /\ HistoryInv /\ [Next]_vars => HistoryInv'
    BY HistoryInductive
<1>3. QED
    BY <1>1, <1>2, TypeCorrect, PTL DEF Spec

-----------------------------------------------------------------------------
(* HEAD: the list in memory has one HEAD as well, and crashes do not matter *)

OneHead(cs) == \A i, j \in DOMAIN cs : cs[i].head /\ cs[j].head => i = j

HeadInv == OneHead(commitIdx) /\ OneHead(mCommits)

\* Dropping the HEAD of a list with one HEAD leaves none.
LEMMA DropHeadLeavesNone ==
    ASSUME NEW cs \in Seq(CommitRec), OneHead(cs)
    PROVE  \A i \in DOMAIN DropHead(cs) : ~DropHead(cs)[i].head
<1> SUFFICES ASSUME NEW i \in DOMAIN DropHead(cs), DropHead(cs)[i].head
             PROVE  FALSE
    OBVIOUS
<1>1. i \in DOMAIN cs /\ cs[i].head /\ ~IsHead(cs, i)
    BY DropHeadType
<1>2. PICK j \in 1 .. i - 1 : cs[j].head
    BY <1>1 DEF IsHead
<1>3. j \in DOMAIN cs /\ j # i
    BY <1>1, <1>2
<1>4. QED
    BY <1>1, <1>2, <1>3 DEF OneHead

\* Giving a list without HEAD one leaves it with one.
LEMMA SetHeadMakesOne ==
    ASSUME NEW cs \in Seq(CommitRec), NEW i \in DOMAIN cs,
           \A j \in DOMAIN cs : ~cs[j].head
    PROVE  OneHead(SetHead(cs, i, TRUE))
<1> DEFINE new == SetHead(cs, i, TRUE)
<1>1. /\ new \in Seq(CommitRec) /\ Len(new) = Len(cs)
      /\ \A j \in DOMAIN cs : j # i => new[j] = cs[j]
    BY FlagUpdate
<1> HIDE DEF new
<1>2. DOMAIN new = DOMAIN cs
    BY <1>1
<1>3. QED
    BY <1>1, <1>2 DEF OneHead, new

\* Taking HEAD away from a commit does not give it to another.
LEMMA ClearHeadKeepsOne ==
    ASSUME NEW cs \in Seq(CommitRec), NEW i \in DOMAIN cs, OneHead(cs)
    PROVE  OneHead(SetHead(cs, i, FALSE))
<1> DEFINE new == SetHead(cs, i, FALSE)
<1>1. /\ new \in Seq(CommitRec) /\ Len(new) = Len(cs) /\ new[i].head = FALSE
      /\ \A j \in DOMAIN cs : j # i => new[j] = cs[j]
    BY FlagUpdate
<1> HIDE DEF new
<1>2. DOMAIN new = DOMAIN cs
    BY <1>1
<1>3. QED
    BY <1>1, <1>2 DEF OneHead, new

\* finalize_commit leaves one HEAD, the new commit.
LEMMA NewCommitsOneHead ==
    ASSUME TypeOK, OneHead(mCommits) PROVE OneHead(NewCommits)
<1> DEFINE old == DropHead(mCommits)
           c == [index |-> Len(mIdx), length |-> Len(mCopy), head |-> TRUE]
<1>1. mCommits \in Seq(CommitRec) /\ c \in CommitRec
    BY DEF TypeOK, CommitRec
<1>2. old \in Seq(CommitRec) /\ \A i \in DOMAIN old : ~old[i].head
    BY <1>1, DropHeadType, DropHeadLeavesNone
<1>3. NewCommits = Append(old, c)
    BY DEF NewCommits
<1> HIDE DEF old, c
<1>4. /\ Len(NewCommits) = Len(old) + 1 /\ NewCommits \in Seq(CommitRec)
      /\ \A i \in DOMAIN old : NewCommits[i] = old[i]
    BY <1>1, <1>2, <1>3
<1>5. \A i \in DOMAIN NewCommits : NewCommits[i].head => i = Len(old) + 1
  <2>1. \A i \in DOMAIN NewCommits : i \in DOMAIN old \/ i = Len(old) + 1
    BY <1>2, <1>4
  <2>2. QED
    BY <1>2, <1>4, <2>1
<1>6. QED
    BY <1>5 DEF OneHead

\* Every step leaves at most one HEAD, on disk and in the list in memory.
LEMMA HeadNext == TypeOK /\ HeadInv /\ [Next]_vars => HeadInv'
<1> SUFFICES ASSUME TypeOK, HeadInv, [Next]_vars
             PROVE  HeadInv'
    OBVIOUS
<1>0. commitIdx \in Seq(CommitRec) /\ OneHead(commitIdx) /\ OneHead(mCommits)
      /\ OneHead(<<>>)
    BY DEF TypeOK, HeadInv, OneHead
<1>1. CASE UNCHANGED <<commitIdx, mCommits>>
    BY <1>1 DEF HeadInv
<1>2. CASE commitIdx' = commitIdx /\ mCommits' \in {commitIdx, <<>>}
    BY <1>0, <1>2 DEF HeadInv
<1>3. CASE commitIdx' = <<>> /\ mCommits' = mCommits
    BY <1>0, <1>3 DEF HeadInv
<1>4. CASE WriteCommits
    BY <1>0, <1>4, NewCommitsOneHead DEF WriteCommits, HeadInv, mem
<1>5. CASE WriteFlags
    BY <1>0, <1>5 DEF WriteFlags, Exit, HeadInv
<1>6. ASSUME NEW cs, RewriteCommits(cs), OneHead(cs)
      PROVE  HeadInv'
    BY <1>0, <1>6 DEF RewriteCommits, HeadInv
<1>7. CASE \E i \in DOMAIN commitIdx : Tag(i)
    BY <1>0, <1>6, <1>7, ClearHeadKeepsOne DEF Tag
<1>8. DropHead(commitIdx) \in Seq(CommitRec)
      /\ (\A i \in DOMAIN DropHead(commitIdx) : ~DropHead(commitIdx)[i].head)
      /\ DOMAIN DropHead(commitIdx) = DOMAIN commitIdx
    BY <1>0, DropHeadType, DropHeadLeavesNone
<1>9. CASE \E i \in DOMAIN commitIdx : MoveHead(i)
  <2>1. PICK i \in DOMAIN commitIdx :
            RewriteCommits(SetHead(DropHead(commitIdx), i, TRUE))
    BY <1>9 DEF MoveHead
  <2>2. OneHead(SetHead(DropHead(commitIdx), i, TRUE))
    BY <1>8, SetHeadMakesOne
  <2>3. QED
    BY <1>6, <2>1, <2>2
<1>10. CASE ResetHead
  <2>1. RewriteCommits(SetHead(DropHead(commitIdx), Len(commitIdx), TRUE))
    BY <1>10 DEF ResetHead
  <2>2. Len(commitIdx) \in DOMAIN commitIdx
    <3>1. commitIdx # <<>>
      BY <1>10 DEF ResetHead
    <3>2. QED
      BY <1>0, <3>1
  <2>3. OneHead(SetHead(DropHead(commitIdx), Len(commitIdx), TRUE))
    BY <1>8, <2>2, SetHeadMakesOne
  <2>4. QED
    BY <1>6, <2>1, <2>3
<1>11. CASE Insert \/ Reset \/ Crash
    BY <1>1, <1>2, <1>11
    DEF Insert, InsertBegin, StageFile, TruncCachePack, WriteCachePack,
        TruncCacheIdx, WriteCacheIdx, Reset, Crash, Exit, disk, mem
<1>12. CASE Commit
    BY <1>1, <1>2, <1>3, <1>4, <1>12
    DEF Commit, CommitBegin, CopyEntry, CopyDone, TransferNew, TransferDelete,
        TransferModify, Transferring, TruncPack, WritePack, TruncCommits,
        TruncIndex, WriteIndex, CleanIdx, CleanPack, Exit, disk, mem
<1>13. CASE UNCHANGED vars
    BY <1>1, <1>13 DEF vars, disk, mem
<1>14. CASE Flags
    BY <1>5, <1>7, <1>9, <1>10, <1>14 DEF Flags
<1>15. QED
    BY <1>11, <1>12, <1>13, <1>14 DEF Next

-----------------------------------------------------------------------------
(* Theorems *)

\* Wherever a process dies outside HistoryPoints, every commit's entries are
\* in db.idx and every entry's bytes in db.pack.
THEOREM HistoryReadable == Spec => []DiskReadable
<1>1. HistoryInv => DiskReadable
    BY RealFiles
    DEF HistoryInv, RangesFit, DiskReadable, HistoryPoints, RealDefs
<1>2. QED
    BY <1>1, HistoryInvariant, PTL

\* Commits own disjoint stretches of db.idx, in order and without a gap.
THEOREM CommitsDisjoint == Spec => []CommitsTile
<1>1. HistoryInv => CommitsTile
    BY RealFiles
    DEF HistoryInv, Tiled, CommitsTile, HistoryPoints, RealDefs
<1>2. QED
    BY <1>1, HistoryInvariant, PTL

\* No step drops a commit, moves its range, or changes an index entry or a
\* byte of the repository, unless a process dies at a history point.
THEOREM HistoryImmutable == Spec => HistoryKept
<1>1. TypeOK /\ HistoryInv /\ [Next]_vars => [KeepsHistory]_vars
    BY HistoryStepKeeps
<1>2. QED
    BY <1>1, HistoryInvariant, TypeCorrect, PTL DEF Spec, HistoryKept

\* Two commits never carry the HEAD flag at once, whatever crashes there are.
THEOREM SingleHead == Spec => []AtMostOneHead
<1>1. Init => HeadInv
    BY DEF Init, HeadInv, OneHead
<1>2. HeadInv => AtMostOneHead
    BY DEF HeadInv, OneHead, AtMostOneHead
<1>3. QED
    BY <1>1, <1>2, HeadNext, TypeCorrect, PTL DEF Spec

-----------------------------------------------------------------------------
(***************************************************************************)
(* The stage.  StageReadable speaks of the two files of the stage between  *)
(* the writes; the invariant also says what an insert has in memory, that  *)
(* it only adds to what it read, and that a commit transfers the stage     *)
(* that is on the disk.                                                    *)
(***************************************************************************)
Inserting == {"staging", "cachePackTrunc", "cachePackDone", "cacheIdxTrunc"}

\* The bytes of every node are in the pack and are those of a file an insert
\* has found, and no path has two nodes.
StageGood(nodes, pack) ==
    /\ \A i \in DOMAIN nodes :
        /\ InPack(nodes[i], pack)
        /\ Slice(pack, nodes[i].start, nodes[i].len) \in Contents \union {<<>>}
    /\ \A i, j \in DOMAIN nodes : nodes[i].path = nodes[j].path => i = j

StageInv ==
    StageUnharmed =>
        /\ StageGood(cacheIdx, RealCachePack)
        /\ pc \in Inserting => StageGood(mEntries, mCache)
        /\ pc = "staging" => Extends(mCache, cachePack)
        /\ pc \in Inserting \ {"cacheIdxTrunc"} => Extends(mEntries, cacheIdx)
        /\ pc \in {"cachePackDone", "cacheIdxTrunc"} => cachePack = mCache
        /\ pc \in Making \union {"indexDone"} =>
                mEntries = cacheIdx /\ mCache = cachePack /\ cacheIdx # <<>>
        /\ pc = "cleanPack" => cacheIdx = <<>>

-----------------------------------------------------------------------------
(* Lemmas on slices *)

\* What lies inside a pack is the same in a pack that extends it.
LEMMA SliceKept ==
    ASSUME NEW old \in Seq(Byte), NEW new \in Seq(Byte), Extends(new, old),
           NEW s \in Nat, NEW n \in Nat, s + n <= Len(old)
    PROVE  Slice(new, s, n) = Slice(old, s, n)
<1>1. ASSUME NEW k \in 1 .. n
      PROVE  /\ s + k \in DOMAIN old /\ s + k \in DOMAIN new
             /\ new[s + k] = old[s + k]
    BY DEF Extends
<1> QED
    BY <1>1 DEF Slice

\* What was appended to a pack is read back from where it was appended.
LEMMA SliceAppended ==
    ASSUME NEW pack \in Seq(Byte), NEW new \in Seq(Byte)
    PROVE  Slice(pack \o new, Len(pack), Len(new)) = new
<1> DEFINE both == pack \o new
<1>1. ASSUME NEW k \in 1 .. Len(new)
      PROVE  Len(pack) + k \in DOMAIN both /\ both[Len(pack) + k] = new[k]
    OBVIOUS
<1>2. Slice(both, Len(pack), Len(new)) = [k \in 1 .. Len(new) |-> new[k]]
    BY <1>1 DEF Slice
<1>3. new = [k \in 1 .. Len(new) |-> new[k]]
    OBVIOUS
<1> QED
    BY <1>2, <1>3

\* Growing the pack, and adding a node of a new path for the bytes it grew
\* by, leaves a stage good.
LEMMA StageGrows ==
    ASSUME NEW nodes \in Seq(StageNode), NEW pack \in Seq(Byte),
           NEW c \in Contents \union {<<>>}, c \in Seq(Byte),
           NEW n \in StageNode, n.start = Len(pack), n.len = Len(c),
           StageGood(nodes, pack),
           \A i \in DOMAIN nodes : nodes[i].path # n.path
    PROVE  StageGood(Append(nodes, n), pack \o c)
<1> DEFINE new == Append(nodes, n)
           both == pack \o c
<1>1. /\ both \in Seq(Byte) /\ Len(both) = Len(pack) + Len(c)
      /\ Extends(both, pack)
    BY ExtendsConcat
<1>2. /\ Len(new) = Len(nodes) + 1 /\ new \in Seq(StageNode)
      /\ \A i \in 1 .. Len(nodes) : new[i] = nodes[i]
      /\ new[Len(nodes) + 1] = n
      /\ DOMAIN new = 1 .. Len(nodes) + 1 /\ DOMAIN nodes = 1 .. Len(nodes)
    OBVIOUS
<1>3. Slice(both, n.start, n.len) = c
    BY SliceAppended
<1>4. InPack(n, both)
    BY <1>1 DEF InPack
<1> HIDE DEF new, both
<1>5. ASSUME NEW i \in 1 .. Len(nodes)
      PROVE  /\ InPack(nodes[i], both)
             /\ Slice(both, nodes[i].start, nodes[i].len) \in Contents \union {<<>>}
  <2>1. nodes[i] \in StageNode
    OBVIOUS
  <2>2. nodes[i].start \in Nat /\ nodes[i].len \in Nat
    BY <2>1 DEF StageNode
  <2>3. InPack(nodes[i], pack)
        /\ Slice(pack, nodes[i].start, nodes[i].len) \in Contents \union {<<>>}
    BY <1>2 DEF StageGood
  <2>4. Slice(both, nodes[i].start, nodes[i].len)
            = Slice(pack, nodes[i].start, nodes[i].len)
    BY <1>1, <2>2, <2>3, SliceKept DEF InPack
  <2> QED
    BY <1>1, <2>2, <2>3, <2>4 DEF InPack
<1>6. ASSUME NEW i \in DOMAIN new
      PROVE  /\ InPack(new[i], both)
             /\ Slice(both, new[i].start, new[i].len) \in Contents \union {<<>>}
  <2>1. CASE i = Len(nodes) + 1
    BY <1>2, <1>3, <1>4, <2>1
  <2>2. CASE i \in 1 .. Len(nodes)
    BY <1>2, <1>5, <2>2
  <2> QED
    BY <1>2, <2>1, <2>2
<1>7. ASSUME NEW i \in DOMAIN new, NEW j \in DOMAIN new, new[i].path = new[j].path
      PROVE  i = j
    BY <1>2, <1>7 DEF StageGood
<1> QED
    BY <1>6, <1>7 DEF StageGood, new, both

-----------------------------------------------------------------------------
(* The invariant of the stage is inductive *)

\* An empty stage is good.
LEMMA StageInit == Init => StageInv
BY DEF Init, StageInv, StageGood, Inserting, Making, RealCachePack

\* A file an insert finds joins the stage it has in memory.
LEMMA StageFileKeeps ==
    ASSUME TypeOK, StageInv, NEW p \in Paths, NEW c \in Contents \union {<<>>},
           NEW d \in BOOLEAN, StageFile(p, c, d)
    PROVE  StageInv'
<1> DEFINE n == [path |-> p, start |-> Len(mCache), len |-> Len(c), deleted |-> d]
<1>1. c \in Seq(Byte)
  <2>1. c \in Seq(Bytes)
    <3>1. <<>> \in Seq(Bytes)
      OBVIOUS
    <3> QED
      BY <3>1, StoreAssumption
  <2> QED
    BY <2>1 DEF Byte
<1>2. /\ pc = "staging" /\ pc' = pc /\ cacheIdx' = cacheIdx /\ cachePack' = cachePack
      /\ crashes' = crashes
      /\ mEntries' = Append(mEntries, n) /\ mCache' = mCache \o c
      /\ \A i \in DOMAIN mEntries : mEntries[i].path # p
    BY DEF StageFile, disk
<1>3. /\ mEntries \in Seq(StageNode) /\ mCache \in Seq(Byte)
      /\ cacheIdx \in Seq(StageNode) /\ cachePack \in Seq(Byte) /\ Len(c) \in Nat
    BY <1>1 DEF TypeOK
<1>4. /\ n \in StageNode /\ n.start = Len(mCache) /\ n.len = Len(c) /\ n.path = p
    BY <1>3 DEF StageNode
<1> HIDE DEF n
<1>5. SUFFICES ASSUME StageUnharmed
               PROVE  /\ StageGood(mEntries', mCache')
                      /\ Extends(mCache', cachePack) /\ Extends(mEntries', cacheIdx)
    BY <1>2 DEF StageInv, StageUnharmed, RealCachePack, Inserting, Making
<1>6. /\ StageGood(mEntries, mCache)
      /\ Extends(mCache, cachePack) /\ Extends(mEntries, cacheIdx)
    BY <1>2, <1>5 DEF StageInv, Inserting
<1>7. StageGood(mEntries', mCache')
    BY <1>1, <1>2, <1>3, <1>4, <1>6, StageGrows
<1>8. Extends(mCache', cachePack)
    BY <1>1, <1>2, <1>3, <1>6 DEF Extends
<1>9. Extends(mEntries', cacheIdx)
    BY <1>2, <1>3, <1>4, <1>6 DEF Extends
<1> QED
    BY <1>7, <1>8, <1>9

\* The steps that write the two files of the stage.
LEMMA StageWriteKeeps ==
    ASSUME TypeOK, StageInv,
           TruncCachePack \/ WriteCachePack \/ TruncCacheIdx \/ WriteCacheIdx
    PROVE  StageInv'
<1> SUFFICES ASSUME StageUnharmed' PROVE StageInv'
    BY DEF StageInv
<1>1. CASE TruncCachePack
  <2>1. /\ pc = "staging" /\ pc' = "cachePackTrunc" /\ crashes' = crashes
        /\ cacheIdx' = cacheIdx /\ mEntries' = mEntries /\ mCache' = mCache
    BY <1>1 DEF TruncCachePack, mem
  <2>2. /\ StageGood(cacheIdx, cachePack) /\ StageGood(mEntries, mCache)
        /\ Extends(mCache, cachePack) /\ Extends(mEntries, cacheIdx)
    BY <2>1 DEF StageInv, StageUnharmed, Inserting, RealCachePack
  <2>3. \A i \in DOMAIN cacheIdx : i \in DOMAIN mEntries /\ mEntries[i] = cacheIdx[i]
    <3>1. cacheIdx \in Seq(StageNode) /\ mEntries \in Seq(StageNode)
      BY DEF TypeOK
    <3> QED
      BY <2>2, <3>1 DEF Extends
  <2>4. StageGood(cacheIdx, mCache)
    BY <2>2, <2>3 DEF StageGood
  <2> QED
    BY <2>1, <2>2, <2>4 DEF StageInv, Inserting, Making, RealCachePack
<1>2. CASE WriteCachePack
    BY <1>2 DEF WriteCachePack, mem, StageInv, StageUnharmed, Inserting, Making,
                RealCachePack
<1>3. CASE TruncCacheIdx
  <2>1. StageGood(<<>>, cachePack)
    BY DEF StageGood
  <2> QED
    BY <1>3, <2>1
    DEF TruncCacheIdx, mem, StageInv, StageUnharmed, Inserting, Making, RealCachePack
<1>4. CASE WriteCacheIdx
    BY <1>4 DEF WriteCacheIdx, Exit, StageInv, StageUnharmed, Inserting, Making,
                RealCachePack
<1> QED
    BY <1>1, <1>2, <1>3, <1>4

\* A commit leaves the stage and what it has read of it alone until it is done.
LEMMA CommitKeepsStage ==
    ASSUME StageInv, Commit PROVE StageInv'
<1> SUFFICES ASSUME StageUnharmed' PROVE StageInv'
    BY DEF StageInv
<1>1. CASE CommitBegin
    BY <1>1 DEF CommitBegin, disk, StageInv, StageUnharmed, Inserting, Making,
                RealCachePack
<1>2. ASSUME pc \in Making, pc' \in Making \union {"indexDone"},
             UNCHANGED <<cacheIdx, cachePack, mEntries, mCache, crashes>>
      PROVE  StageInv'
    BY <1>2 DEF StageInv, StageUnharmed, Inserting, Making, RealCachePack
<1>3. CASE CopyEntry \/ CopyDone \/ TransferNew \/ TransferDelete \/ TransferModify
    BY <1>2, <1>3 DEF CopyEntry, CopyDone, TransferNew, TransferDelete,
                      TransferModify, Transferring, disk, Making
<1>4. CASE TruncPack \/ WritePack \/ TruncCommits \/ WriteCommits
    BY <1>2, <1>4 DEF TruncPack, WritePack, TruncCommits, WriteCommits, mem, Making
<1>5. CASE TruncIndex \/ WriteIndex
    BY <1>2, <1>5 DEF TruncIndex, WriteIndex, mem, Making
<1>6. StageGood(<<>>, cachePack) /\ StageGood(<<>>, <<>>)
    BY DEF StageGood
<1>7. CASE CleanIdx
    BY <1>6, <1>7
    DEF CleanIdx, mem, StageInv, StageUnharmed, Inserting, Making, RealCachePack
<1>8. CASE CleanPack
    BY <1>6, <1>8
    DEF CleanPack, Exit, StageInv, StageUnharmed, Inserting, Making, RealCachePack
<1> QED
    BY <1>1, <1>3, <1>4, <1>5, <1>7, <1>8 DEF Commit

\* Every step of every command, and a crash, preserves the invariant.
LEMMA StageNext == TypeOK /\ StageInv /\ [Next]_vars => StageInv'
<1> SUFFICES ASSUME TypeOK, StageInv, [Next]_vars PROVE StageInv'
    OBVIOUS
<1>1. ASSUME UNCHANGED <<cacheIdx, cachePack, crashes>>, pc \in {"idle", "flagsTrunc"},
             pc' \in {"idle", "flagsTrunc"}
      PROVE  StageInv'
    BY <1>1 DEF StageInv, StageUnharmed, Inserting, Making, RealCachePack
<1>2. CASE InsertBegin
  <2>1. Extends(cacheIdx, cacheIdx) /\ Extends(cachePack, cachePack)
    BY ExtendsSelf DEF TypeOK
  <2> QED
    BY <1>2, <2>1
    DEF InsertBegin, disk, StageInv, StageUnharmed, Inserting, Making, RealCachePack
<1>3. CASE \E p \in Paths, c \in Contents, d \in BOOLEAN : StageFile(p, c, d)
    BY <1>3, StageFileKeeps
<1>4. CASE \E p \in Paths : StageFile(p, <<>>, TRUE)
    BY <1>4, StageFileKeeps
<1>5. CASE Insert
    BY <1>2, <1>3, <1>4, <1>5, StageWriteKeeps DEF Insert
<1>6. CASE Reset
  <2>1. StageGood(<<>>, cachePack)
    BY DEF StageGood
  <2> QED
    BY <1>6, <2>1
    DEF Reset, mem, StageInv, StageUnharmed, Inserting, Making, RealCachePack
<1>7. CASE Flags
    BY <1>1, <1>7 DEF Flags, Tag, MoveHead, ResetHead, RewriteCommits, WriteFlags, Exit
<1>8. CASE Crash
  <2>1. /\ crashes' = Append(crashes, pc) /\ crashes \in Seq(Points) /\ pc \in Points
        /\ pc' = "idle" /\ UNCHANGED <<cacheIdx, cachePack>>
    BY <1>8 DEF Crash, Exit, TypeOK, disk
  <2>2. SUFFICES ASSUME StageUnharmed' PROVE StageGood(cacheIdx, cachePack)
    BY <2>1 DEF StageInv, Inserting, Making, RealCachePack
  <2>3. /\ \A i \in DOMAIN crashes : i \in DOMAIN crashes' /\ crashes'[i] = crashes[i]
        /\ Len(crashes) + 1 \in DOMAIN crashes' /\ crashes'[Len(crashes) + 1] = pc
    BY <2>1
  <2>4. StageUnharmed /\ pc \notin StagePoints
    BY <2>2, <2>3 DEF StageUnharmed
  <2> QED
    BY <2>4 DEF StageInv, RealCachePack, StagePoints
<1>9. CASE UNCHANGED vars
    BY <1>9 DEF vars, disk, mem, StageInv, StageUnharmed, RealCachePack
<1> QED
    BY <1>5, <1>6, <1>7, <1>8, <1>9, CommitKeepsStage DEF Next

\* The inductive invariant of the stage holds.
THEOREM StageInvariant == Spec => []StageInv
BY StageInit, StageNext, TypeCorrect, PTL DEF Spec

\* Unless an insert died with a file of the stage emptied, what is staged can
\* be read where commit reads it, and a path is staged once.
THEOREM StagedFilesReadable == Spec => []StageReadable
<1>1. StageInv => StageReadable
    BY DEF StageInv, StageGood, StageReadable, StagePoints, RealCachePack
<1> QED
    BY <1>1, StageInvariant, PTL

-----------------------------------------------------------------------------
(* What the steps do to the files of the history *)

\* Only a crash is recorded.
LEMMA CrashesKept ==
    ASSUME [Next]_vars, ~Crash PROVE crashes' = crashes
BY DEF Next, Insert, InsertBegin, StageFile, TruncCachePack, WriteCachePack,
       TruncCacheIdx, WriteCacheIdx, Commit, CommitBegin, CopyEntry, CopyDone,
       TransferNew, TransferDelete, TransferModify, Transferring, TruncPack,
       WritePack, TruncCommits, WriteCommits, TruncIndex, WriteIndex, CleanIdx,
       CleanPack, Reset, Flags, Tag, MoveHead, ResetHead, RewriteCommits,
       WriteFlags, vars

\* A crash is recorded behind those there were.
LEMMA CrashesGrow ==
    ASSUME TypeOK, [Next]_vars
    PROVE  /\ \A i \in DOMAIN crashes : i \in DOMAIN crashes' /\ crashes'[i] = crashes[i]
           /\ Crash => \E i \in DOMAIN crashes' : crashes'[i] = pc
<1>1. CASE Crash
  <2>1. crashes' = Append(crashes, pc) /\ crashes \in Seq(Points) /\ pc \in Points
    BY <1>1 DEF Crash, TypeOK
  <2>2. /\ \A i \in DOMAIN crashes : i \in DOMAIN crashes' /\ crashes'[i] = crashes[i]
        /\ Len(crashes) + 1 \in DOMAIN crashes' /\ crashes'[Len(crashes) + 1] = pc
    BY <2>1
  <2> QED
    BY <2>2
<1>2. CASE ~Crash
    BY <1>2, CrashesKept
<1> QED
    BY <1>1, <1>2

\* A crash that does no harm now was preceded by none that did.
LEMMA UnharmedBefore ==
    ASSUME TypeOK, [Next]_vars, HistoryUnharmed'
    PROVE  HistoryUnharmed /\ (Crash => pc \notin HistoryPoints)
BY CrashesGrow DEF HistoryUnharmed

\* The same for the stage.
LEMMA StageUnharmedBefore ==
    ASSUME TypeOK, [Next]_vars, StageUnharmed'
    PROVE  StageUnharmed /\ (Crash => pc \notin StagePoints)
BY CrashesGrow DEF StageUnharmed

\* All steps but these three leave what the files of the history stand for.
LEMMA SameHistorySteps ==
    ASSUME TypeOK, HistoryInv, [Next]_vars, HistoryUnharmed'
    PROVE  SameHistory \/ TruncPack \/ TruncCommits \/ (Flags /\ pc = "idle")
<1>1. MemoryInStep
    BY UnharmedBefore DEF HistoryInv
<1>2. CASE Insert
    BY <1>2, RealFiles, RealFilesNext
    DEF Insert, InsertBegin, StageFile, TruncCachePack, WriteCachePack,
        TruncCacheIdx, WriteCacheIdx, Exit, SameHistory, RealDefs, disk, mem
<1>3. CASE CommitBegin \/ CopyEntry \/ CopyDone
    BY <1>3, RealFiles, RealFilesNext
    DEF CommitBegin, CopyEntry, CopyDone, SameHistory, RealDefs, disk
<1>4. CASE TransferNew \/ TransferDelete \/ TransferModify
    BY <1>4, RealFiles, RealFilesNext
    DEF TransferNew, TransferDelete, TransferModify, Transferring, SameHistory,
        RealDefs, disk
<1>5. CASE WritePack
    BY <1>5, RealFiles, RealFilesNext DEF WritePack, SameHistory, RealDefs, mem
<1>6. CASE WriteCommits \/ TruncIndex
    BY <1>6, RealFiles, RealFilesNext
    DEF WriteCommits, TruncIndex, SameHistory, RealDefs, mem, NewCommits
<1>7. CASE WriteIndex
    BY <1>1, <1>7, RealFiles, RealFilesNext
    DEF WriteIndex, SameHistory, RealDefs, MemoryInStep, mem
<1>8. CASE CleanIdx \/ CleanPack \/ Reset
    BY <1>8, RealFiles, RealFilesNext
    DEF CleanIdx, CleanPack, Reset, Exit, SameHistory, RealDefs, mem
<1>9. CASE WriteFlags
    BY <1>9, RealFiles, RealFilesNext DEF WriteFlags, Exit, SameHistory, RealDefs
<1>10. CASE Flags
    BY <1>9, <1>10 DEF Flags, Tag, MoveHead, ResetHead
<1>11. CASE Crash
    BY <1>11, UnharmedBefore, RealFiles, RealFilesNext
    DEF Crash, Exit, HistoryPoints, SameHistory, RealDefs, disk
<1>12. CASE UNCHANGED vars
    BY <1>12, RealFiles, RealFilesNext
    DEF vars, disk, mem, SameHistory, RealDefs, NewCommits
<1> QED
    BY <1>2, <1>3, <1>4, <1>5, <1>6, <1>7, <1>8, <1>10, <1>11, <1>12 DEF Next, Commit

\* head and tag rewrite the flags of the commits and nothing else of them.
LEMMA FlagsKeepRanges ==
    ASSUME TypeOK, Flags, pc = "idle"
    PROVE  /\ RealCommits = commitIdx /\ RealCommits' = mCommits'
           /\ RealIdx' = RealIdx /\ RealPack' = RealPack
           /\ Len(RealCommits') = Len(RealCommits)
<1>1. ASSUME NEW cs \in Seq(CommitRec), RewriteCommits(cs), Len(cs) = Len(commitIdx)
      PROVE  /\ RealCommits = commitIdx /\ RealCommits' = mCommits'
             /\ RealIdx' = RealIdx /\ RealPack' = RealPack
             /\ Len(RealCommits') = Len(RealCommits)
    BY <1>1, RealFiles, RealFilesNext DEF RewriteCommits, RealDefs
<1>2. commitIdx \in Seq(CommitRec)
    BY DEF TypeOK
<1>3. /\ DropHead(commitIdx) \in Seq(CommitRec)
      /\ Len(DropHead(commitIdx)) = Len(commitIdx)
      /\ DOMAIN DropHead(commitIdx) = DOMAIN commitIdx
    BY <1>2, DropHeadType
<1>4. CASE \E i \in DOMAIN commitIdx : Tag(i)
  <2>1. PICK i \in DOMAIN commitIdx : RewriteCommits(SetHead(commitIdx, i, FALSE))
    BY <1>4 DEF Tag
  <2> DEFINE cs == SetHead(commitIdx, i, FALSE)
  <2>2. cs \in Seq(CommitRec) /\ Len(cs) = Len(commitIdx)
    BY <1>2, FlagUpdate
  <2> HIDE DEF cs
  <2> QED
    BY <1>1, <2>1, <2>2 DEF cs
<1>5. CASE \E i \in DOMAIN commitIdx : MoveHead(i)
  <2>1. PICK i \in DOMAIN commitIdx :
            RewriteCommits(SetHead(DropHead(commitIdx), i, TRUE))
    BY <1>5 DEF MoveHead
  <2> DEFINE old == DropHead(commitIdx)
             cs == SetHead(old, i, TRUE)
  <2>2. old \in Seq(CommitRec) /\ Len(old) = Len(commitIdx) /\ i \in DOMAIN old
    BY <1>3
  <2> HIDE DEF old
  <2>3. cs \in Seq(CommitRec) /\ Len(cs) = Len(old)
    BY <2>2, FlagUpdate
  <2> HIDE DEF cs
  <2> QED
    BY <1>1, <2>1, <2>2, <2>3 DEF cs, old
<1>6. CASE ResetHead
  <2>1. RewriteCommits(SetHead(DropHead(commitIdx), Len(commitIdx), TRUE))
        /\ commitIdx # <<>>
    BY <1>6 DEF ResetHead
  <2>2. Len(commitIdx) \in DOMAIN DropHead(commitIdx)
    BY <1>2, <1>3, <2>1
  <2> DEFINE old == DropHead(commitIdx)
             cs == SetHead(old, Len(commitIdx), TRUE)
  <2>3. old \in Seq(CommitRec) /\ Len(old) = Len(commitIdx)
        /\ Len(commitIdx) \in DOMAIN old
    BY <1>3, <2>2
  <2> HIDE DEF old
  <2>4. cs \in Seq(CommitRec) /\ Len(cs) = Len(old)
    BY <2>3, FlagUpdate
  <2> HIDE DEF cs
  <2> QED
    BY <1>1, <2>1, <2>3, <2>4 DEF cs, old
<1> QED
    BY <1>4, <1>5, <1>6 DEF Flags, WriteFlags

-----------------------------------------------------------------------------
(***************************************************************************)
(* The live entries.  A commit has a path once because the list it is made *)
(* from has: the copy loop takes live entries of one commit, each at most  *)
(* once, and the transfer appends a path only where none is live.          *)
(***************************************************************************)
Live(e) == e.flags # "DELETED"

\* Among n entries behind the first ones, no two are live and of one path.
OneLive(idx, first, n) ==
    \A j, k \in 1 .. n :
        (idx[first + j].path = idx[first + k].path
            /\ Live(idx[first + j]) /\ Live(idx[first + k])) => j = k

\* The k-th entry of the commit that is copied.
MasterEntry(k) == mIdx[mCommits[Len(mCommits)].index + k]

\* Every entry of the list was copied, live, from a position behind the loop.
CopiedSoFar ==
    \A j \in DOMAIN mCopy :
        \E k \in 1 .. MasterLength :
            k < node /\ mCopy[j] = MasterEntry(k) /\ Live(mCopy[j])

CommitsLive ==
    \A i \in DOMAIN RealCommits :
        OneLive(RealIdx, RealCommits[i].index, RealCommits[i].length)

CopyLive ==
    /\ pc \in Making => OneLive(mCopy, 0, Len(mCopy))
    /\ pc = "copy" => CopiedSoFar

LiveInv == HistoryUnharmed => CommitsLive /\ CopyLive

\* No commit, and an empty list, satisfy it.
LEMMA LiveInit == Init => LiveInv
BY RealFiles DEF Init, LiveInv, CommitsLive, CopyLive, Making, RealDefs

\* What was committed keeps its live entries.
LEMMA CommitsKeepLive ==
    ASSUME TypeOK, TypeOK', RangesFit, KeepsHistory, HistoryUnharmed', CommitsLive,
           NEW i \in DOMAIN RealCommits
    PROVE  OneLive(RealIdx', RealCommits'[i].index, RealCommits'[i].length)
<1> DEFINE c == RealCommits[i]
<1>1. /\ RealIdx \in Seq(Entry) /\ RealCommits \in Seq(CommitRec) /\ c \in CommitRec
    BY RealTypes
<1>2. c.index \in Nat /\ c.length \in Nat
    BY <1>1 DEF CommitRec
<1>3. /\ RealCommits'[i].index = c.index /\ RealCommits'[i].length = c.length
      /\ Extends(RealIdx', RealIdx)
    BY DEF KeepsHistory
<1>4. c.index + c.length <= Len(RealIdx)
    BY DEF RangesFit, InIndex
<1>5. \A k \in 1 .. c.length : RealIdx'[c.index + k] = RealIdx[c.index + k]
    BY <1>1, <1>2, <1>3, <1>4 DEF Extends
<1>6. OneLive(RealIdx, c.index, c.length)
    BY DEF CommitsLive
<1> QED
    BY <1>3, <1>5, <1>6 DEF OneLive

\* The new commit has the live entries of the list it was made from.
LEMMA NewCommitLive ==
    ASSUME TypeOK, OneLive(mCopy, 0, Len(mCopy))
    PROVE  OneLive(mIdx \o mCopy, Len(mIdx), Len(mCopy))
<1>1. mIdx \in Seq(Entry) /\ mCopy \in Seq(Entry)
    BY DEF TypeOK
<1>2. \A k \in 1 .. Len(mCopy) : (mIdx \o mCopy)[Len(mIdx) + k] = mCopy[0 + k]
    BY <1>1
<1> QED
    BY <1>2 DEF OneLive

\* Every step keeps the live entries of the commits unique.
LEMMA CommitsLiveNext ==
    ASSUME TypeOK, TypeOK', HistoryInv, LiveInv, [Next]_vars, HistoryUnharmed'
    PROVE  CommitsLive'
<1>1. /\ HistoryUnharmed /\ RangesFit /\ MemoryInStep /\ KeepsHistory
      /\ CommitsLive /\ CopyLive
    BY UnharmedBefore, HistoryNext DEF HistoryInv, HistoryStep, LiveInv
<1>2. \A i \in DOMAIN RealCommits :
        OneLive(RealIdx', RealCommits'[i].index, RealCommits'[i].length)
    BY <1>1, CommitsKeepLive
<1>3. RealCommits \in Seq(CommitRec)
    BY RealTypes
<1>4. CASE DOMAIN RealCommits' = DOMAIN RealCommits
    BY <1>2, <1>4 DEF CommitsLive
<1>5. CASE TruncCommits
  <2>1. /\ pc = "packDone" /\ pc' = "commitsTrunc" /\ mIdx' = mIdx /\ mCopy' = mCopy
        /\ mCommits' = mCommits /\ mCommits = commitIdx
    BY <1>1, <1>5 DEF TruncCommits, mem, MemoryInStep
  <2>2. /\ RealCommits = mCommits /\ RealIdx' = mIdx \o mCopy /\ RealCommits' = NewCommits
    BY <2>1, RealFiles, RealFilesNext DEF RealDefs, NewCommits
  <2>3. OneLive(mIdx \o mCopy, Len(mIdx), Len(mCopy))
    BY <1>1, <2>1, NewCommitLive DEF CopyLive, Making
  <2>4. /\ Len(RealCommits') = Len(RealCommits) + 1 /\ RealCommits' \in Seq(CommitRec)
        /\ RealCommits'[Len(RealCommits) + 1].index = Len(mIdx)
        /\ RealCommits'[Len(RealCommits) + 1].length = Len(mCopy)
    BY <2>2, NewCommitsType
  <2>5. \A i \in DOMAIN RealCommits' :
            i \in DOMAIN RealCommits \/ i = Len(RealCommits) + 1
    BY <1>3, <2>4
  <2> QED
    BY <1>2, <2>2, <2>3, <2>4, <2>5 DEF CommitsLive
<1>6. CASE SameHistory
    BY <1>4, <1>6 DEF SameHistory
<1>7. CASE TruncPack
  <2>1. RealCommits' = RealCommits
    BY <1>7, RealFiles, RealFilesNext DEF TruncPack, RealDefs
  <2> QED
    BY <1>4, <2>1
<1>8. CASE Flags /\ pc = "idle"
  <2>1. RealCommits' \in Seq(CommitRec) /\ Len(RealCommits') = Len(RealCommits)
    BY <1>8, FlagsKeepRanges DEF TypeOK
  <2> QED
    BY <1>3, <1>4, <2>1
<1> QED
    BY <1>5, <1>6, <1>7, <1>8, SameHistorySteps

\* The copy loop reads entries of the commit that are in db.idx.
LEMMA CopyReadsMaster ==
    ASSUME TypeOK, HistoryInv, HistoryUnharmed, CopyEntry
    PROVE  /\ MasterLength = mCommits[Len(mCommits)].length /\ mCommits # <<>>
           /\ mCommits[Len(mCommits)] \in CommitRec
           /\ mCopy' = IF Live(MasterEntry(node)) THEN Append(mCopy, MasterEntry(node))
                       ELSE mCopy
           /\ MasterEntry(node) \in Entry
           /\ node \in 1 .. MasterLength
<1> DEFINE m == mCommits[Len(mCommits)]
<1>1. /\ RangesFit /\ mIdx = dbIdx /\ mCommits = commitIdx
      /\ pc = "copy" /\ node <= MasterLength
    BY DEF CopyEntry, HistoryInv, MemoryInStep, Making
<1>2. mCommits # <<>> /\ MasterLength = m.length /\ m \in CommitRec /\ node \in Nat \ {0}
    BY <1>1 DEF TypeOK, MasterLength
<1>3. m.index \in Nat /\ m.length \in Nat
    BY <1>2 DEF CommitRec
<1>4. InIndex(m, dbIdx)
    BY <1>1, <1>2, RealFiles DEF RangesFit, RealDefs, TypeOK
<1>5. mIdx \in Seq(Entry)
    BY DEF TypeOK
<1>6. m.index + node \in DOMAIN mIdx
    BY <1>1, <1>2, <1>3, <1>4, <1>5 DEF InIndex
<1>7. EntryAt(mIdx, m.index + node) = {MasterEntry(node)} /\ MasterEntry(node) \in Entry
    BY <1>5, <1>6 DEF EntryAt, MasterEntry
<1>8. mCopy' = IF Live(MasterEntry(node)) THEN Append(mCopy, MasterEntry(node)) ELSE mCopy
    BY <1>7 DEF CopyEntry, Live
<1> QED
    BY <1>1, <1>2, <1>3, <1>7, <1>8

\* Appending an entry whose path is not live keeps a list free of doubles.
LEMMA OneLiveAppend ==
    ASSUME NEW list \in Seq(Entry), NEW e \in Entry, OneLive(list, 0, Len(list)),
           \A i \in DOMAIN list : ~(list[i].path = e.path /\ Live(list[i]) /\ Live(e))
    PROVE  OneLive(Append(list, e), 0, Len(Append(list, e)))
<1> DEFINE new == Append(list, e)
<1>1. /\ Len(new) = Len(list) + 1 /\ new[Len(list) + 1] = e
      /\ \A i \in 1 .. Len(list) : new[i] = list[i]
      /\ DOMAIN list = 1 .. Len(list) /\ Len(list) \in Nat
    OBVIOUS
<1> HIDE DEF new
<1> SUFFICES ASSUME NEW j \in 1 .. Len(new), NEW k \in 1 .. Len(new),
                    new[j].path = new[k].path, Live(new[j]), Live(new[k])
             PROVE  j = k
    BY <1>1 DEF OneLive, new
<1>2. CASE j \in 1 .. Len(list) /\ k \in 1 .. Len(list)
    BY <1>1, <1>2 DEF OneLive
<1>3. CASE j = Len(list) + 1 /\ k \in 1 .. Len(list)
    BY <1>1, <1>3
<1>4. CASE j \in 1 .. Len(list) /\ k = Len(list) + 1
    BY <1>1, <1>4
<1> QED
    BY <1>1, <1>2, <1>3, <1>4

\* Changing an entry that is live, but for its path, keeps it so too.
LEMMA OneLiveUpdate ==
    ASSUME NEW list \in Seq(Entry), OneLive(list, 0, Len(list)),
           NEW i \in DOMAIN list, Live(list[i]),
           NEW s \in Nat, NEW l \in Nat, NEW f \in {"NEW", "MODIFIED", "DELETED"}
    PROVE  OneLive(SetEntry(list, i, s, l, f), 0, Len(SetEntry(list, i, s, l, f)))
<1> DEFINE new == SetEntry(list, i, s, l, f)
<1>0. DOMAIN list = 1 .. Len(list) /\ Len(list) \in Nat
    OBVIOUS
<1> HIDE DEF new
<1>1. /\ Len(new) = Len(list) /\ new[i].path = list[i].path
      /\ \A j \in DOMAIN list : j # i => new[j] = list[j]
  <2>1. /\ Len(SetEntry(list, i, s, l, f)) = Len(list)
        /\ SetEntry(list, i, s, l, f)[i].path = list[i].path
        /\ \A j \in DOMAIN list : j # i => SetEntry(list, i, s, l, f)[j] = list[j]
    BY EntryUpdate
  <2> QED
    BY <2>1 DEF new
<1>2. \A j \in 1 .. Len(list) :
        new[j].path = list[j].path /\ (Live(new[j]) => Live(list[j]))
    BY <1>0, <1>1
<1>3. ASSUME NEW j \in 1 .. Len(list), NEW k \in 1 .. Len(list),
             new[j].path = new[k].path, Live(new[j]), Live(new[k])
      PROVE  j = k
    BY <1>0, <1>2, <1>3 DEF OneLive
<1>4. OneLive(new, 0, Len(list))
    BY <1>0, <1>3 DEF OneLive
<1> QED
    BY <1>1, <1>4 DEF new

\* Every step keeps the list being made free of doubles.
LEMMA CopyLiveNext ==
    ASSUME TypeOK, HistoryInv, LiveInv, [Next]_vars, HistoryUnharmed'
    PROVE  CopyLive'
<1>1. HistoryUnharmed /\ CommitsLive /\ CopyLive
    BY UnharmedBefore DEF LiveInv
<1>2. mCopy \in Seq(Entry) /\ mEntries \in Seq(StageNode) /\ mPack \in Seq(Byte)
    BY DEF TypeOK
<1>3. CASE CommitBegin
    BY <1>3 DEF CommitBegin, CopyLive, OneLive, CopiedSoFar
<1>4. CASE CopyEntry
  <2> DEFINE e == MasterEntry(node)
             m == mCommits[Len(mCommits)]
  <2>1. /\ MasterLength = m.length /\ m \in CommitRec /\ mCommits # <<>>
        /\ mCopy' = IF Live(e) THEN Append(mCopy, e) ELSE mCopy
        /\ e \in Entry /\ node \in 1 .. MasterLength
    BY <1>1, <1>4, CopyReadsMaster
  <2>2. /\ pc = "copy" /\ pc' = "copy" /\ node' = node + 1
        /\ mIdx' = mIdx /\ mCommits' = mCommits
    BY <1>4 DEF CopyEntry
  <2>3. OneLive(mCopy, 0, Len(mCopy)) /\ CopiedSoFar
    BY <1>1, <2>2 DEF CopyLive, Making
  <2>4. OneLive(mIdx, m.index, m.length)
    <3>1. mCommits = commitIdx /\ mIdx = dbIdx
      BY <1>1, <2>2 DEF HistoryInv, MemoryInStep, Making
    <3>2. Len(commitIdx) \in DOMAIN commitIdx
      BY <2>1, <3>1 DEF TypeOK
    <3> QED
      BY <1>1, <2>2, <3>1, <3>2, RealFiles DEF CommitsLive, RealDefs
  <2>5. /\ MasterLength' = MasterLength
        /\ \A k \in 1 .. MasterLength : MasterEntry(k)' = MasterEntry(k)
    BY <2>2 DEF MasterLength, MasterEntry
  <2>6. m.length \in Nat
    BY <2>1 DEF CommitRec
  <2>7. ASSUME NEW j \in DOMAIN mCopy, Live(e)
        PROVE  mCopy[j].path # e.path
    <3>1. PICK k \in 1 .. MasterLength : k < node /\ mCopy[j] = MasterEntry(k)
                                          /\ Live(mCopy[j])
      BY <2>3 DEF CopiedSoFar
    <3> QED
      BY <2>1, <2>4, <2>6, <2>7, <3>1 DEF OneLive, MasterEntry
  <2>8. OneLive(mCopy', 0, Len(mCopy'))
    BY <1>2, <2>1, <2>3, <2>7, OneLiveAppend
  <2>9. CopiedSoFar'
    <3> SUFFICES ASSUME NEW j \in DOMAIN mCopy'
                 PROVE  \E k \in 1 .. MasterLength :
                          k < node + 1 /\ mCopy'[j] = MasterEntry(k) /\ Live(mCopy'[j])
      BY <2>2, <2>5 DEF CopiedSoFar
    <3>1. CASE j \in DOMAIN mCopy /\ mCopy'[j] = mCopy[j]
      <4>1. PICK k \in 1 .. MasterLength : k < node /\ mCopy[j] = MasterEntry(k)
                                            /\ Live(mCopy[j])
        BY <2>3, <3>1 DEF CopiedSoFar
      <4>2. k < node + 1
        BY <2>1, <2>6, <4>1
      <4> QED
        BY <3>1, <4>1, <4>2
    <3>2. CASE mCopy'[j] = e /\ Live(e)
      BY <2>1, <2>6, <3>2
    <3> QED
      BY <1>2, <2>1, <3>1, <3>2
  <2> QED
    BY <2>8, <2>9 DEF CopyLive
<1>5. ASSUME OneLive(mCopy', 0, Len(mCopy')), pc' # "copy" PROVE CopyLive'
    BY <1>5 DEF CopyLive
<1>6. CASE TransferNew \/ TransferDelete \/ TransferModify
  <2>1. /\ Transferring /\ pc' = "transfer" /\ OneLive(mCopy, 0, Len(mCopy))
    BY <1>1, <1>6 DEF TransferNew, TransferDelete, TransferModify, Transferring,
                      CopyLive, Making
  <2>2. mEntries[node].len \in Nat /\ mEntries[node].path \in Paths
    <3>1. mEntries[node] \in StageNode
      BY <1>2, <2>1 DEF Transferring
    <3> QED
      BY <3>1 DEF StageNode
  <2>3. CASE TransferNew
    <3> DEFINE new == [path |-> mEntries[node].path, start |-> Len(mPack),
                       len |-> mEntries[node].len, flags |-> "NEW"]
    <3>1. mCopy' = Append(mCopy, new) /\ Missing(mCopy, new.path)
      BY <2>3 DEF TransferNew
    <3>2. new \in Entry
      BY <1>2, <2>2 DEF Entry
    <3> HIDE DEF new
    <3> QED
      BY <1>2, <1>5, <2>1, <3>1, <3>2, OneLiveAppend DEF Missing, Live
  <2>4. CASE TransferDelete
    <3>1. PICK i \in DOMAIN mCopy : IsFound(mCopy, mEntries[node].path, i)
                                     /\ mCopy' = SetEntry(mCopy, i, 0, 0, "DELETED")
      BY <2>4 DEF TransferDelete
    <3> QED
      BY <1>2, <1>5, <2>1, <3>1, OneLiveUpdate DEF IsFound, Live
  <2>5. CASE TransferModify
    <3>1. PICK i \in DOMAIN mCopy :
            /\ IsFound(mCopy, mEntries[node].path, i)
            /\ mCopy' = SetEntry(mCopy, i, Len(mPack), mEntries[node].len, "MODIFIED")
      BY <2>5 DEF TransferModify
    <3>2. Len(mPack) \in Nat
      BY <1>2
    <3> QED
      BY <1>2, <1>5, <2>1, <2>2, <3>1, <3>2, OneLiveUpdate DEF IsFound, Live
  <2> QED
    BY <1>6, <2>3, <2>4, <2>5
<1>7. CASE CopyDone
    BY <1>1, <1>7 DEF CopyDone, CopyLive, Making
<1>8. CASE TruncPack \/ WritePack \/ TruncCommits \/ WriteCommits \/ TruncIndex \/ WriteIndex
    BY <1>1, <1>8 DEF TruncPack, WritePack, TruncCommits, WriteCommits, TruncIndex,
                      WriteIndex, CopyLive, Making, mem
<1>9. CASE Insert \/ CleanIdx \/ CleanPack \/ Reset \/ Flags \/ Crash
  <2>1. pc' \notin Making
    BY <1>9
    DEF Insert, InsertBegin, StageFile, TruncCachePack, WriteCachePack,
        TruncCacheIdx, WriteCacheIdx, CleanIdx, CleanPack, Reset, Flags, Tag,
        MoveHead, ResetHead, RewriteCommits, WriteFlags, Crash, Exit, Making
  <2> QED
    BY <2>1 DEF CopyLive, Making
<1>10. CASE UNCHANGED vars
    BY <1>1, <1>10 DEF vars, mem, CopyLive, CopiedSoFar, MasterLength, MasterEntry
<1> QED
    BY <1>3, <1>4, <1>6, <1>7, <1>8, <1>9, <1>10 DEF Next, Commit

\* LiveInv, together with the types and the history, is inductive.
LEMMA LiveNext ==
    TypeOK /\ TypeOK' /\ HistoryInv /\ LiveInv /\ [Next]_vars => LiveInv'
BY CommitsLiveNext, CopyLiveNext DEF LiveInv

\* The invariant of the live entries holds.
THEOREM LiveInvariant == Spec => []LiveInv
<1>1. TypeOK /\ TypeOK' /\ HistoryInv /\ LiveInv /\ [Next]_vars => LiveInv'
    BY LiveNext
<1> QED
    BY <1>1, LiveInit, TypeCorrect, HistoryInvariant, PTL DEF Spec

\* A commit holds a path at most once among its live entries, also while a
\* command rewrites the files.
THEOREM PathsLiveOnce == Spec => []OneLiveEntryPerPath
<1>1. LiveInv => OneLiveEntryPerPath
    BY DEF LiveInv, CommitsLive, OneLive, Live, OneLiveEntryPerPath
<1> QED
    BY <1>1, LiveInvariant, PTL

-----------------------------------------------------------------------------
(* HEAD is not lost *)

\* The list has a HEAD where it has the first one.
LEMMA SetHeadHas ==
    ASSUME NEW cs \in Seq(CommitRec), NEW i \in DOMAIN cs
    PROVE  HasHead(SetHead(cs, i, TRUE))
<1> DEFINE new == SetHead(cs, i, TRUE)
<1>1. new \in Seq(CommitRec) /\ Len(new) = Len(cs) /\ new[i].head
    BY FlagUpdate
<1> HIDE DEF new
<1>2. i \in DOMAIN new
    BY <1>1
<1> QED
    BY <1>1, <1>2 DEF HasHead, new

\* A commit, head, or reset that takes HEAD from a commit gives it to another
\* in the same write of commit.idx.
THEOREM HeadNeverLost == Spec => HeadKept
<1> DEFINE Kept == (HasHead(RealCommits) /\ HistoryUnharmed') =>
                        \/ HasHead(RealCommits')
                        \/ \E i \in DOMAIN commitIdx : Tag(i)
<1>1. ASSUME TypeOK, HistoryInv, [Next]_vars PROVE Kept
  <2> SUFFICES ASSUME HasHead(RealCommits), HistoryUnharmed'
               PROVE  \/ HasHead(RealCommits')
                      \/ \E i \in DOMAIN commitIdx : Tag(i)
    OBVIOUS
  <2>1. CASE SameHistory
    BY <2>1 DEF SameHistory
  <2>2. CASE TruncPack
    BY <2>2, RealFiles, RealFilesNext DEF TruncPack, RealDefs
  <2>3. CASE TruncCommits
    <3>1. RealCommits' = NewCommits
      BY <2>3, RealFilesNext DEF TruncCommits, RealDefs, mem, NewCommits
    <3>2. Len(mCommits) + 1 \in DOMAIN NewCommits /\ NewCommits[Len(mCommits) + 1].head
      <4>1. /\ NewCommits \in Seq(CommitRec) /\ Len(NewCommits) = Len(mCommits) + 1
            /\ NewCommits[Len(mCommits) + 1] =
                 [index |-> Len(mIdx), length |-> Len(mCopy), head |-> TRUE]
        BY <1>1, NewCommitsType
      <4> QED
        BY <1>1, <4>1 DEF TypeOK
    <3> QED
      BY <3>1, <3>2 DEF HasHead
  <2>4. CASE Flags /\ pc = "idle"
    <3>1. RealCommits = commitIdx /\ RealCommits' = mCommits'
      BY <1>1, <2>4, FlagsKeepRanges
    <3>2. /\ commitIdx \in Seq(CommitRec) /\ DropHead(commitIdx) \in Seq(CommitRec)
          /\ DOMAIN DropHead(commitIdx) = DOMAIN commitIdx
      BY <1>1, DropHeadType DEF TypeOK
    <3>3. CASE \E i \in DOMAIN commitIdx : MoveHead(i)
      <4>1. PICK i \in DOMAIN commitIdx :
                mCommits' = SetHead(DropHead(commitIdx), i, TRUE)
        BY <3>3 DEF MoveHead, RewriteCommits
      <4> QED
        BY <3>1, <3>2, <4>1, SetHeadHas
    <3>4. CASE ResetHead
      <4>1. mCommits' = SetHead(DropHead(commitIdx), Len(commitIdx), TRUE)
            /\ commitIdx # <<>>
        BY <3>4 DEF ResetHead, RewriteCommits
      <4>2. Len(commitIdx) \in DOMAIN DropHead(commitIdx)
        BY <3>2, <4>1
      <4> QED
        BY <3>1, <3>2, <4>1, <4>2, SetHeadHas
    <3> QED
      BY <2>4, <3>3, <3>4 DEF Flags, WriteFlags
  <2> QED
    BY <1>1, <2>1, <2>2, <2>3, <2>4, SameHistorySteps
<1>2. TypeOK /\ HistoryInv /\ [Next]_vars => [Kept]_vars
    BY <1>1
<1> HIDE DEF Kept
<1>3. Spec => [][Kept]_vars
    BY <1>2, TypeCorrect, HistoryInvariant, PTL DEF Spec
<1> QED
    BY <1>3 DEF Kept, HeadKept

-----------------------------------------------------------------------------
(* The files implement the abstract store *)

(***************************************************************************)
(* What a commit has in memory.  The refinement needs to know that, when   *)
(* commit.idx is emptied, the list being made is the master commit         *)
(* overlaid with the stage.  Path by path: a path whose node has been      *)
(* transferred has what its node says, the others what the master has.     *)
(***************************************************************************)
Overlaying == {"transfer", "packTrunc", "packDone"}

LiveSet(list) == {list[i] : i \in {j \in DOMAIN list : Live(list[j])}}

MasterLive == {MasterEntry(k) : k \in {l \in 1 .. MasterLength : Live(MasterEntry(l))}}

Versions(entries, p) == {e \in entries : e.path = p}

\* The node of p was transferred.
Overlaid(p) ==
    \E k \in DOMAIN mEntries :
        /\ k < node /\ mEntries[k].path = p
        /\ IF mEntries[k].deleted /\ Versions(MasterLive, p) # {}
           THEN Versions(LiveSet(mCopy), p) = {}
           ELSE \E e \in Versions(LiveSet(mCopy), p) :
                   Slice(mPack, e.start, e.len)
                       = Slice(mCache, mEntries[k].start, mEntries[k].len)

\* p is not staged, or its node is still to be transferred.
Untouched(p) ==
    /\ \A k \in DOMAIN mEntries : k < node => mEntries[k].path # p
    /\ Versions(LiveSet(mCopy), p) = Versions(MasterLive, p)

CopyInv ==
    (HistoryUnharmed /\ StageUnharmed) =>
        /\ pc = "copy" =>
              \A k \in 1 .. MasterLength :
                  k < node /\ Live(MasterEntry(k))
                      => \E j \in DOMAIN mCopy : mCopy[j] = MasterEntry(k)
        /\ pc \in {"packTrunc", "packDone"} => node > Len(mEntries)
        /\ pc \in Overlaying =>
              \A p \in Paths \union {NoPath} : Overlaid(p) \/ Untouched(p)

-----------------------------------------------------------------------------
(* Lemmas on lists of entries *)

\* The live entries after one more entry.
LEMMA LiveSetAppend ==
    ASSUME NEW list \in Seq(Entry), NEW e \in Entry
    PROVE  LiveSet(Append(list, e)) = LiveSet(list) \union (IF Live(e) THEN {e} ELSE {})
<1> DEFINE new == Append(list, e)
<1>1. /\ DOMAIN new = 1 .. Len(list) + 1 /\ DOMAIN list = 1 .. Len(list)
      /\ new[Len(list) + 1] = e /\ \A i \in 1 .. Len(list) : new[i] = list[i]
      /\ Len(list) \in Nat
    OBVIOUS
<1> HIDE DEF new
<1>2. ASSUME NEW x \in LiveSet(new)
      PROVE  x \in LiveSet(list) \union (IF Live(e) THEN {e} ELSE {})
    BY <1>1 DEF LiveSet
<1>3. ASSUME NEW x \in LiveSet(list) PROVE x \in LiveSet(new)
    BY <1>1 DEF LiveSet
<1>4. Live(e) => e \in LiveSet(new)
    BY <1>1 DEF LiveSet
<1> QED
    BY <1>2, <1>3, <1>4 DEF new

\* Changing a live entry but for its path leaves the versions of other paths;
\* its own path has the new entry as its only version, or none.
LEMMA LiveSetUpdate ==
    ASSUME NEW list \in Seq(Entry), OneLive(list, 0, Len(list)),
           NEW i \in DOMAIN list, Live(list[i]),
           NEW new \in Seq(Entry), Len(new) = Len(list),
           new[i].path = list[i].path,
           \A j \in DOMAIN list : j # i => new[j] = list[j]
    PROVE  /\ \A p : p # list[i].path =>
                Versions(LiveSet(new), p) = Versions(LiveSet(list), p)
           /\ Versions(LiveSet(new), list[i].path)
                = IF Live(new[i]) THEN {new[i]} ELSE {}
<1>1. DOMAIN list = 1 .. Len(list) /\ Len(list) \in Nat /\ DOMAIN new = DOMAIN list
    OBVIOUS
<1>2. ASSUME NEW p, p # list[i].path
      PROVE  Versions(LiveSet(new), p) = Versions(LiveSet(list), p)
  <2>1. ASSUME NEW e \in Versions(LiveSet(new), p)
        PROVE  e \in Versions(LiveSet(list), p)
    BY <1>1, <1>2, <2>1 DEF Versions, LiveSet
  <2>2. ASSUME NEW e \in Versions(LiveSet(list), p)
        PROVE  e \in Versions(LiveSet(new), p)
    BY <1>1, <1>2, <2>2 DEF Versions, LiveSet
  <2> QED
    BY <2>1, <2>2
<1>3. ASSUME NEW j \in DOMAIN list, j # i, Live(list[j]) PROVE list[j].path # list[i].path
    BY <1>1, <1>3 DEF OneLive
<1>4. ASSUME NEW e \in Versions(LiveSet(new), list[i].path)
      PROVE  e = new[i] /\ Live(new[i])
  <2>1. PICK j \in DOMAIN list : e = new[j] /\ Live(new[j]) /\ e.path = list[i].path
    BY <1>1 DEF Versions, LiveSet
  <2>2. j = i
    BY <1>3, <2>1
  <2> QED
    BY <2>1, <2>2
<1>5. Live(new[i]) => new[i] \in Versions(LiveSet(new), list[i].path)
    BY <1>1 DEF Versions, LiveSet
<1> QED
    BY <1>2, <1>4, <1>5

\* In a list where no path is live twice a path has one version at most.
LEMMA OneVersion ==
    ASSUME NEW list \in Seq(Entry), OneLive(list, 0, Len(list)), NEW p,
           NEW d \in Versions(LiveSet(list), p), NEW e \in Versions(LiveSet(list), p)
    PROVE  d = e
<1>1. PICK i \in DOMAIN list : d = list[i] /\ Live(list[i]) /\ list[i].path = p
    BY DEF Versions, LiveSet
<1>2. PICK j \in DOMAIN list : e = list[j] /\ Live(list[j]) /\ list[j].path = p
    BY DEF Versions, LiveSet
<1>3. DOMAIN list = 1 .. Len(list) /\ Len(list) \in Nat
    OBVIOUS
<1>4. i = j
    BY <1>1, <1>2, <1>3 DEF OneLive
<1> QED
    BY <1>1, <1>2, <1>4

-----------------------------------------------------------------------------
(* The invariant of the list being made is inductive *)

\* No commit is under way at first.
LEMMA CopyInit == Init => CopyInv
BY DEF Init, CopyInv, Overlaying

\* When every entry was met, the live ones of the master are in the list.
LEMMA CopyDoneOverlay ==
    ASSUME TypeOK, LiveInv, CopyInv, HistoryUnharmed, StageUnharmed, CopyDone
    PROVE  \A p \in Paths \union {NoPath} : Untouched(p)'
<1>1. /\ pc = "copy" /\ node > MasterLength /\ node' = 1 /\ mCopy' = mCopy
      /\ mEntries' = mEntries /\ mIdx' = mIdx /\ mCommits' = mCommits
    BY DEF CopyDone
<1>2. CopiedSoFar
    BY <1>1 DEF LiveInv, CopyLive
<1>3. \A k \in 1 .. MasterLength : Live(MasterEntry(k))
            => \E j \in DOMAIN mCopy : mCopy[j] = MasterEntry(k)
  <2>1. MasterLength \in Nat /\ node \in Nat
    <3>1. mCommits # <<>> => mCommits[Len(mCommits)] \in CommitRec
      BY DEF TypeOK
    <3> QED
      BY <3>1 DEF MasterLength, CommitRec, TypeOK
  <2> QED
    BY <1>1, <2>1 DEF CopyInv
<1>4. LiveSet(mCopy) = MasterLive
  <2>1. ASSUME NEW e \in LiveSet(mCopy) PROVE e \in MasterLive
    BY <1>2 DEF LiveSet, MasterLive, CopiedSoFar
  <2>2. ASSUME NEW e \in MasterLive PROVE e \in LiveSet(mCopy)
    BY <1>3 DEF LiveSet, MasterLive
  <2> QED
    BY <2>1, <2>2
<1>5. LiveSet(mCopy)' = LiveSet(mCopy) /\ MasterLive' = MasterLive
    BY <1>1 DEF LiveSet, MasterLive, MasterLength, MasterEntry
<1>6. \A k \in DOMAIN mEntries : ~(k < 1)
    BY DEF TypeOK
<1> QED
    BY <1>1, <1>4, <1>5, <1>6 DEF Untouched, Versions

\* One turn of the transfer: the versions of the staged path become what the
\* node says, the others stay, and so do the bytes they name.
LEMMA TransferOverlay ==
    ASSUME TypeOK, HistoryInv, StageInv, LiveInv, CopyInv,
           HistoryUnharmed, StageUnharmed,
           TransferNew \/ TransferDelete \/ TransferModify
    PROVE  \A p \in Paths \union {NoPath} : Overlaid(p)' \/ Untouched(p)'
<1> DEFINE n == mEntries[node]
           grown == mPack \o Slice(mCache, n.start, n.len)
           old == LiveSet(mCopy)
           new == LiveSet(mCopy')
<1>1. /\ Transferring /\ pc = "transfer" /\ node \in DOMAIN mEntries /\ node' = node + 1
      /\ mEntries' = mEntries /\ mCache' = mCache /\ mIdx' = mIdx /\ mCommits' = mCommits
    BY DEF TransferNew, TransferDelete, TransferModify, Transferring
<1>2. /\ CopyFits /\ OneLive(mCopy, 0, Len(mCopy))
      /\ \A p \in Paths \union {NoPath} : Overlaid(p) \/ Untouched(p)
    BY <1>1 DEF HistoryInv, LiveInv, CopyLive, Making, CopyInv, Overlaying
<1>3. \A i, j \in DOMAIN mEntries : mEntries[i].path = mEntries[j].path => i = j
  <2>1. StageGood(cacheIdx, cachePack) /\ mEntries = cacheIdx
    BY <1>1 DEF StageInv, Making, RealCachePack
  <2> QED
    BY <2>1 DEF StageGood
<1>4. /\ mCopy \in Seq(Entry) /\ mPack \in Seq(Byte) /\ mCache \in Seq(Byte)
      /\ mEntries \in Seq(StageNode) /\ node \in Nat /\ Len(mPack) \in Nat
    BY DEF TypeOK
<1>5. n \in StageNode /\ n.path \in Paths /\ n.start \in Nat /\ n.len \in Nat
  <2>1. n \in StageNode
    BY <1>1, <1>4
  <2> QED
    BY <2>1 DEF StageNode
<1>6. grown \in Seq(Byte) /\ Extends(grown, mPack)
      /\ Slice(grown, Len(mPack), n.len) = Slice(mCache, n.start, n.len)
  <2> DEFINE sl == Slice(mCache, n.start, n.len)
  <2>1. sl \in Seq(Byte) /\ Len(sl) = n.len
    BY <1>4, <1>5, SliceType
  <2> HIDE DEF sl
  <2>2. mPack \o sl \in Seq(Byte) /\ Extends(mPack \o sl, mPack)
        /\ Slice(mPack \o sl, Len(mPack), Len(sl)) = sl
    BY <1>4, <2>1, ExtendsConcat, SliceAppended
  <2> QED
    BY <2>1, <2>2 DEF sl
<1>7. mPack' \in Seq(Byte) /\ Extends(mPack', mPack)
  <2>1. mPack' = mPack \/ mPack' = grown
    BY DEF TransferNew, TransferDelete, TransferModify, AppendBytes
  <2> QED
    BY <1>4, <1>6, <2>1, ExtendsSelf
<1>8. \A e \in old : Slice(mPack', e.start, e.len) = Slice(mPack, e.start, e.len)
  <2> SUFFICES ASSUME NEW e \in old
               PROVE  Slice(mPack', e.start, e.len) = Slice(mPack, e.start, e.len)
    OBVIOUS
  <2>1. PICK i \in DOMAIN mCopy : e = mCopy[i]
    BY DEF LiveSet
  <2>2. e \in Entry /\ InPack(e, mPack)
    BY <1>1, <1>2, <1>4, <2>1 DEF CopyFits, Making
  <2>3. e.start \in Nat /\ e.len \in Nat
    BY <2>2 DEF Entry
  <2> QED
    BY <1>4, <1>7, <2>2, <2>3, SliceKept DEF InPack
<1>9. MasterLive' = MasterLive /\ LiveSet(mCopy)' = new
    BY <1>1 DEF MasterLive, MasterLength, MasterEntry, LiveSet
<1>10. Versions(old, n.path) = Versions(MasterLive, n.path)
  <2>1. ~Overlaid(n.path)
    BY <1>1, <1>3, <1>4 DEF Overlaid
  <2> QED
    BY <1>2, <1>5, <2>1 DEF Untouched
<1>11. /\ \A p : p # n.path => Versions(new, p) = Versions(old, p)
       /\ IF n.deleted /\ Versions(old, n.path) # {}
          THEN Versions(new, n.path) = {}
          ELSE \E e \in Versions(new, n.path) :
                  Slice(mPack', e.start, e.len) = Slice(mCache, n.start, n.len)
  <2>1. CASE TransferNew
    <3> DEFINE e == [path |-> n.path, start |-> Len(mPack), len |-> n.len,
                     flags |-> "NEW"]
    <3>1. mCopy' = Append(mCopy, e) /\ mPack' = grown /\ Missing(mCopy, n.path)
      BY <2>1 DEF TransferNew, AppendBytes
    <3>2. /\ e \in Entry /\ Live(e) /\ e.path = n.path
          /\ e.start = Len(mPack) /\ e.len = n.len
      BY <1>4, <1>5 DEF Entry, Live
    <3> HIDE DEF e
    <3>3. new = old \union {e}
      BY <1>4, <3>1, <3>2, LiveSetAppend
    <3>4. Versions(old, n.path) = {}
      BY <3>1 DEF Versions, LiveSet, Missing, Live
    <3>5. e \in Versions(new, n.path) /\ Slice(mPack', e.start, e.len)
                                            = Slice(mCache, n.start, n.len)
      BY <1>6, <3>1, <3>2, <3>3 DEF Versions
    <3>6. \A p : p # n.path => Versions(new, p) = Versions(old, p)
      BY <3>2, <3>3 DEF Versions
    <3> QED
      BY <3>4, <3>5, <3>6
  <2>2. CASE TransferDelete
    <3>1. PICK i \in DOMAIN mCopy : /\ n.deleted /\ IsFound(mCopy, n.path, i)
                                     /\ mCopy' = SetEntry(mCopy, i, 0, 0, "DELETED")
      BY <2>2 DEF TransferDelete
    <3>2. Live(mCopy[i]) /\ mCopy[i].path = n.path
      BY <3>1 DEF IsFound, Live
    <3>3. mCopy[i] \in Versions(old, n.path)
      BY <3>2 DEF Versions, LiveSet
    <3>4. /\ \A p : p # n.path => Versions(new, p) = Versions(old, p)
          /\ Versions(new, n.path) = {}
      <4>1. /\ mCopy' \in Seq(Entry) /\ Len(mCopy') = Len(mCopy)
            /\ mCopy'[i].path = mCopy[i].path /\ mCopy'[i].flags = "DELETED"
            /\ \A j \in DOMAIN mCopy : j # i => mCopy'[j] = mCopy[j]
        <5> DEFINE none == 0
        <5>1. none \in Nat /\ mCopy' = SetEntry(mCopy, i, none, none, "DELETED")
          BY <3>1
        <5> HIDE DEF none
        <5> QED
          BY <1>4, <5>1, EntryUpdate
      <4>2. ~Live(mCopy'[i])
        BY <4>1 DEF Live
      <4>3. /\ \A p : p # mCopy[i].path =>
                  Versions(LiveSet(mCopy'), p) = Versions(LiveSet(mCopy), p)
            /\ Versions(LiveSet(mCopy'), mCopy[i].path)
                  = IF Live(mCopy'[i]) THEN {mCopy'[i]} ELSE {}
        BY <1>2, <1>4, <3>2, <4>1, LiveSetUpdate
      <4> QED
        BY <3>2, <4>2, <4>3
    <3> QED
      BY <3>1, <3>3, <3>4
  <2>3. CASE TransferModify
    <3>1. PICK i \in DOMAIN mCopy :
            /\ ~n.deleted /\ IsFound(mCopy, n.path, i) /\ mPack' = grown
            /\ mCopy' = SetEntry(mCopy, i, Len(mPack), n.len, "MODIFIED")
      BY <2>3 DEF TransferModify, AppendBytes
    <3>2. Live(mCopy[i]) /\ mCopy[i].path = n.path
      BY <3>1 DEF IsFound, Live
    <3>3. /\ \A p : p # n.path => Versions(new, p) = Versions(old, p)
          /\ Versions(new, n.path) = {mCopy'[i]}
          /\ mCopy'[i].start = Len(mPack) /\ mCopy'[i].len = n.len
      <4>1. Len(mPack) \in Nat /\ n.len \in Nat
        BY <1>4, <1>5
      <4>2. /\ mCopy' \in Seq(Entry) /\ Len(mCopy') = Len(mCopy)
            /\ mCopy'[i].path = mCopy[i].path /\ mCopy'[i].flags = "MODIFIED"
            /\ mCopy'[i].start = Len(mPack) /\ mCopy'[i].len = n.len
            /\ \A j \in DOMAIN mCopy : j # i => mCopy'[j] = mCopy[j]
        BY <1>4, <3>1, <4>1, EntryUpdate
      <4>3. Live(mCopy'[i])
        BY <4>2 DEF Live
      <4> QED
        BY <1>2, <1>4, <3>2, <4>2, <4>3, LiveSetUpdate
    <3> QED
      BY <1>6, <3>1, <3>3
  <2> QED
    BY <2>1, <2>2, <2>3
<1> HIDE DEF old, new, grown
<1>12. ASSUME NEW p, p = n.path PROVE Overlaid(p)'
  <2>1. node < node'
    BY <1>1, <1>4
  <2> QED
    BY <1>1, <1>9, <1>10, <1>11, <1>12, <2>1 DEF Overlaid
<1>13. ASSUME NEW p \in Paths \union {NoPath}, p # n.path
       PROVE  Overlaid(p)' \/ Untouched(p)'
  <2>1. Versions(new, p) = Versions(old, p)
    BY <1>11, <1>13
  <2>2. \A k \in DOMAIN mEntries : k < node' <=> k < node \/ k = node
    BY <1>1, <1>4
  <2>3. CASE Overlaid(p)
    <3>1. PICK k \in DOMAIN mEntries :
            /\ k < node /\ mEntries[k].path = p
            /\ IF mEntries[k].deleted /\ Versions(MasterLive, p) # {}
               THEN Versions(old, p) = {}
               ELSE \E e \in Versions(old, p) :
                       Slice(mPack, e.start, e.len)
                           = Slice(mCache, mEntries[k].start, mEntries[k].len)
      BY <2>3 DEF Overlaid, old
    <3>2. \A e \in Versions(old, p) :
            Slice(mPack', e.start, e.len) = Slice(mPack, e.start, e.len)
      BY <1>8 DEF Versions
    <3> QED
      BY <1>1, <1>9, <2>1, <2>2, <3>1, <3>2 DEF Overlaid
  <2>4. CASE Untouched(p)
    BY <1>1, <1>9, <1>13, <2>1, <2>2, <2>4 DEF Untouched, old
  <2> QED
    BY <1>2, <2>3, <2>4
<1> QED
    BY <1>12, <1>13

\* One turn of the copy loop: an entry behind it is in the list if it is live.
LEMMA CopyEntryCopies ==
    ASSUME TypeOK, HistoryInv, LiveInv, CopyInv, HistoryUnharmed, StageUnharmed,
           CopyEntry
    PROVE  \A k \in 1 .. MasterLength' :
               k < node' /\ Live(MasterEntry(k))'
                   => \E j \in DOMAIN mCopy' : mCopy'[j] = MasterEntry(k)'
<1> DEFINE e == MasterEntry(node)
<1>1. /\ pc = "copy" /\ node' = node + 1 /\ mIdx' = mIdx /\ mCommits' = mCommits
    BY DEF CopyEntry
<1>2. /\ mCopy' = IF Live(e) THEN Append(mCopy, e) ELSE mCopy
      /\ e \in Entry /\ mCopy \in Seq(Entry) /\ node \in Nat
      /\ MasterLength = mCommits[Len(mCommits)].length
      /\ mCommits[Len(mCommits)] \in CommitRec
    BY CopyReadsMaster DEF TypeOK
<1>3. MasterLength' = MasterLength /\ MasterLength \in Nat
    BY <1>1, <1>2 DEF MasterLength, CommitRec
<1> HIDE DEF e
<1>4. /\ Live(e) => \E j \in DOMAIN mCopy' : mCopy'[j] = e
      /\ \A j \in DOMAIN mCopy : j \in DOMAIN mCopy' /\ mCopy'[j] = mCopy[j]
  <2>1. CASE Live(e)
    <3>1. /\ mCopy' = Append(mCopy, e) /\ Len(mCopy) + 1 \in DOMAIN mCopy'
          /\ mCopy'[Len(mCopy) + 1] = e
          /\ \A j \in DOMAIN mCopy : j \in DOMAIN mCopy' /\ mCopy'[j] = mCopy[j]
      BY <1>2, <2>1
    <3> QED
      BY <3>1
  <2>2. CASE ~Live(e)
    BY <1>2, <2>2
  <2> QED
    BY <2>1, <2>2
<1>5. ASSUME NEW k \in 1 .. MasterLength, k < node + 1, Live(MasterEntry(k))
      PROVE  \E j \in DOMAIN mCopy' : mCopy'[j] = MasterEntry(k)
  <2>1. CASE k < node
    <3>1. PICK j \in DOMAIN mCopy : mCopy[j] = MasterEntry(k)
      BY <1>1, <1>5, <2>1 DEF CopyInv
    <3> QED
      BY <1>4, <3>1
  <2>2. CASE k = node
    BY <1>4, <1>5, <2>2 DEF e
  <2> QED
    BY <1>2, <1>3, <1>5, <2>1, <2>2
<1>6. \A k : MasterEntry(k)' = MasterEntry(k)
    BY <1>1 DEF MasterEntry
<1> QED
    BY <1>1, <1>3, <1>5, <1>6 DEF Live

\* The invariant of the list being made is inductive.
LEMMA CopyNext ==
    TypeOK /\ HistoryInv /\ StageInv /\ LiveInv /\ CopyInv /\ [Next]_vars => CopyInv'
<1> SUFFICES ASSUME TypeOK, HistoryInv, StageInv, LiveInv, CopyInv, [Next]_vars,
                    HistoryUnharmed', StageUnharmed'
             PROVE  CopyInv'
    BY DEF CopyInv
<1>1. HistoryUnharmed /\ StageUnharmed
    BY UnharmedBefore, StageUnharmedBefore
<1>2. CASE CommitBegin
    BY <1>2 DEF CommitBegin, CopyInv, Overlaying
<1>3. CASE CopyEntry
  <2>1. pc' = "copy"
    BY <1>3 DEF CopyEntry
  <2> QED
    BY <1>1, <1>3, <2>1, CopyEntryCopies DEF CopyInv, Overlaying
<1>4. CASE CopyDone
  <2>1. pc' = "transfer"
    BY <1>4 DEF CopyDone
  <2> QED
    BY <1>1, <1>4, <2>1, CopyDoneOverlay DEF CopyInv, Overlaying
<1>5. CASE TransferNew \/ TransferDelete \/ TransferModify
  <2>1. pc' = "transfer"
    BY <1>5 DEF TransferNew, TransferDelete, TransferModify, Transferring
  <2> QED
    BY <1>1, <1>5, <2>1, TransferOverlay DEF CopyInv, Overlaying
<1>6. CASE TruncPack \/ WritePack \/ UNCHANGED vars
  <2>1. UNCHANGED mem
    BY <1>6 DEF TruncPack, WritePack, vars
  <2>2. /\ pc' \in {"packTrunc", "packDone"} => node > Len(mEntries)
        /\ pc' \in Overlaying => pc \in Overlaying
        /\ pc' = "copy" => pc = "copy"
    BY <1>1, <1>6 DEF TruncPack, WritePack, vars, CopyInv, Overlaying
  <2>3. ASSUME NEW p
        PROVE  (Overlaid(p) => Overlaid(p)') /\ (Untouched(p) => Untouched(p)')
    BY <2>1 DEF mem, Overlaid, Untouched, Versions, LiveSet, MasterLive,
                MasterLength, MasterEntry
  <2>4. pc' = "copy" =>
            \A k \in 1 .. MasterLength' :
                k < node' /\ Live(MasterEntry(k))'
                    => \E j \in DOMAIN mCopy' : mCopy'[j] = MasterEntry(k)'
    BY <1>1, <2>1, <2>2 DEF mem, CopyInv, MasterLength, MasterEntry, Live
  <2>5. pc' \in Overlaying => \A p \in Paths \union {NoPath} : Overlaid(p)' \/ Untouched(p)'
    BY <1>1, <2>2, <2>3 DEF CopyInv
  <2> QED
    BY <2>1, <2>2, <2>4, <2>5 DEF CopyInv, mem
<1>7. CASE Insert \/ TruncCommits \/ WriteCommits \/ TruncIndex \/ WriteIndex \/ CleanIdx
           \/ CleanPack \/ Reset \/ Flags \/ Crash
  <2>1. pc' # "copy" /\ pc' \notin Overlaying
    BY <1>7
    DEF Insert, InsertBegin, StageFile, TruncCachePack, WriteCachePack,
        TruncCacheIdx, WriteCacheIdx, TruncCommits, WriteCommits, TruncIndex,
        WriteIndex, CleanIdx, CleanPack, Reset, Flags, Tag, MoveHead, ResetHead,
        RewriteCommits, WriteFlags, Crash, Exit, Overlaying
  <2> QED
    BY <2>1 DEF CopyInv, Overlaying
<1> QED
    BY <1>2, <1>3, <1>4, <1>5, <1>6, <1>7 DEF Next, Commit

\* The invariant of the list being made holds.
LEMMA CopyInvariant == Spec => []CopyInv
BY CopyInit, CopyNext, TypeCorrect, HistoryInvariant, StageInvariant, LiveInvariant,
   PTL DEF Spec

-----------------------------------------------------------------------------
(***************************************************************************)
(* The abstract state, as functions of the files it is read from.          *)
(***************************************************************************)
LiveIn(idx, c) ==
    {idx[j] : j \in {i \in c.index + 1 .. c.index + c.length : Live(idx[i])}}

Version(entries, p) == CHOOSE e \in entries : e.path = p

SnapOf(entries, pack) ==
    [p \in {e.path : e \in entries} |->
        Slice(pack, Version(entries, p).start, Version(entries, p).len)]

NodeOf(nodes, p) == CHOOSE i \in DOMAIN nodes : nodes[i].path = p

StageOf(nodes, pack) ==
    [p \in {nodes[i].path : i \in DOMAIN nodes} |->
        [content |-> Slice(pack, nodes[NodeOf(nodes, p)].start,
                                 nodes[NodeOf(nodes, p)].len),
         deleted |-> nodes[NodeOf(nodes, p)].deleted]]

AbstractDefs ==
    /\ History = [i \in DOMAIN RealCommits |->
                    SnapOf(LiveIn(RealIdx, RealCommits[i]), RealPack)]
    /\ Stage = StageOf(RealCacheIdx, RealCachePack)

\* They are what PegStoreRefinement defines.
LEMMA AbstractState == AbstractDefs
<1>1. ASSUME NEW c PROVE Snapshot(c) = SnapOf(LiveIn(RealIdx, c), RealPack)
    BY DEF Snapshot, LiveEntries, SnapOf, LiveIn, Live, Version
<1>2. Stage = StageOf(RealCacheIdx, RealCachePack)
    BY DEF Stage, StageOf, NodeOf
<1> QED
    BY <1>1, <1>2 DEF History, AbstractDefs

\* The same of the next state.
LEMMA AbstractStateNext == AbstractDefs'
BY AbstractState, PTL

RealTypesOK ==
    /\ RealPack \in Seq(Byte) /\ RealIdx \in Seq(Entry)
    /\ RealCommits \in Seq(CommitRec)

\* What the files stand for has its type, in the next state too.
LEMMA RealTypesBoth == (TypeOK => RealTypesOK) /\ (TypeOK' => RealTypesOK')
<1>1. TypeOK => RealTypesOK
    BY RealTypes DEF RealTypesOK
<1> QED
    BY <1>1, PTL

\* The version of a path is an entry of that path.
LEMMA VersionHas ==
    ASSUME NEW entries, NEW p, Versions(entries, p) # {}
    PROVE  Version(entries, p) \in Versions(entries, p)
<1>1. \E e \in entries : e.path = p
    BY DEF Versions
<1>2. Version(entries, p) \in entries /\ Version(entries, p).path = p
    BY <1>1 DEF Version
<1> QED
    BY <1>2 DEF Versions

\* What a staged node stands for, where no path is staged twice.
LEMMA StageAt ==
    ASSUME NEW nodes, NEW pack, NEW i \in DOMAIN nodes,
           \A j, k \in DOMAIN nodes : nodes[j].path = nodes[k].path => j = k
    PROVE  /\ nodes[i].path \in DOMAIN StageOf(nodes, pack)
           /\ StageOf(nodes, pack)[nodes[i].path] =
                [content |-> Slice(pack, nodes[i].start, nodes[i].len),
                 deleted |-> nodes[i].deleted]
<1>1. NodeOf(nodes, nodes[i].path) = i
  <2>1. \E k \in DOMAIN nodes : nodes[k].path = nodes[i].path
    OBVIOUS
  <2>2. NodeOf(nodes, nodes[i].path) \in DOMAIN nodes
        /\ nodes[NodeOf(nodes, nodes[i].path)].path = nodes[i].path
    BY <2>1 DEF NodeOf
  <2> QED
    BY <2>2
<1> QED
    BY <1>1 DEF StageOf

\* A commit reads back the same snapshot from files that extend those that
\* held it.
LEMMA SnapKept ==
    ASSUME NEW idx \in Seq(Entry), NEW idx2 \in Seq(Entry), Extends(idx2, idx),
           NEW pack \in Seq(Byte), NEW pack2 \in Seq(Byte), Extends(pack2, pack),
           \A j \in DOMAIN idx : InPack(idx[j], pack),
           NEW c \in CommitRec, NEW d \in CommitRec, InIndex(c, idx),
           d.index = c.index, d.length = c.length
    PROVE  SnapOf(LiveIn(idx2, d), pack2) = SnapOf(LiveIn(idx, c), pack)
<1>1. c.index \in Nat /\ c.length \in Nat
    BY DEF CommitRec
<1>2. \A j \in c.index + 1 .. c.index + c.length : j \in DOMAIN idx /\ idx2[j] = idx[j]
    BY <1>1 DEF InIndex, Extends
<1>3. LiveIn(idx2, d) = LiveIn(idx, c)
    BY <1>2 DEF LiveIn
<1> DEFINE live == LiveIn(idx, c)
<1>4. ASSUME NEW e \in live PROVE Slice(pack2, e.start, e.len) = Slice(pack, e.start, e.len)
  <2>1. e \in Entry /\ InPack(e, pack)
    BY <1>2 DEF LiveIn
  <2>2. e.start \in Nat /\ e.len \in Nat
    BY <2>1 DEF Entry
  <2> QED
    BY <2>1, <2>2, SliceKept DEF InPack
<1> HIDE DEF live
<1>5. ASSUME NEW p \in {e.path : e \in live} PROVE Version(live, p) \in live
    BY <1>5, VersionHas DEF Versions
<1>6. SnapOf(live, pack2) = SnapOf(live, pack)
    BY <1>4, <1>5 DEF SnapOf
<1> QED
    BY <1>3, <1>6 DEF live

\* Until a commit empties commit.idx no step changes what is read back.
LEMMA HistorySame ==
    ASSUME TypeOK, TypeOK', HistoryInv, [Next]_vars, HistoryUnharmed', ~TruncCommits
    PROVE  History' = History
<1>1. KeepsHistory /\ RangesFit
    BY UnharmedBefore, HistoryNext DEF HistoryStep, HistoryInv
<1>2. /\ RealIdx \in Seq(Entry) /\ RealPack \in Seq(Byte) /\ RealCommits \in Seq(CommitRec)
      /\ RealIdx' \in Seq(Entry) /\ RealPack' \in Seq(Byte)
      /\ RealCommits' \in Seq(CommitRec)
    BY RealTypesBoth DEF RealTypesOK
<1>3. DOMAIN RealCommits' = DOMAIN RealCommits
  <2>1. CASE SameHistory
    BY <2>1 DEF SameHistory
  <2>2. CASE TruncPack
    BY <2>2, RealFiles, RealFilesNext DEF TruncPack, RealDefs
  <2>3. CASE Flags /\ pc = "idle"
    BY <1>2, <2>3, FlagsKeepRanges
  <2> QED
    BY <2>1, <2>2, <2>3, SameHistorySteps
<1>4. ASSUME NEW i \in DOMAIN RealCommits
      PROVE  SnapOf(LiveIn(RealIdx', RealCommits'[i]), RealPack')
                = SnapOf(LiveIn(RealIdx, RealCommits[i]), RealPack)
  <2>1. RealCommits[i] \in CommitRec /\ RealCommits'[i] \in CommitRec
    BY <1>2, <1>3
  <2>2. /\ Extends(RealIdx', RealIdx) /\ Extends(RealPack', RealPack)
        /\ RealCommits'[i].index = RealCommits[i].index
        /\ RealCommits'[i].length = RealCommits[i].length
    BY <1>1 DEF KeepsHistory
  <2>3. InIndex(RealCommits[i], RealIdx) /\ \A j \in DOMAIN RealIdx : InPack(RealIdx[j], RealPack)
    BY <1>1 DEF RangesFit
  <2> DEFINE idx == RealIdx
             idx2 == RealIdx'
             pack == RealPack
             pack2 == RealPack'
             c == RealCommits[i]
             d == RealCommits'[i]
  <2>4. /\ idx \in Seq(Entry) /\ idx2 \in Seq(Entry) /\ Extends(idx2, idx)
        /\ pack \in Seq(Byte) /\ pack2 \in Seq(Byte) /\ Extends(pack2, pack)
        /\ \A j \in DOMAIN idx : InPack(idx[j], pack)
        /\ c \in CommitRec /\ d \in CommitRec /\ InIndex(c, idx)
        /\ d.index = c.index /\ d.length = c.length
    BY <1>2, <2>1, <2>2, <2>3
  <2> HIDE DEF idx, idx2, pack, pack2, c, d
  <2>5. SnapOf(LiveIn(idx2, d), pack2) = SnapOf(LiveIn(idx, c), pack)
    BY ONLY <2>4, SnapKept
  <2> QED
    BY <2>5 DEF idx, idx2, pack, pack2, c, d
<1>5. History' = [i \in DOMAIN RealCommits' |->
                    SnapOf(LiveIn(RealIdx', RealCommits'[i]), RealPack')]
    BY AbstractStateNext DEF AbstractDefs
<1> QED
    BY <1>3, <1>4, <1>5, AbstractState DEF AbstractDefs

-----------------------------------------------------------------------------
(* The steps of the stage *)

\* Nothing is staged in an empty cache.idx.
LEMMA EmptyStage == ASSUME NEW pack PROVE StageOf(<<>>, pack) = VS!Nothing
BY DEF StageOf, VS!Nothing

\* A stage is read from a pack that grew as it was.
LEMMA StageKept ==
    ASSUME NEW nodes \in Seq(StageNode), NEW pack \in Seq(Byte),
           NEW pack2 \in Seq(Byte), Extends(pack2, pack), StageGood(nodes, pack)
    PROVE  StageOf(nodes, pack2) = StageOf(nodes, pack)
<1>1. ASSUME NEW i \in DOMAIN nodes
      PROVE  Slice(pack2, nodes[i].start, nodes[i].len)
                = Slice(pack, nodes[i].start, nodes[i].len)
  <2>1. nodes[i] \in StageNode /\ InPack(nodes[i], pack)
    BY DEF StageGood
  <2>2. nodes[i].start \in Nat /\ nodes[i].len \in Nat
    BY <2>1 DEF StageNode
  <2> QED
    BY <2>1, <2>2, SliceKept DEF InPack
<1>2. ASSUME NEW p \in {nodes[i].path : i \in DOMAIN nodes}
      PROVE  NodeOf(nodes, p) \in DOMAIN nodes
  <2>1. \E i \in DOMAIN nodes : nodes[i].path = p
    BY <1>2
  <2> QED
    BY <2>1 DEF NodeOf
<1> QED
    BY <1>1, <1>2 DEF StageOf

\* A step that is no insert, reset, or commit leaves what is staged.
LEMMA StageSame ==
    ASSUME TypeOK, StageInv, [Next]_vars, HistoryUnharmed', StageUnharmed',
           Crash => pc # "indexDone",
           ~TruncCacheIdx, ~Reset, ~TruncCommits
    PROVE  Stage' = Stage
<1> DEFINE Same == RealCacheIdx' = RealCacheIdx /\ RealCachePack' = RealCachePack
<1>1. Stage = StageOf(RealCacheIdx, RealCachePack)
      /\ Stage' = StageOf(RealCacheIdx', RealCachePack')
    BY AbstractState, AbstractStateNext DEF AbstractDefs
<1> USE DEF RealCacheIdx, RealCachePack, Committing
<1>2. CASE InsertBegin \/ WriteCachePack \/ WriteCacheIdx
    BY <1>1, <1>2 DEF InsertBegin, WriteCachePack, WriteCacheIdx, Exit, disk, mem
<1>3. ASSUME NEW p \in Paths, NEW c, NEW d, StageFile(p, c, d) PROVE Same
    BY <1>3 DEF StageFile, disk
<1>4. CASE TruncCachePack
  <2>1. /\ pc = "staging" /\ pc' = "cachePackTrunc"
        /\ cacheIdx' = cacheIdx /\ mCache' = mCache
    BY <1>4 DEF TruncCachePack, mem
  <2>2. StageGood(cacheIdx, cachePack) /\ Extends(mCache, cachePack)
    BY <2>1, StageUnharmedBefore DEF StageInv
  <2>3. Stage = StageOf(cacheIdx, cachePack) /\ Stage' = StageOf(cacheIdx, mCache)
    BY <1>1, <2>1
  <2> QED
    BY <2>2, <2>3, StageKept DEF TypeOK
<1>5. CASE Insert
    BY <1>1, <1>2, <1>3, <1>4, <1>5 DEF Insert
<1>6. CASE CommitBegin \/ CopyEntry \/ CopyDone \/ TransferNew \/ TransferDelete
           \/ TransferModify
    BY <1>1, <1>6
    DEF CommitBegin, CopyEntry, CopyDone, TransferNew, TransferDelete,
        TransferModify, Transferring, disk
<1>7. CASE TruncPack \/ WritePack \/ WriteCommits \/ TruncIndex \/ WriteIndex \/ CleanIdx
    BY <1>1, <1>7
    DEF TruncPack, WritePack, WriteCommits, TruncIndex, WriteIndex, CleanIdx, mem
<1>8. CASE CleanPack
  <2>1. pc = "cleanPack" /\ pc' = "idle" /\ cacheIdx' = cacheIdx
    BY <1>8 DEF CleanPack, Exit
  <2>2. cacheIdx = <<>>
    BY <2>1, StageUnharmedBefore DEF StageInv
  <2>3. Stage = StageOf(<<>>, cachePack) /\ Stage' = StageOf(<<>>, cachePack')
    BY <1>1, <2>1, <2>2
  <2> QED
    BY <2>3, EmptyStage
<1>9. CASE Flags
    BY <1>1, <1>9
    DEF Flags, Tag, MoveHead, ResetHead, RewriteCommits, WriteFlags, Exit
<1>10. CASE Crash
  <2>1. pc \notin HistoryPoints \union StagePoints \union {"indexDone"}
    BY <1>10, UnharmedBefore, StageUnharmedBefore
  <2> QED
    BY <1>1, <1>10, <2>1 DEF Crash, Exit, disk, HistoryPoints, StagePoints
<1>11. CASE UNCHANGED vars
    BY <1>1, <1>11 DEF vars, disk, mem
<1> QED
    BY <1>5, <1>6, <1>7, <1>8, <1>9, <1>10, <1>11 DEF Next, Commit

\* Emptying cache.idx, for the nodes in memory, is the insert: paths that
\* were not staged join the stage, with contents the insert found.
LEMMA InsertStep ==
    ASSUME TypeOK, StageInv, StageUnharmed, TruncCacheIdx, History' = History
    PROVE  VS!Insert
<1> DEFINE old == StageOf(cacheIdx, mCache)
           after == StageOf(mEntries, mCache)
           new == DOMAIN after \ DOMAIN old
<1>1. /\ pc = "cachePackDone" /\ pc' = "cacheIdxTrunc" /\ mEntries' = mEntries
      /\ cachePack' = cachePack
    BY DEF TruncCacheIdx, mem
<1>2. /\ StageGood(cacheIdx, mCache) /\ StageGood(mEntries, mCache)
      /\ Extends(mEntries, cacheIdx) /\ cachePack = mCache
    BY <1>1 DEF StageInv, Inserting, RealCachePack
<1>3. Stage = old /\ Stage' = after
    BY <1>1, <1>2, AbstractState, AbstractStateNext
    DEF AbstractDefs, RealCacheIdx, RealCachePack, Committing
<1>4. cacheIdx \in Seq(StageNode) /\ mEntries \in Seq(StageNode) /\ mCache \in Seq(Byte)
    BY DEF TypeOK
<1>5. \A i \in DOMAIN cacheIdx : i \in DOMAIN mEntries /\ mEntries[i] = cacheIdx[i]
    BY <1>2, <1>4 DEF Extends
<1>6. /\ DOMAIN old = {cacheIdx[i].path : i \in DOMAIN cacheIdx}
      /\ DOMAIN after = {mEntries[i].path : i \in DOMAIN mEntries}
      /\ after = [p \in DOMAIN after |-> after[p]]
    BY DEF StageOf
<1>7. \A i \in DOMAIN mEntries :
        after[mEntries[i].path] =
            [content |-> Slice(mCache, mEntries[i].start, mEntries[i].len),
             deleted |-> mEntries[i].deleted]
    BY <1>2, StageAt DEF StageGood
<1>8. \A i \in DOMAIN cacheIdx :
        old[cacheIdx[i].path] =
            [content |-> Slice(mCache, cacheIdx[i].start, cacheIdx[i].len),
             deleted |-> cacheIdx[i].deleted]
    BY <1>2, StageAt DEF StageGood
<1> HIDE DEF old, after
<1>9. ASSUME NEW i \in DOMAIN mEntries
      PROVE  mEntries[i].path \in Paths /\ after[mEntries[i].path] \in VS!StageNodes
  <2>1. mEntries[i] \in StageNode
    BY <1>4
  <2>2. mEntries[i].path \in Paths /\ mEntries[i].deleted \in BOOLEAN
    BY <2>1 DEF StageNode
  <2>3. Slice(mCache, mEntries[i].start, mEntries[i].len) \in Contents \union {<<>>}
    BY <1>2 DEF StageGood
  <2>4. ASSUME NEW c \in Contents \union {<<>>}, NEW d \in BOOLEAN
        PROVE  [content |-> c, deleted |-> d] \in VS!StageNodes
    BY DEF VS!StageNodes
  <2> QED
    BY <1>7, <2>2, <2>3, <2>4
<1>10. DOMAIN old \subseteq DOMAIN after /\ DOMAIN after = DOMAIN old \union new
    BY <1>5, <1>6
<1>11. ASSUME NEW p \in DOMAIN old PROVE after[p] = old[p]
  <2>1. PICK i \in DOMAIN cacheIdx : p = cacheIdx[i].path
    BY <1>6
  <2>2. i \in DOMAIN mEntries /\ mEntries[i] = cacheIdx[i]
    BY <1>5
  <2>3. /\ after[mEntries[i].path] =
             [content |-> Slice(mCache, mEntries[i].start, mEntries[i].len),
              deleted |-> mEntries[i].deleted]
        /\ old[cacheIdx[i].path] =
             [content |-> Slice(mCache, cacheIdx[i].start, cacheIdx[i].len),
              deleted |-> cacheIdx[i].deleted]
    BY <1>7, <1>8, <2>2
  <2> QED
    BY <2>1, <2>2, <2>3
<1>12. new \in SUBSET (Paths \ DOMAIN old)
    BY <1>6, <1>9
<1>13. after \in [DOMAIN old \union new -> VS!StageNodes]
    BY <1>6, <1>9, <1>10
<1> HIDE DEF new
<1> QED
    BY <1>3, <1>11, <1>12, <1>13 DEF VS!Insert

\* Emptying cache.idx for good is the reset.
LEMMA ResetStep == ASSUME Reset, History' = History PROVE VS!Reset
<1>1. RealCacheIdx' = <<>>
    BY DEF Reset, RealCacheIdx, Committing
<1>2. Stage' = VS!Nothing
    BY <1>1, AbstractStateNext, EmptyStage DEF AbstractDefs
<1> QED
    BY <1>2 DEF VS!Reset

-----------------------------------------------------------------------------
(* The step of the commit *)

\* The entries of the master are in db.idx, as the process read it.
LEMMA MasterInIndex ==
    ASSUME TypeOK, HistoryInv, HistoryUnharmed, pc = "packDone"
    PROVE  /\ mCommits # <<>> => /\ mCommits[Len(mCommits)] \in CommitRec
                                 /\ InIndex(mCommits[Len(mCommits)], mIdx)
           /\ \A k \in 1 .. MasterLength : MasterEntry(k) \in Entry
<1> DEFINE m == mCommits[Len(mCommits)]
<1>1. RangesFit /\ mIdx = RealIdx /\ mCommits = RealCommits
    BY RealFiles DEF HistoryInv, MemoryInStep, Making, RealDefs
<1>2. mCommits \in Seq(CommitRec) /\ mIdx \in Seq(Entry)
    BY DEF TypeOK
<1>3. mCommits # <<>> => m \in CommitRec /\ InIndex(m, mIdx)
    BY <1>1, <1>2 DEF RangesFit
<1>4. ASSUME NEW k \in 1 .. MasterLength PROVE MasterEntry(k) \in Entry
  <2>1. mCommits # <<>> /\ MasterLength = m.length
    BY <1>4 DEF MasterLength
  <2>2. m.index \in Nat /\ m.length \in Nat
    BY <1>3, <2>1 DEF CommitRec
  <2>3. m.index + k \in DOMAIN mIdx
    BY <1>2, <1>3, <1>4, <2>1, <2>2 DEF InIndex
  <2> QED
    BY <1>2, <2>3 DEF MasterEntry
<1> QED
    BY <1>3, <1>4

\* The snapshot of the list that was made is the abstract commit: the master
\* overlaid with the stage.
LEMMA CommitSnapshot ==
    ASSUME TypeOK, HistoryInv, LiveInv, CopyInv, HistoryUnharmed, StageUnharmed,
           pc = "packDone",
           StageGood(mEntries, mCache), Stage = StageOf(mEntries, mCache)
    PROVE  SnapOf(LiveSet(mCopy), mPack) = VS!Apply(SnapOf(MasterLive, mPack))
<1> DEFINE made == LiveSet(mCopy)
           master == MasterLive
           snap == SnapOf(made, mPack)
           base == SnapOf(master, mPack)
<1>1. /\ node > Len(mEntries) /\ node \in Nat
      /\ mEntries \in Seq(StageNode) /\ mCopy \in Seq(Entry)
      /\ \A p \in Paths \union {NoPath} : Overlaid(p) \/ Untouched(p)
      /\ OneLive(mCopy, 0, Len(mCopy))
    BY DEF CopyInv, Overlaying, LiveInv, CopyLive, Making, TypeOK
<1>2. \A k \in DOMAIN mEntries : k < node
    BY <1>1
<1>3. /\ \A p : p \in DOMAIN snap <=> Versions(made, p) # {}
      /\ \A p : p \in DOMAIN base <=> Versions(master, p) # {}
    BY DEF SnapOf, Versions
<1>4. /\ \A p \in DOMAIN snap :
            snap[p] = Slice(mPack, Version(made, p).start, Version(made, p).len)
      /\ \A p \in DOMAIN base :
            base[p] = Slice(mPack, Version(master, p).start, Version(master, p).len)
    BY DEF SnapOf
<1>5. ASSUME NEW p, NEW e \in Versions(made, p) PROVE Version(made, p) = e
    BY <1>1, <1>5, VersionHas, OneVersion
<1>6. DOMAIN Stage = {mEntries[i].path : i \in DOMAIN mEntries}
    BY DEF StageOf
<1>7. \A i \in DOMAIN mEntries :
        Stage[mEntries[i].path] =
            [content |-> Slice(mCache, mEntries[i].start, mEntries[i].len),
             deleted |-> mEntries[i].deleted]
    BY StageAt DEF StageGood
<1>8. snap = [p \in DOMAIN snap |-> snap[p]]
    BY DEF SnapOf
<1>9. VS!Apply(base) =
        [p \in (DOMAIN base \union DOMAIN Stage)
                \ {q \in DOMAIN Stage : Stage[q].deleted /\ q \in DOMAIN base} |->
            IF p \in DOMAIN Stage THEN Stage[p].content ELSE base[p]]
    BY DEF VS!Apply, VS!Removed
<1>10. ASSUME NEW p \in DOMAIN Stage
       PROVE  /\ p \in DOMAIN snap <=> ~(Stage[p].deleted /\ p \in DOMAIN base)
              /\ p \in DOMAIN snap => snap[p] = Stage[p].content
  <2>1. PICK i \in DOMAIN mEntries : p = mEntries[i].path
    BY <1>6
  <2>2. mEntries[i] \in StageNode
    BY <1>1
  <2>3. p \in Paths
    BY <2>1, <2>2 DEF StageNode
  <2>4. ~Untouched(p)
    BY <1>2, <2>1 DEF Untouched
  <2>5. Overlaid(p)
    BY <1>1, <2>3, <2>4
  <2>6. IF mEntries[i].deleted /\ Versions(master, p) # {}
        THEN Versions(made, p) = {}
        ELSE \E e \in Versions(made, p) :
                Slice(mPack, e.start, e.len)
                    = Slice(mCache, mEntries[i].start, mEntries[i].len)
    <3>1. PICK k \in DOMAIN mEntries :
            /\ mEntries[k].path = p
            /\ IF mEntries[k].deleted /\ Versions(master, p) # {}
               THEN Versions(made, p) = {}
               ELSE \E e \in Versions(made, p) :
                       Slice(mPack, e.start, e.len)
                           = Slice(mCache, mEntries[k].start, mEntries[k].len)
      BY <2>5 DEF Overlaid
    <3>2. k = i
      BY <2>1, <3>1 DEF StageGood
    <3> QED
      BY <3>1, <3>2
  <2> HIDE DEF made, master, snap, base
  <2>7. Stage[p].deleted = mEntries[i].deleted
        /\ Stage[p].content = Slice(mCache, mEntries[i].start, mEntries[i].len)
    <3>1. Stage[mEntries[i].path] =
            [content |-> Slice(mCache, mEntries[i].start, mEntries[i].len),
             deleted |-> mEntries[i].deleted]
      BY <1>7
    <3>2. Stage[p] = Stage[mEntries[i].path]
      BY <2>1
    <3> QED
      BY <3>1, <3>2
  <2>8. CASE mEntries[i].deleted /\ Versions(master, p) # {}
    BY <1>3, <2>6, <2>7, <2>8
  <2>9. CASE ~(mEntries[i].deleted /\ Versions(master, p) # {})
    <3>1. PICK e \in Versions(made, p) :
                Slice(mPack, e.start, e.len)
                    = Slice(mCache, mEntries[i].start, mEntries[i].len)
      BY <2>6, <2>9
    <3>2. Version(made, p) = e /\ p \in DOMAIN snap
      BY <1>3, <1>5
    <3>3. snap[p] = Stage[p].content
      BY <1>4, <2>7, <3>1, <3>2
    <3> QED
      BY <1>3, <2>7, <2>9, <3>2, <3>3
  <2> QED
    BY <2>8, <2>9
<1>11. ASSUME NEW p, p \notin DOMAIN Stage
       PROVE  /\ p \in DOMAIN snap <=> p \in DOMAIN base
              /\ p \in DOMAIN snap => snap[p] = base[p]
  <2>1. CASE p \in Paths \union {NoPath}
    <3>1. ~Overlaid(p)
      BY <1>6, <1>11 DEF Overlaid
    <3>2. Versions(made, p) = Versions(master, p)
      BY <1>1, <2>1, <3>1 DEF Untouched
    <3> HIDE DEF made, master, snap, base
    <3>3. ASSUME p \in DOMAIN snap PROVE snap[p] = base[p]
      <4>1. Version(master, p) \in Versions(made, p)
        BY <1>3, <3>2, <3>3, VersionHas
      <4>2. Version(made, p) = Version(master, p)
        BY <1>5, <4>1
      <4> QED
        BY <1>3, <1>4, <3>2, <3>3, <4>2
    <3> QED
      BY <1>3, <3>2, <3>3
  <2>2. CASE p \notin Paths \union {NoPath}
    <3>1. Versions(made, p) = {}
      <4>1. \A e \in made : e \in Entry
        BY <1>1 DEF LiveSet
      <4> QED
        BY <2>2, <4>1 DEF Versions, Entry
    <3>2. Versions(master, p) = {}
      <4>1. ASSUME NEW e \in Versions(master, p) PROVE FALSE
        <5>1. e \in Entry /\ e.path = p
          BY MasterInIndex DEF Versions, MasterLive
        <5> QED
          BY <2>2, <5>1 DEF Entry
      <4> QED
        BY <4>1
    <3> QED
      BY <1>3, <3>1, <3>2
  <2> QED
    BY <2>1, <2>2
<1> HIDE DEF made, master, snap, base
<1>12. DOMAIN snap = (DOMAIN base \union DOMAIN Stage)
                        \ {q \in DOMAIN Stage : Stage[q].deleted /\ q \in DOMAIN base}
    BY <1>10, <1>11
<1>13. \A p \in DOMAIN snap :
        snap[p] = IF p \in DOMAIN Stage THEN Stage[p].content ELSE base[p]
    BY <1>10, <1>11
<1>14. snap = VS!Apply(base)
    BY <1>8, <1>9, <1>12, <1>13
<1> QED
    BY <1>14 DEF snap, base, made, master

\* The abstract master is the commit that was copied.
LEMMA AbstractMaster ==
    ASSUME TypeOK, HistoryInv, HistoryUnharmed, pc = "packDone"
    PROVE  /\ VS!Master = SnapOf(MasterLive, mPack)
           /\ \E S : History \in Seq(S)
           /\ Len(History) = Len(mCommits)
<1> DEFINE m == mCommits[Len(mCommits)]
           n == Len(mCommits)
           S == {History[i] : i \in 1 .. n}
<1>1. RealIdx = mIdx /\ RealCommits = mCommits /\ RealPack = mPack
    BY RealFiles DEF HistoryInv, MemoryInStep, Making, RealDefs
<1>2. mCommits \in Seq(CommitRec) /\ n \in Nat /\ DOMAIN mCommits = 1 .. n
    BY DEF TypeOK
<1>3. History = [i \in 1 .. n |-> SnapOf(LiveIn(mIdx, mCommits[i]), mPack)]
    BY <1>1, <1>2, AbstractState DEF AbstractDefs
<1>4. History \in Seq(S) /\ Len(History) = n
  <2>1. History \in [1 .. n -> S]
    BY <1>3
  <2> HIDE DEF S
  <2> QED
    BY <1>2, <2>1, SeqDef
<1>5. VS!Master = SnapOf(MasterLive, mPack)
  <2>1. CASE mCommits = <<>>
    <3>1. MasterLive = {} /\ n = 0
      BY <2>1 DEF MasterLive, MasterLength
    <3>2. SnapOf({}, mPack) = VS!Nothing
      BY DEF SnapOf, VS!Nothing
    <3>3. History = <<>>
      BY <1>4, <3>1
    <3> QED
      BY <3>1, <3>2, <3>3 DEF VS!Master
  <2>2. CASE mCommits # <<>>
    <3>1. n \in 1 .. n
      BY <1>2, <2>2
    <3>2. History # <<>> /\ History[Len(History)] = SnapOf(LiveIn(mIdx, m), mPack)
      BY <1>3, <1>4, <3>1
    <3>3. m.index \in Nat /\ m.length \in Nat /\ MasterLength = m.length
      BY <2>2, MasterInIndex DEF MasterLength, CommitRec
    <3>4. LiveIn(mIdx, m) = MasterLive
      <4>1. ASSUME NEW e \in LiveIn(mIdx, m) PROVE e \in MasterLive
        <5>1. PICK j \in m.index + 1 .. m.index + m.length : e = mIdx[j] /\ Live(mIdx[j])
          BY DEF LiveIn
        <5>2. j - m.index \in 1 .. m.length /\ m.index + (j - m.index) = j
          BY <3>3
        <5>3. MasterEntry(j - m.index) = e
          BY <5>1, <5>2 DEF MasterEntry
        <5> QED
          BY <3>3, <5>1, <5>2, <5>3 DEF MasterLive
      <4>2. ASSUME NEW e \in MasterLive PROVE e \in LiveIn(mIdx, m)
        <5>1. PICK k \in 1 .. m.length : e = MasterEntry(k) /\ Live(MasterEntry(k))
          BY <3>3 DEF MasterLive
        <5>2. m.index + k \in m.index + 1 .. m.index + m.length
          BY <3>3
        <5> QED
          BY <5>1, <5>2 DEF LiveIn, MasterEntry
      <4> QED
        BY <4>1, <4>2
    <3> QED
      BY <3>2, <3>4 DEF VS!Master
  <2> QED
    BY <2>1, <2>2
<1> QED
    BY <1>4, <1>5

\* Emptying commit.idx, with the new commit in memory, is the commit.
LEMMA CommitStep ==
    ASSUME TypeOK, TypeOK', HistoryInv, StageInv, LiveInv, CopyInv, [Next]_vars,
           HistoryUnharmed', StageUnharmed', TruncCommits
    PROVE  VS!Commit
<1> DEFINE m == mCommits[Len(mCommits)]
           n == Len(mCommits)
           c == NewCommits[n + 1]
           made == SnapOf(LiveSet(mCopy), mPack)
<1>1. /\ HistoryUnharmed /\ StageUnharmed /\ pc = "packDone" /\ pc' = "commitsTrunc"
      /\ cacheIdx' = cacheIdx /\ cachePack' = cachePack /\ dbPack' = dbPack
      /\ mIdx' = mIdx /\ mCopy' = mCopy /\ mCommits' = mCommits /\ mPack' = mPack
    BY UnharmedBefore, StageUnharmedBefore DEF TruncCommits, mem
<1>2. /\ RealIdx = mIdx /\ RealCommits = mCommits /\ RealPack = mPack
      /\ RealIdx' = mIdx \o mCopy /\ RealCommits' = NewCommits /\ RealPack' = mPack
    BY <1>1, RealFiles, RealFilesNext
    DEF HistoryInv, MemoryInStep, Making, RealDefs, NewCommits
<1>3. /\ mEntries = cacheIdx /\ mCache = cachePack /\ cacheIdx # <<>>
      /\ StageGood(mEntries, mCache)
    BY <1>1 DEF StageInv, Making, RealCachePack
<1>4. Stage = StageOf(mEntries, mCache) /\ Stage' = VS!Nothing
  <2>1. RealCacheIdx = cacheIdx /\ RealCachePack = cachePack /\ RealCacheIdx' = <<>>
    BY <1>1 DEF RealCacheIdx, RealCachePack, Committing
  <2> QED
    BY <1>3, <2>1, AbstractState, AbstractStateNext, EmptyStage DEF AbstractDefs
<1>5. Stage # VS!Nothing
  <2>1. DOMAIN Stage # {}
    <3>1. PICK i \in DOMAIN mEntries : i = 1
      <4>1. mEntries \in Seq(StageNode) /\ mEntries # <<>>
        BY <1>3 DEF TypeOK
      <4> QED
        BY <4>1
    <3> QED
      BY <1>3, <1>4, <3>1, StageAt DEF StageGood
  <2>2. DOMAIN VS!Nothing = {}
    BY DEF VS!Nothing
  <2> QED
    BY <2>1, <2>2
<1>6. made = VS!Apply(VS!Master)
    BY <1>1, <1>3, <1>4, CommitSnapshot, AbstractMaster
<1>7. /\ NewCommits \in Seq(CommitRec) /\ Len(NewCommits) = n + 1
      /\ c.index = Len(mIdx) /\ c.length = Len(mCopy)
      /\ \A i \in DOMAIN mCommits : /\ NewCommits[i].index = mCommits[i].index
                                    /\ NewCommits[i].length = mCommits[i].length
    BY NewCommitsType
<1>8. /\ mIdx \in Seq(Entry) /\ mCopy \in Seq(Entry) /\ mPack \in Seq(Byte)
      /\ mCommits \in Seq(CommitRec) /\ n \in Nat /\ mIdx \o mCopy \in Seq(Entry)
    BY DEF TypeOK
<1> HIDE DEF c
<1>9. LiveIn(mIdx \o mCopy, c) = LiveSet(mCopy)
  <2>1. \A k \in DOMAIN mCopy : (mIdx \o mCopy)[Len(mIdx) + k] = mCopy[k]
    BY <1>8
  <2>2. ASSUME NEW e \in LiveIn(mIdx \o mCopy, c) PROVE e \in LiveSet(mCopy)
    <3>1. PICK j \in Len(mIdx) + 1 .. Len(mIdx) + Len(mCopy) :
                e = (mIdx \o mCopy)[j] /\ Live((mIdx \o mCopy)[j])
      BY <1>7 DEF LiveIn
    <3>2. j - Len(mIdx) \in DOMAIN mCopy /\ Len(mIdx) + (j - Len(mIdx)) = j
      BY <1>8
    <3>3. e = mCopy[j - Len(mIdx)] /\ Live(mCopy[j - Len(mIdx)])
      BY <2>1, <3>1, <3>2
    <3> QED
      BY <3>2, <3>3 DEF LiveSet
  <2>3. ASSUME NEW e \in LiveSet(mCopy) PROVE e \in LiveIn(mIdx \o mCopy, c)
    <3>1. PICK k \in DOMAIN mCopy : e = mCopy[k] /\ Live(mCopy[k])
      BY DEF LiveSet
    <3>2. Len(mIdx) + k \in Len(mIdx) + 1 .. Len(mIdx) + Len(mCopy)
      BY <1>8
    <3> QED
      BY <1>7, <2>1, <3>1, <3>2 DEF LiveIn
  <2> QED
    BY <2>2, <2>3
<1>10. \A i \in 1 .. n : SnapOf(LiveIn(mIdx \o mCopy, NewCommits[i]), mPack)
                            = SnapOf(LiveIn(mIdx, mCommits[i]), mPack)
  <2> SUFFICES ASSUME NEW i \in 1 .. n
               PROVE  SnapOf(LiveIn(mIdx \o mCopy, NewCommits[i]), mPack)
                        = SnapOf(LiveIn(mIdx, mCommits[i]), mPack)
    OBVIOUS
  <2> DEFINE a == mCommits[i]
             b == NewCommits[i]
             idx2 == mIdx \o mCopy
  <2>1. a \in CommitRec /\ b \in CommitRec /\ b.index = a.index /\ b.length = a.length
    BY <1>7, <1>8
  <2>2. InIndex(a, mIdx) /\ \A j \in DOMAIN mIdx : InPack(mIdx[j], mPack)
    BY <1>1, <1>2, <1>8 DEF HistoryInv, RangesFit
  <2>3. Extends(idx2, mIdx) /\ Extends(mPack, mPack) /\ idx2 \in Seq(Entry)
    BY <1>8, ExtendsConcat, ExtendsSelf
  <2> HIDE DEF a, b, idx2
  <2>4. SnapOf(LiveIn(idx2, b), mPack) = SnapOf(LiveIn(mIdx, a), mPack)
    BY <1>8, <2>1, <2>2, <2>3, SnapKept
  <2> QED
    BY <2>4 DEF a, b, idx2
<1>11. /\ History = [i \in 1 .. n |-> SnapOf(LiveIn(mIdx, mCommits[i]), mPack)]
       /\ History' = [i \in 1 .. n + 1 |->
                        SnapOf(LiveIn(mIdx \o mCopy, NewCommits[i]), mPack)]
  <2>1. DOMAIN mCommits = 1 .. n /\ DOMAIN NewCommits = 1 .. n + 1
    BY <1>7, <1>8
  <2> QED
    BY <1>2, <2>1, AbstractState, AbstractStateNext DEF AbstractDefs
<1>12. SnapOf(LiveIn(mIdx \o mCopy, NewCommits[n + 1]), mPack) = made
    BY <1>9 DEF c
<1>13. PICK S : History \in Seq(S) /\ Len(History) = n
    BY <1>1, AbstractMaster
<1> HIDE DEF made
<1>14. History' = Append(History, made)
  <2> DEFINE T == S \union {made}
             longer == Append(History, made)
  <2>1. longer \in Seq(T) /\ Len(longer) = n + 1
        /\ (\A i \in 1 .. n : longer[i] = History[i]) /\ longer[n + 1] = made
    BY <1>13
  <2> HIDE DEF longer, T
  <2>2. longer = [i \in 1 .. n + 1 |-> longer[i]]
    <3>1. longer = [i \in 1 .. Len(longer) |-> longer[i]]
      BY <2>1
    <3> QED
      BY <2>1, <3>1
  <2>3. \A i \in 1 .. n + 1 :
            longer[i] = SnapOf(LiveIn(mIdx \o mCopy, NewCommits[i]), mPack)
    <3> SUFFICES ASSUME NEW i \in 1 .. n + 1
                 PROVE  longer[i] = SnapOf(LiveIn(mIdx \o mCopy, NewCommits[i]), mPack)
      OBVIOUS
    <3>1. CASE i \in 1 .. n
      BY <1>10, <1>11, <2>1, <3>1
    <3>2. CASE i = n + 1
      BY <1>12, <2>1, <3>2
    <3> QED
      BY <1>8, <3>1, <3>2
  <2> QED
    BY <1>11, <2>2, <2>3 DEF longer
<1> QED
    BY <1>4, <1>5, <1>6, <1>14 DEF VS!Commit

-----------------------------------------------------------------------------
(* The refinement *)

\* No process has died where the crash shows: at the points that harm the
\* files, and where the commit is made and its stage not cleared yet.
HarmlessCrashes ==
    /\ HistoryUnharmed /\ StageUnharmed
    /\ \A i \in DOMAIN crashes : crashes[i] # "indexDone"

RefineInv == TypeOK /\ HistoryInv /\ StageInv /\ LiveInv /\ CopyInv

\* The files of a new repository are the empty history and the empty stage.
LEMMA InitRefines == Init => VS!Init
<1> SUFFICES ASSUME Init PROVE VS!Init
    OBVIOUS
<1>1. RealCommits = <<>> /\ RealCacheIdx = <<>>
    BY RealFiles DEF Init, RealDefs, RealCacheIdx, Committing
<1>2. History = <<>>
    BY <1>1 DEF History
<1>3. Stage = VS!Nothing
    BY <1>1, AbstractState, EmptyStage DEF AbstractDefs
<1> QED
    BY <1>2, <1>3 DEF VS!Init

\* Every step is a step of the abstract store or changes nothing of it.
LEMMA NextRefines ==
    RefineInv /\ RefineInv' /\ [Next]_vars /\ HarmlessCrashes' => [VS!Next]_(VS!vars)
<1> SUFFICES ASSUME RefineInv, RefineInv', [Next]_vars, HarmlessCrashes'
             PROVE  [VS!Next]_(VS!vars)
    OBVIOUS
<1>1. Crash => pc # "indexDone"
    BY CrashesGrow DEF HarmlessCrashes, RefineInv
<1>2. StageUnharmed /\ HistoryUnharmed' /\ StageUnharmed'
    BY StageUnharmedBefore DEF HarmlessCrashes, RefineInv
<1>3. CASE TruncCommits
    BY <1>2, <1>3, CommitStep DEF RefineInv, VS!Next
<1>4. ~TruncCommits => History' = History
    BY <1>2, HistorySame DEF RefineInv
<1>5. CASE TruncCacheIdx
  <2>1. ~TruncCommits
    BY <1>5 DEF TruncCacheIdx, TruncCommits
  <2> QED
    BY <1>2, <1>4, <1>5, <2>1, InsertStep DEF RefineInv, VS!Next
<1>6. CASE Reset
  <2>1. ~TruncCommits
    BY <1>6 DEF Reset, TruncCommits
  <2> QED
    BY <1>4, <1>6, <2>1, ResetStep DEF VS!Next
<1>7. CASE ~TruncCommits /\ ~TruncCacheIdx /\ ~Reset
  <2>1. Stage' = Stage
    BY <1>1, <1>2, <1>7, StageSame DEF RefineInv
  <2> QED
    BY <1>4, <1>7, <2>1 DEF VS!vars
<1> QED
    BY <1>3, <1>5, <1>6, <1>7

\* As long as processes die only where it does not show, each commit reads
\* back the last snapshot overlaid with what was staged, forever after, and
\* the stage is emptied by the commit that took it.
THEOREM HarmlessRefines == Spec /\ []HarmlessCrashes => ImplementsVersionStore
<1>1. Spec => []RefineInv
    BY TypeCorrect, HistoryInvariant, StageInvariant, LiveInvariant, CopyInvariant, PTL
    DEF RefineInv
<1> QED
    BY <1>1, InitRefines, NextRefines, PTL DEF Spec, ImplementsVersionStore, VS!Spec

\* The property of the runs: where the process may only die at such points,
\* every behaviour of the files is one of the abstract store.
THEOREM StoreRefines ==
    ASSUME CrashPoints \cap (HistoryPoints \union StagePoints \union {"indexDone"}) = {}
    PROVE  Spec => ImplementsVersionStore
<1> DEFINE Quiet == \A i \in DOMAIN crashes : crashes[i] \in CrashPoints
<1>1. Init => Quiet
    BY DEF Init
<1>2. TypeOK /\ Quiet /\ [Next]_vars => Quiet'
  <2> SUFFICES ASSUME TypeOK, Quiet, [Next]_vars PROVE Quiet'
    OBVIOUS
  <2>1. CASE Crash
    <3>1. crashes' = Append(crashes, pc) /\ crashes \in Seq(Points) /\ pc \in CrashPoints
          /\ pc \in Points
      BY <2>1 DEF Crash, TypeOK
    <3> QED
      BY <3>1
  <2>2. CASE ~Crash
    <3>1. crashes' = crashes
      BY <2>2, CrashesKept
    <3> QED
      BY <3>1
  <2> QED
    BY <2>1, <2>2
<1>3. Quiet => HarmlessCrashes
    BY DEF HarmlessCrashes, HistoryUnharmed, StageUnharmed
<1> QED
    BY <1>1, <1>2, <1>3, TypeCorrect, HarmlessRefines, PTL DEF Spec

=============================================================================

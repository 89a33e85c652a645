------------------------ MODULE PegConcurrentProofs ------------------------
(***************************************************************************)
(* What holds of PegConcurrent for any number of processes, commands and   *)
(* cut writes.                                                             *)
(*                                                                         *)
(* Each invariant is of one shape: where no two processes have been in a   *)
(* window at once, at most one process is in it, and what that process has *)
(* in memory tells how the files are going to look.                        *)
(***************************************************************************)
EXTENDS PegConcurrent, SequenceTheorems, TLAPS

-----------------------------------------------------------------------------
(* Types *)

InsertPoints == {"insertReadIdx", "insertReadPack", "insertOpenPack", "insertPack",
                 "insertOpenIdx", "insertIdx"}

\* A commit that has read the entries of the last one.
CopyPoints == {"readStageIdx", "readStagePack", "readIndex", "readPack", "openPack",
               "writePack", "openCommits", "writeCommits", "openIndex", "writeIndex"}

Points == InsertPoints \union CopyPoints \union
            {"idle", "readCommits", "readMaster", "resetRead", "cleanIdx", "cleanPack",
             "flagsRead", "openFlags", "writeFlags"}

\* An entry that names no file is at no position of a pack.
Place == {e \in [name : Nat, pos : Nat] : e.name # 0 \/ e.pos = 0}

\* A staged file has a name.
Node == [name : Nat \ {0}, pos : Nat]

CommitRec == [start : Nat \ {0}, len : Nat, head : BOOLEAN]

Disk == [commits : Seq(CommitRec), index : Seq(Place), pack : Seq(Nat),
         stageIdx : Seq(Node), stagePack : Seq(Nat)]

Mine == [commits : Seq(CommitRec), copy : Seq(Nat \union Place), index : Seq(Place),
         pack : Seq(Nat), stageIdx : Seq(Node), stagePack : Seq(Nat)]

TypeInv ==
    /\ disk \in Disk
    /\ open \in [File -> SUBSET Proc]
    /\ pc \in [Proc -> Points]
    /\ mine \in [Proc -> Mine]
    /\ next \in Nat \ {0}
    /\ done \subseteq [entries : Seq(Place), genuine : BOOLEAN]
    /\ raced \in [history : BOOLEAN, stage : BOOLEAN]
    /\ cuts \in Nat
    /\ \A p \in Proc : pc[p] \in InsertPoints =>
            mine[p].copy \in Seq(Nat \ {0}) /\ Len(mine[p].copy) = 1
    /\ \A p \in Proc : pc[p] \in CopyPoints => mine[p].copy \in Seq(Place)

-----------------------------------------------------------------------------
(* Truncated files, and processes in a window *)

OpenedBy(points) == {p \in Proc : pc[p] \in points}

WritingAt == [commits |-> {"writeCommits", "writeFlags"}, index |-> {"writeIndex"},
              pack |-> {"writePack"}, stageIdx |-> {"insertIdx"},
              stagePack |-> {"insertPack"}]

OpenInv == \A f \in File : open[f] = OpenedBy(WritingAt[f])

RaceInv ==
    /\ Both(HistoryWindow) => raced.history
    /\ Both(StageWindow) => raced.stage

-----------------------------------------------------------------------------
(* The stage *)

\* At a point, a process has in memory, and finds on the disk, this.
StageAt(at, me, files, names) ==
    /\ at = "insertReadPack" => me.stageIdx = files.stageIdx
    /\ at \in {"insertOpenPack", "insertPack", "insertOpenIdx", "insertIdx"} =>
            /\ Genuine(me.stageIdx, me.stagePack)
            /\ Names(me.stageIdx) = names \union {me.copy[1]}
    /\ at \in {"insertOpenPack", "insertPack"} => Genuine(files.stageIdx, me.stagePack)
    /\ at = "insertPack" => files.stagePack = <<>>
    /\ at \in {"insertOpenIdx", "insertIdx"} => files.stagePack = me.stagePack
    /\ at \in (CopyPoints \ {"readStageIdx"}) \union {"cleanIdx"} =>
            me.stageIdx = files.stageIdx
    /\ at \in {"readIndex", "readPack"} => Genuine(me.stageIdx, me.stagePack)
    /\ at = "cleanPack" => files.stageIdx = <<>>

StageOf(p) == StageAt(pc[p], mine[p], disk, staged)

StageInv ==
    ~raced.stage =>
        /\ OpenedBy({"insertIdx"}) = {} => staged = Names(disk.stageIdx)
        /\ OpenedBy({"insertPack", "insertIdx"}) = {} => Genuine(disk.stageIdx, disk.stagePack)
        /\ \A p \in Proc : StageOf(p)

-----------------------------------------------------------------------------
(* The history *)

\* The entries of all commits are in an index.
Fits(commits, index) ==
    \A k \in DOMAIN commits : commits[k].start + commits[k].len <= Len(index) + 1

\* The commits are those that were completed.
Kept(commits, index, those) ==
    \A c \in those : \E k \in DOMAIN commits : Entries(commits[k], index) = c.entries

Known(commits, index, those) ==
    \A k \in DOMAIN commits : \E c \in those : Entries(commits[k], index) = c.entries

\* A pack has the contents of the commits, if none was cut.
Packed(pack, those, cut) ==
    \A c \in those : c.genuine /\ cut = 0 => Genuine(c.entries, pack)

Told(commits, index, those) ==
    Fits(commits, index) /\ Kept(commits, index, those) /\ Known(commits, index, those)

\* With the commit that is being made.
ToldWith(commits, index, those, copy) ==
    /\ Fits(commits, index) /\ Kept(commits, index, those)
    /\ \A k \in DOMAIN commits :
            \/ Entries(commits[k], index) = copy
            \/ \E c \in those : Entries(commits[k], index) = c.entries
    /\ \E k \in DOMAIN commits : Entries(commits[k], index) = copy

HistoryAt(at, me, files, those, cut) ==
    /\ at \in {"readMaster", "readStageIdx", "readStagePack", "readIndex", "readPack"} =>
            me.commits = files.commits
    /\ at \in {"readStageIdx", "readStagePack", "readIndex", "readPack"} =>
            me.copy = <<>> \/ \E c \in those : me.copy = c.entries
    /\ at = "readPack" => me.index = files.index
    /\ at \in {"openPack", "writePack"} => Packed(me.pack, those, cut)
    /\ at \in {"openPack", "writePack", "openCommits", "writeCommits", "openIndex"} =>
            Kept(me.commits, files.index, those)
    /\ at \in {"openPack", "writePack", "openCommits", "writeCommits", "openIndex",
               "writeIndex"} => ToldWith(me.commits, me.index, those, me.copy)
    /\ at \in {"openIndex", "writeIndex"} => files.commits = me.commits
    /\ at = "writeIndex" => files.index = <<>>
    /\ at \in {"openFlags", "writeFlags"} => Told(me.commits, files.index, those)

HistoryOf(p) == HistoryAt(pc[p], mine[p], disk, done, cuts)

HistoryInv ==
    ~raced.history =>
        /\ OpenedBy({"writePack"}) = {} => Packed(disk.pack, done, cuts)
        /\ OpenedBy({"writeCommits", "writeFlags", "writeIndex"}) = {} =>
                Kept(disk.commits, disk.index, done)
        /\ OpenedBy({"writeCommits", "writeFlags", "openIndex", "writeIndex"}) = {} =>
                Told(disk.commits, disk.index, done)
        /\ \A p \in Proc : HistoryOf(p)

\* What is being committed is what was inserted.
GenuineAt(at, me, files) ==
    /\ at \in {"openPack", "writePack"} => Genuine(me.copy, me.pack)
    /\ at \in {"openCommits", "writeCommits", "openIndex", "writeIndex"} =>
            Genuine(me.copy, files.pack)

Undisturbed == ~raced.history /\ ~raced.stage /\ cuts = 0

GenuineInv ==
    Undisturbed =>
        /\ \A c \in done : c.genuine
        /\ \A p \in Proc : GenuineAt(pc[p], mine[p], disk)

-----------------------------------------------------------------------------
(* Lemmas on the data *)

LEMMA WrittenIsNew ==
    ASSUME NEW new, NEW f \in Counted PROVE Written(f, new) = new
BY DEF Written

\* The other files may keep the end of what they had.
LEMMA WrittenOver ==
    ASSUME NEW S, NEW f \in File \ Counted, disk[f] \in Seq(S), NEW new \in Seq(S)
    PROVE  /\ Written(f, new) \in Seq(S)
           /\ disk[f] = <<>> => Written(f, new) = new
<1> DEFINE old == disk[f]
           rest == SubSeq(old, Len(new) + 1, Len(old))
<1>1. old \in Seq(S) /\ Len(old) \in Nat /\ Len(new) \in Nat
    OBVIOUS
<1>2. Written(f, new) = new \o rest
    BY DEF Written
<1> HIDE DEF old
<1>3. \A i \in Len(new) + 1 .. Len(old) : old[i] \in S
    BY <1>1
<1>4. rest \in Seq(S)
    BY <1>1, <1>3, SubSeqProperties
<1>5. old = <<>> => rest = <<>>
  <2>1. old = <<>> => Len(old) < Len(new) + 1
    BY <1>1
  <2> QED
    BY <1>1, <2>1, SubSeqEmpty
<1> HIDE DEF rest
<1> QED
    BY <1>2, <1>4, <1>5, ConcatProperties, ConcatEmptySeq DEF old

LEMMA NowhereIsPlace == Nowhere \in Place
BY DEF Nowhere, Place

LEMMA EntriesType ==
    ASSUME NEW c \in CommitRec, NEW index \in Seq(Place)
    PROVE  /\ Entries(c, index) \in Seq(Place)
           /\ Len(Entries(c, index)) = c.len
           /\ DOMAIN Entries(c, index) = 1 .. c.len
           /\ \A k \in 1 .. c.len :
                Entries(c, index)[k] = At(index, c.start + k - 1, Nowhere)
<1>1. c.start \in Nat \ {0} /\ c.len \in Nat
    BY DEF CommitRec
<1>2. \A k \in 1 .. c.len : At(index, c.start + k - 1, Nowhere) \in Place
    BY <1>1, NowhereIsPlace DEF At
<1> QED
    BY <1>1, <1>2 DEF Entries

\* Only the flags are touched.
SameRanges(new, old) ==
    /\ Len(new) = Len(old)
    /\ \A k \in 1 .. Len(old) : new[k].start = old[k].start /\ new[k].len = old[k].len

LEMMA WithoutHeadKeeps ==
    ASSUME NEW c \in Seq(CommitRec)
    PROVE  WithoutHead(c) \in Seq(CommitRec) /\ SameRanges(WithoutHead(c), c)
<1>1. \A k \in DOMAIN c :
        LET r == [c[k] EXCEPT !.head = @ /\ \E l \in 1 .. (k - 1) : c[l].head]
        IN  r \in CommitRec /\ r.start = c[k].start /\ r.len = c[k].len
  <2> TAKE k \in DOMAIN c
  <2> DEFINE h == c[k].head /\ \E l \in 1 .. (k - 1) : c[l].head
             r == [c[k] EXCEPT !.head = h]
  <2>1. c[k] \in CommitRec
    OBVIOUS
  <2>2. h \in BOOLEAN
    BY Zenon
  <2> HIDE DEF h
  <2>3. r \in CommitRec /\ r.start = c[k].start /\ r.len = c[k].len
    BY <2>1, <2>2 DEF CommitRec
  <2> QED
    BY <2>3 DEF h
<1> DEFINE r(k) == [c[k] EXCEPT !.head = @ /\ \E l \in 1 .. (k - 1) : c[l].head]
<1>2. DOMAIN c = 1 .. Len(c) /\ Len(c) \in Nat
    OBVIOUS
<1>3. WithoutHead(c) = [k \in 1 .. Len(c) |-> r(k)]
    BY <1>2 DEF WithoutHead
<1>4. \A k \in 1 .. Len(c) :
        r(k) \in CommitRec /\ r(k).start = c[k].start /\ r(k).len = c[k].len
    BY <1>1, <1>2
<1> HIDE DEF r
<1> QED
    BY <1>2, <1>3, <1>4 DEF SameRanges

LEMMA FlagKeeps ==
    ASSUME NEW c \in Seq(CommitRec), NEW k \in DOMAIN c, NEW h \in BOOLEAN
    PROVE  LET d == [c EXCEPT ![k].head = h]
           IN  d \in Seq(CommitRec) /\ SameRanges(d, c)
<1> DEFINE r == [c[k] EXCEPT !.head = h]
<1>1. r \in CommitRec /\ r.start = c[k].start /\ r.len = c[k].len
  <2>1. c[k] \in CommitRec
    OBVIOUS
  <2> QED
    BY <2>1 DEF CommitRec
<1> HIDE DEF r
<1>2. /\ [c EXCEPT ![k] = r] \in Seq(CommitRec)
      /\ SameRanges([c EXCEPT ![k] = r], c)
    BY <1>1 DEF SameRanges
<1> QED
    BY <1>2 DEF r

LEMMA SameRangesCompose ==
    ASSUME NEW a, NEW b, NEW c, SameRanges(a, b), SameRanges(b, c)
    PROVE  SameRanges(a, c)
BY DEF SameRanges

-----------------------------------------------------------------------------
(* What a step does: one process moves *)

Goes(p, to) ==
    /\ pc' \in [Proc -> Points] /\ pc'[p] = to
    /\ \A q \in Proc \ {p} : pc'[q] = pc[q]

Holds(p, m) ==
    /\ mine' \in [Proc -> Mine] /\ mine'[p] = m
    /\ \A q \in Proc \ {p} : mine'[q] = mine[q]

LEMMA GoesOn ==
    ASSUME TypeInv, NEW p \in Proc, NEW to \in Points, pc' = [pc EXCEPT ![p] = to]
    PROVE  Goes(p, to)
BY DEF TypeInv, Goes

LEMMA HoldsNew ==
    ASSUME TypeInv, NEW p \in Proc, NEW m \in Mine, mine' = [mine EXCEPT ![p] = m]
    PROVE  Holds(p, m)
BY DEF TypeInv, Holds

LEMMA HoldsSame ==
    ASSUME TypeInv, NEW p \in Proc, mine' = mine
    PROVE  Holds(p, mine[p])
BY DEF TypeInv, Holds

LEMMA MineType ==
    ASSUME TypeInv, NEW p \in Proc
    PROVE  mine[p] \in Mine /\ disk \in Disk /\ pc[p] \in Points
BY DEF TypeInv

LEMMA ReadDoes ==
    ASSUME TypeInv, NEW p \in Proc, NEW f \in File, NEW to \in Points, Read(p, f, to)
    PROVE  /\ Goes(p, to) /\ Holds(p, [mine[p] EXCEPT ![f] = disk[f]])
           /\ UNCHANGED <<disk, open, next, done, staged, cuts>>
<1>1. [mine[p] EXCEPT ![f] = disk[f]] \in Mine
  <2>1. mine[p] \in Mine /\ disk \in Disk
    BY MineType
  <2>2. CASE f = "commits"
    BY <2>1, <2>2 DEF Mine, Disk
  <2>3. CASE f = "index"
    BY <2>1, <2>3 DEF Mine, Disk
  <2>4. CASE f = "pack"
    BY <2>1, <2>4 DEF Mine, Disk
  <2>5. CASE f = "stageIdx"
    BY <2>1, <2>5 DEF Mine, Disk
  <2>6. CASE f = "stagePack"
    BY <2>1, <2>6 DEF Mine, Disk
  <2> QED
    BY <2>2, <2>3, <2>4, <2>5, <2>6 DEF File
<1> QED
    BY <1>1, GoesOn, HoldsNew DEF Read

LEMMA TruncateDoes ==
    ASSUME TypeInv, NEW p \in Proc, NEW f \in File, NEW to \in Points, Truncate(p, f, to)
    PROVE  /\ Goes(p, to) /\ Holds(p, mine[p])
           /\ disk' = [disk EXCEPT ![f] = <<>>] /\ disk' \in Disk
           /\ open' = [open EXCEPT ![f] = @ \union {p}]
           /\ open' \in [File -> SUBSET Proc]
           /\ UNCHANGED <<next, done, staged, cuts>>
<1>1. [disk EXCEPT ![f] = <<>>] \in Disk
  <2>1. disk \in Disk
    BY MineType
  <2>2. CASE f = "commits"
    BY <2>1, <2>2, EmptySeq DEF Disk
  <2>3. CASE f = "index"
    BY <2>1, <2>3, EmptySeq DEF Disk
  <2>4. CASE f = "pack"
    BY <2>1, <2>4, EmptySeq DEF Disk
  <2>5. CASE f = "stageIdx"
    BY <2>1, <2>5, EmptySeq DEF Disk
  <2>6. CASE f = "stagePack"
    BY <2>1, <2>6, EmptySeq DEF Disk
  <2> QED
    BY <2>2, <2>3, <2>4, <2>5, <2>6 DEF File
<1>2. [open EXCEPT ![f] = @ \union {p}] \in [File -> SUBSET Proc]
    BY DEF TypeInv
<1> QED
    BY <1>1, <1>2, GoesOn, HoldsSame DEF Truncate

LEMMA CloseDoes ==
    ASSUME TypeInv, NEW p \in Proc, NEW f \in File, NEW new, Close(p, f, new),
           [disk EXCEPT ![f] = Written(f, new)] \in Disk
    PROVE  /\ disk' = [disk EXCEPT ![f] = Written(f, new)] /\ disk' \in Disk
           /\ open' = [open EXCEPT ![f] = @ \ {p}]
           /\ open' \in [File -> SUBSET Proc]
BY DEF Close, TypeInv

LEMMA ExitDoes ==
    ASSUME TypeInv, NEW p \in Proc, Exit(p)
    PROVE  Goes(p, "idle") /\ Holds(p, Empty)
<1>1. Empty \in Mine
    BY EmptySeq DEF Empty, Mine
<1>2. "idle" \in Points
    BY DEF Points
<1> QED
    BY <1>1, <1>2, GoesOn, HoldsNew DEF Exit

LEMMA BeginDoes ==
    ASSUME TypeInv, NEW p \in Proc, NEW to \in Points, Begin(p, to)
    PROVE  /\ Goes(p, to) /\ Holds(p, mine[p]) /\ next' \in Nat \ {0}
           /\ UNCHANGED <<disk, open, done, staged, cuts>>
<1>1. next \in Nat \ {0} /\ next' = next + 1
    BY DEF Begin, TypeInv
<1>2. next' \in Nat \ {0}
    BY <1>1
<1>3. /\ pc' = [pc EXCEPT ![p] = to] /\ mine' = mine
      /\ UNCHANGED <<disk, open, done, staged, cuts>>
    BY DEF Begin
<1> QED
    BY <1>2, <1>3, GoesOn, HoldsSame

-----------------------------------------------------------------------------
(* The steps that work in memory *)

LEMMA BeginInsertDoes ==
    ASSUME TypeInv, NEW p \in Proc, BeginInsert(p)
    PROVE  /\ pc[p] = "idle" /\ Goes(p, "insertReadIdx")
           /\ Holds(p, [mine[p] EXCEPT !.copy = <<next>>])
           /\ next \in Nat \ {0} /\ next' \in Nat \ {0}
           /\ UNCHANGED <<disk, open, done, staged, cuts>>
<1>1. next \in Nat \ {0} /\ next' = next + 1
    BY DEF BeginInsert, TypeInv
<1>2. [mine[p] EXCEPT !.copy = <<next>>] \in Mine
  <2>1. <<next>> \in Seq(Nat \union Place)
    BY <1>1
  <2> QED
    BY <2>1, MineType DEF Mine
<1>3. next' \in Nat \ {0}
    BY <1>1
<1>4. /\ pc[p] = "idle" /\ pc' = [pc EXCEPT ![p] = "insertReadIdx"]
      /\ mine' = [mine EXCEPT ![p] = [mine[p] EXCEPT !.copy = <<next>>]]
      /\ UNCHANGED <<disk, open, done, staged, cuts>>
    BY DEF BeginInsert
<1>5. Goes(p, "insertReadIdx")
    BY <1>4, GoesOn DEF Points, InsertPoints
<1> QED
    BY <1>1, <1>2, <1>3, <1>4, <1>5, HoldsNew

\* The name of an insert.
LEMMA InsertName ==
    ASSUME TypeInv, NEW p \in Proc, pc[p] \in InsertPoints
    PROVE  mine[p].copy[1] \in Nat \ {0}
<1>1. mine[p].copy \in Seq(Nat \ {0}) /\ Len(mine[p].copy) = 1
    BY DEF TypeInv
<1> QED
    BY <1>1

LEMMA InsertReadPackDoes ==
    ASSUME TypeInv, NEW p \in Proc, InsertReadPack(p)
    PROVE  LET name == mine[p].copy[1]
               place == [name |-> name, pos |-> Len(disk.stagePack) + 1]
           IN  /\ pc[p] = "insertReadPack" /\ Goes(p, "insertOpenPack")
               /\ name \in Nat \ {0} /\ place \in Node
               /\ Holds(p, [mine[p] EXCEPT !.stagePack = Append(disk.stagePack, name),
                                           !.stageIdx = Append(mine[p].stageIdx, place)])
               /\ UNCHANGED <<disk, open, next, done, staged, cuts>>
<1> DEFINE name == mine[p].copy[1]
           place == [name |-> name, pos |-> Len(disk.stagePack) + 1]
           m == [mine[p] EXCEPT !.stagePack = Append(disk.stagePack, name),
                                !.stageIdx = Append(mine[p].stageIdx, place)]
<1>1. pc[p] = "insertReadPack" /\ pc' = [pc EXCEPT ![p] = "insertOpenPack"]
      /\ UNCHANGED <<disk, open, next, done, staged, cuts>>
    BY DEF InsertReadPack
<1>2. name \in Nat \ {0}
    BY <1>1, InsertName DEF InsertPoints
<1>3. mine[p] \in Mine /\ disk.stagePack \in Seq(Nat) /\ mine[p].stageIdx \in Seq(Node)
    BY MineType DEF Mine, Disk
<1>4. place \in Node
  <2>1. Len(disk.stagePack) + 1 \in Nat
    BY <1>3
  <2> QED
    BY <1>2, <2>1 DEF Node
<1>5. mine' = [mine EXCEPT ![p] = m]
    BY DEF InsertReadPack
<1> HIDE DEF place, name
<1>6. m \in Mine
  <2>1. Append(disk.stagePack, name) \in Seq(Nat) /\ Append(mine[p].stageIdx, place) \in Seq(Node)
    BY <1>2, <1>3, <1>4
  <2> QED
    BY <1>3, <2>1 DEF Mine
<1>7. Goes(p, "insertOpenPack")
    BY <1>1, GoesOn DEF Points, InsertPoints
<1>8. Holds(p, m)
    BY <1>5, <1>6, HoldsNew
<1> QED
    BY <1>1, <1>2, <1>4, <1>7, <1>8 DEF name, place

LEMMA ReadMasterDoes ==
    ASSUME TypeInv, NEW p \in Proc, ReadMaster(p)
    PROVE  LET c == mine[p].commits
               copy == IF c = <<>> THEN <<>> ELSE Entries(c[Len(c)], disk.index)
           IN  /\ pc[p] = "readMaster" /\ Goes(p, "readStageIdx")
               /\ copy \in Seq(Place) /\ Holds(p, [mine[p] EXCEPT !.copy = copy])
               /\ UNCHANGED <<disk, open, next, done, staged, cuts>>
<1> DEFINE c == mine[p].commits
           copy == IF c = <<>> THEN <<>> ELSE Entries(c[Len(c)], disk.index)
<1>1. /\ pc[p] = "readMaster" /\ pc' = [pc EXCEPT ![p] = "readStageIdx"]
      /\ mine' = [mine EXCEPT ![p] = [mine[p] EXCEPT !.copy = copy]]
      /\ UNCHANGED <<disk, open, next, done, staged, cuts>>
    BY DEF ReadMaster
<1>2. mine[p] \in Mine /\ c \in Seq(CommitRec) /\ disk.index \in Seq(Place)
    BY MineType DEF Mine, Disk
<1>3. copy \in Seq(Place)
  <2>1. CASE c = <<>>
    BY <2>1, EmptySeq
  <2>2. CASE c # <<>>
    <3>1. c[Len(c)] \in CommitRec
      BY <1>2, <2>2, EmptySeq
    <3> QED
      BY <1>2, <2>2, <3>1, EntriesType
  <2> QED
    BY <2>1, <2>2
<1> HIDE DEF copy
<1>4. [mine[p] EXCEPT !.copy = copy] \in Mine
  <2>1. copy \in Seq(Nat \union Place)
    BY <1>3, SeqMonotonic
  <2> QED
    BY <1>2, <2>1 DEF Mine
<1>5. Goes(p, "readStageIdx")
    BY <1>1, GoesOn DEF Points, CopyPoints
<1>6. Holds(p, [mine[p] EXCEPT !.copy = copy])
    BY <1>1, <1>4, HoldsNew
<1> QED
    BY <1>1, <1>3, <1>5, <1>6 DEF copy

\* What a commit prepares from what it has read.
NewPlaces(nodes, pack) ==
    [k \in DOMAIN nodes |-> [name |-> nodes[k].name, pos |-> Len(pack) + k]]

NewContents(nodes, stagePack) ==
    [k \in DOMAIN nodes |-> At(stagePack, nodes[k].pos, 0)]

LEMMA NewTypes ==
    ASSUME NEW nodes \in Seq(Node), NEW pack \in Seq(Nat), NEW stagePack \in Seq(Nat)
    PROVE  /\ NewPlaces(nodes, pack) \in Seq(Place)
           /\ Len(NewPlaces(nodes, pack)) = Len(nodes)
           /\ NewContents(nodes, stagePack) \in Seq(Nat)
           /\ Len(NewContents(nodes, stagePack)) = Len(nodes)
<1>1. \A k \in 1 .. Len(nodes) :
        [name |-> nodes[k].name, pos |-> Len(pack) + k] \in Place
  <2> TAKE k \in 1 .. Len(nodes)
  <2>1. nodes[k] \in Node /\ Len(pack) + k \in Nat
    OBVIOUS
  <2> QED
    BY <2>1 DEF Place, Node
<1>2. \A k \in 1 .. Len(nodes) : At(stagePack, nodes[k].pos, 0) \in Nat
    BY DEF At
<1>3. DOMAIN nodes = 1 .. Len(nodes) /\ Len(nodes) \in Nat
    OBVIOUS
<1> DEFINE e(k) == [name |-> nodes[k].name, pos |-> Len(pack) + k]
           d(k) == At(stagePack, nodes[k].pos, 0)
           n == Len(nodes)
<1>4. /\ NewPlaces(nodes, pack) = [k \in 1 .. n |-> e(k)]
      /\ NewContents(nodes, stagePack) = [k \in 1 .. n |-> d(k)]
    BY <1>3 DEF NewPlaces, NewContents
<1>5. (\A k \in 1 .. n : e(k) \in Place) /\ (\A k \in 1 .. n : d(k) \in Nat) /\ n \in Nat
    BY <1>1, <1>2, <1>3
<1> HIDE DEF e, d, n
<1>6. /\ [k \in 1 .. n |-> e(k)] \in Seq(Place) /\ Len([k \in 1 .. n |-> e(k)]) = n
      /\ [k \in 1 .. n |-> d(k)] \in Seq(Nat) /\ Len([k \in 1 .. n |-> d(k)]) = n
    BY <1>5
<1> QED
    BY <1>4, <1>6 DEF n

LEMMA ReadPackDoes ==
    ASSUME TypeInv, NEW p \in Proc, ReadPack(p)
    PROVE  LET me == mine[p]
               all == me.copy \o NewPlaces(me.stageIdx, disk.pack)
               commit == [start |-> Len(me.index) + 1, len |-> Len(all), head |-> TRUE]
               new == [me EXCEPT
                    !.pack = disk.pack \o NewContents(me.stageIdx, me.stagePack),
                    !.index = me.index \o all,
                    !.copy = all,
                    !.commits = Append(WithoutHead(me.commits), commit)]
           IN  /\ pc[p] = "readPack" /\ Goes(p, "openPack")
               /\ me.copy \in Seq(Place) /\ all \in Seq(Place) /\ commit \in CommitRec
               /\ Holds(p, new)
               /\ UNCHANGED <<disk, open, next, done, staged, cuts>>
<1> DEFINE me == mine[p]
           all == me.copy \o NewPlaces(me.stageIdx, disk.pack)
           commit == [start |-> Len(me.index) + 1, len |-> Len(all), head |-> TRUE]
           new == [me EXCEPT
                    !.pack = disk.pack \o NewContents(me.stageIdx, me.stagePack),
                    !.index = me.index \o all,
                    !.copy = all,
                    !.commits = Append(WithoutHead(me.commits), commit)]
<1>1. /\ pc[p] = "readPack" /\ pc' = [pc EXCEPT ![p] = "openPack"]
      /\ mine' = [mine EXCEPT ![p] = new]
      /\ UNCHANGED <<disk, open, next, done, staged, cuts>>
    BY DEF ReadPack, NewPlaces, NewContents
<1>2. /\ me \in Mine /\ me.index \in Seq(Place) /\ me.commits \in Seq(CommitRec)
      /\ me.stageIdx \in Seq(Node) /\ me.stagePack \in Seq(Nat) /\ disk.pack \in Seq(Nat)
    BY MineType DEF Mine, Disk
<1>3. me.copy \in Seq(Place)
    BY <1>1 DEF TypeInv, CopyPoints
<1>4. /\ NewPlaces(me.stageIdx, disk.pack) \in Seq(Place)
      /\ NewContents(me.stageIdx, me.stagePack) \in Seq(Nat)
    BY <1>2, NewTypes
<1>5. all \in Seq(Place)
    BY <1>3, <1>4, ConcatProperties
<1>6. commit \in CommitRec
  <2> DEFINE n == Len(me.index)
             l == Len(all)
  <2>1. n \in Nat /\ l \in Nat
    BY <1>2, <1>5, LenProperties
  <2> HIDE DEF n, l
  <2>2. [start |-> n + 1, len |-> l, head |-> TRUE] \in CommitRec
    BY <2>1 DEF CommitRec
  <2> QED
    BY <2>2 DEF n, l
<1>7. new \in Mine
  <2>1. disk.pack \o NewContents(me.stageIdx, me.stagePack) \in Seq(Nat)
    BY <1>2, <1>4, ConcatProperties
  <2>2. me.index \o all \in Seq(Place)
    BY <1>2, <1>5, ConcatProperties
  <2>3. all \in Seq(Nat \union Place)
    BY <1>5, SeqMonotonic
  <2>4. Append(WithoutHead(me.commits), commit) \in Seq(CommitRec)
    BY <1>2, <1>6, WithoutHeadKeeps
  <2> HIDE DEF all, commit
  <2> QED
    BY <1>2, <2>1, <2>2, <2>3, <2>4 DEF Mine
<1>8. Goes(p, "openPack")
    BY <1>1, GoesOn DEF Points, CopyPoints
<1>9. Holds(p, new)
    BY <1>1, <1>7, HoldsNew
<1> QED
    BY <1>1, <1>3, <1>5, <1>6, <1>8, <1>9

\* head, head --reset and tag: all entries stay where they are.
LEMMA FlagsReadDoes ==
    ASSUME TypeInv, NEW p \in Proc, FlagsRead(p)
    PROVE  /\ pc[p] = "flagsRead" /\ Goes(p, "openFlags")
           /\ \E c \in Seq(CommitRec) :
                /\ SameRanges(c, disk.commits)
                /\ Holds(p, [mine[p] EXCEPT !.commits = c])
           /\ UNCHANGED <<disk, open, next, done, staged, cuts>>
<1> DEFINE old == disk.commits
<1>1. /\ pc[p] = "flagsRead" /\ pc' = [pc EXCEPT ![p] = "openFlags"]
      /\ UNCHANGED <<disk, open, next, done, staged, cuts>>
    BY DEF FlagsRead
<1>2. mine[p] \in Mine /\ old \in Seq(CommitRec)
    BY MineType DEF Disk
<1>3. PICK k \in DOMAIN old :
        \/ mine' = [mine EXCEPT ![p].commits = [WithoutHead(old) EXCEPT ![k].head = TRUE]]
        \/ mine' = [mine EXCEPT ![p].commits = [old EXCEPT ![k].head = FALSE]]
    BY DEF FlagsRead
<1>4. PICK c \in Seq(CommitRec) :
        SameRanges(c, old) /\ mine' = [mine EXCEPT ![p] = [mine[p] EXCEPT !.commits = c]]
  <2>1. CASE mine' = [mine EXCEPT ![p].commits = [old EXCEPT ![k].head = FALSE]]
    <3> DEFINE c == [old EXCEPT ![k].head = FALSE]
    <3>1. c \in Seq(CommitRec) /\ SameRanges(c, old)
      BY <1>2, FlagKeeps
    <3> HIDE DEF c
    <3> QED
      BY <2>1, <3>1 DEF c
  <2>2. CASE mine' = [mine EXCEPT ![p].commits = [WithoutHead(old) EXCEPT ![k].head = TRUE]]
    <3> DEFINE w == WithoutHead(old)
               c == [w EXCEPT ![k].head = TRUE]
    <3>1. w \in Seq(CommitRec) /\ SameRanges(w, old)
      BY <1>2, WithoutHeadKeeps
    <3>2. k \in DOMAIN w
      BY <1>2, <3>1 DEF SameRanges
    <3>3. c \in Seq(CommitRec) /\ SameRanges(c, w)
      BY <3>1, <3>2, FlagKeeps
    <3>4. SameRanges(c, old)
      BY <3>1, <3>3, SameRangesCompose
    <3> HIDE DEF c
    <3> QED
      BY <2>2, <3>3, <3>4 DEF c
  <2> QED
    BY <1>3, <2>1, <2>2
<1>5. [mine[p] EXCEPT !.commits = c] \in Mine
    BY <1>2, <1>4 DEF Mine
<1>6. Holds(p, [mine[p] EXCEPT !.commits = c])
    BY <1>4, <1>5, HoldsNew
<1>7. Goes(p, "openFlags")
    BY <1>1, GoesOn DEF Points
<1> QED
    BY <1>1, <1>4, <1>6, <1>7

-----------------------------------------------------------------------------
(* The steps that write *)

LEMMA InsertPackDoes ==
    ASSUME TypeInv, NEW p \in Proc, InsertPack(p)
    PROVE  /\ pc[p] = "insertPack" /\ Goes(p, "insertOpenIdx") /\ Holds(p, mine[p])
           /\ disk' = [disk EXCEPT !.stagePack = Written("stagePack", mine[p].stagePack)]
           /\ disk' \in Disk
           /\ open' = [open EXCEPT !["stagePack"] = @ \ {p}]
           /\ open' \in [File -> SUBSET Proc]
           /\ UNCHANGED <<next, done, staged, cuts>>
<1>1. disk \in Disk /\ disk["stagePack"] \in Seq(Nat) /\ mine[p].stagePack \in Seq(Nat)
    BY MineType DEF Disk, Mine
<1>2. Written("stagePack", mine[p].stagePack) \in Seq(Nat)
    BY <1>1, WrittenOver DEF File, Counted
<1>3. [disk EXCEPT !["stagePack"] = Written("stagePack", mine[p].stagePack)] \in Disk
    BY <1>1, <1>2 DEF Disk
<1>4. "stagePack" \in File /\ "insertOpenIdx" \in Points
    BY DEF File, Points, InsertPoints
<1>5. /\ pc[p] = "insertPack" /\ pc' = [pc EXCEPT ![p] = "insertOpenIdx"] /\ mine' = mine
      /\ Close(p, "stagePack", mine[p].stagePack) /\ UNCHANGED <<next, done, staged, cuts>>
    BY DEF InsertPack
<1>6. Goes(p, "insertOpenIdx") /\ Holds(p, mine[p])
    BY <1>4, <1>5, GoesOn, HoldsSame
<1> QED
    BY <1>3, <1>4, <1>5, <1>6, CloseDoes

LEMMA InsertIdxDoes ==
    ASSUME TypeInv, NEW p \in Proc, InsertIdx(p)
    PROVE  /\ pc[p] = "insertIdx" /\ Goes(p, "idle") /\ Holds(p, Empty)
           /\ disk' = [disk EXCEPT !.stageIdx = mine[p].stageIdx] /\ disk' \in Disk
           /\ open' = [open EXCEPT !["stageIdx"] = @ \ {p}]
           /\ open' \in [File -> SUBSET Proc]
           /\ staged' = staged \union {mine[p].copy[1]}
           /\ UNCHANGED <<next, done, cuts>>
<1>1. [disk EXCEPT !["stageIdx"] = mine[p].stageIdx] \in Disk
    BY MineType DEF Disk, Mine
<1>2. Written("stageIdx", mine[p].stageIdx) = mine[p].stageIdx
    BY WrittenIsNew DEF Counted
<1>3. "stageIdx" \in File
    BY DEF File
<1> QED
    BY <1>1, <1>2, <1>3, CloseDoes, ExitDoes DEF InsertIdx

\* A whole pack, or a part of it.
LEMMA WritePackDoes ==
    ASSUME TypeInv, NEW p \in Proc, WritePack(p) \/ CutPack(p)
    PROVE  /\ pc[p] = "writePack" /\ Goes(p, "openCommits") /\ Holds(p, mine[p])
           /\ \E pack \in Seq(Nat) :
                /\ disk' = [disk EXCEPT !.pack = pack]
                /\ WritePack(p) => pack = mine[p].pack
           /\ disk' \in Disk
           /\ open' = [open EXCEPT !["pack"] = @ \ {p}]
           /\ open' \in [File -> SUBSET Proc]
           /\ WritePack(p) => cuts' = cuts
           /\ CutPack(p) => cuts' = cuts + 1
           /\ UNCHANGED <<next, done, staged>>
<1>1. mine[p].pack \in Seq(Nat) /\ disk \in Disk
    BY MineType DEF Mine
<1>2. ASSUME NEW pack \in Seq(Nat), Close(p, "pack", pack)
      PROVE  /\ disk' = [disk EXCEPT !.pack = pack] /\ disk' \in Disk
             /\ open' = [open EXCEPT !["pack"] = @ \ {p}]
             /\ open' \in [File -> SUBSET Proc]
  <2>1. [disk EXCEPT !["pack"] = pack] \in Disk
    BY <1>1 DEF Disk
  <2>2. Written("pack", pack) = pack /\ "pack" \in File
    BY WrittenIsNew DEF Counted, File
  <2> QED
    BY <1>2, <2>1, <2>2, CloseDoes
<1>3. pc[p] = "writePack" /\ Goes(p, "openCommits") /\ Holds(p, mine[p])
  <2>1. "openCommits" \in Points
    BY DEF Points, CopyPoints
  <2> QED
    BY <2>1, GoesOn, HoldsSame DEF WritePack, CutPack
<1>4. \E pack \in Seq(Nat) :
        Close(p, "pack", pack) /\ (WritePack(p) => pack = mine[p].pack)
  <2>1. CASE WritePack(p)
    BY <1>1, <2>1 DEF WritePack
  <2>2. CASE CutPack(p) /\ ~WritePack(p)
    <3>1. PICK n \in 0 .. Len(mine[p].pack) - 1 : Close(p, "pack", SubSeq(mine[p].pack, 1, n))
      BY <2>2 DEF CutPack
    <3>2. SubSeq(mine[p].pack, 1, n) \in Seq(Nat)
      <4>1. \A k \in 1 .. n : mine[p].pack[k] \in Nat
        BY <1>1
      <4>2. n \in Int /\ 1 \in Int
        OBVIOUS
      <4> QED
        BY <4>1, <4>2, SubSeqProperties
    <3> QED
      BY <2>2, <3>1, <3>2
  <2> QED
    BY <2>1, <2>2
<1>5. /\ WritePack(p) => cuts' = cuts
      /\ CutPack(p) => cuts' = cuts + 1
      /\ UNCHANGED <<next, done, staged>>
    BY DEF WritePack, CutPack
<1> QED
    BY <1>2, <1>3, <1>4, <1>5

LEMMA WriteCommitsDoes ==
    ASSUME TypeInv, NEW p \in Proc, WriteCommits(p)
    PROVE  /\ pc[p] = "writeCommits" /\ Goes(p, "openIndex") /\ Holds(p, mine[p])
           /\ disk' = [disk EXCEPT !.commits = mine[p].commits] /\ disk' \in Disk
           /\ open' = [open EXCEPT !["commits"] = @ \ {p}]
           /\ open' \in [File -> SUBSET Proc]
           /\ UNCHANGED <<next, done, staged, cuts>>
<1>1. [disk EXCEPT !["commits"] = mine[p].commits] \in Disk
    BY MineType DEF Disk, Mine
<1>2. Written("commits", mine[p].commits) = mine[p].commits
    BY WrittenIsNew DEF Counted
<1>3. "commits" \in File /\ "openIndex" \in Points
    BY DEF File, Points, CopyPoints
<1>4. /\ pc[p] = "writeCommits" /\ pc' = [pc EXCEPT ![p] = "openIndex"] /\ mine' = mine
      /\ Close(p, "commits", mine[p].commits) /\ UNCHANGED <<next, done, staged, cuts>>
    BY DEF WriteCommits
<1>5. Goes(p, "openIndex") /\ Holds(p, mine[p])
    BY <1>3, <1>4, GoesOn, HoldsSame
<1> QED
    BY <1>1, <1>2, <1>3, <1>4, <1>5, CloseDoes

LEMMA WriteFlagsDoes ==
    ASSUME TypeInv, NEW p \in Proc, WriteFlags(p)
    PROVE  /\ pc[p] = "writeFlags" /\ Goes(p, "idle") /\ Holds(p, Empty)
           /\ disk' = [disk EXCEPT !.commits = mine[p].commits] /\ disk' \in Disk
           /\ open' = [open EXCEPT !["commits"] = @ \ {p}]
           /\ open' \in [File -> SUBSET Proc]
           /\ UNCHANGED <<next, done, staged, cuts>>
<1>1. [disk EXCEPT !["commits"] = mine[p].commits] \in Disk
    BY MineType DEF Disk, Mine
<1>2. Written("commits", mine[p].commits) = mine[p].commits
    BY WrittenIsNew DEF Counted
<1>3. "commits" \in File
    BY DEF File
<1> QED
    BY <1>1, <1>2, <1>3, CloseDoes, ExitDoes DEF WriteFlags

LEMMA WriteIndexDoes ==
    ASSUME TypeInv, NEW p \in Proc, WriteIndex(p)
    PROVE  LET made == [entries |-> mine[p].copy,
                        genuine |-> Genuine(mine[p].copy, disk.pack)]
           IN  /\ pc[p] = "writeIndex" /\ Goes(p, "cleanIdx") /\ Holds(p, mine[p])
               /\ disk' = [disk EXCEPT !.index = Written("index", mine[p].index)]
               /\ disk' \in Disk
               /\ disk.index = <<>> => disk'.index = mine[p].index
               /\ open' = [open EXCEPT !["index"] = @ \ {p}]
               /\ open' \in [File -> SUBSET Proc]
               /\ mine[p].copy \in Seq(Place) /\ made.genuine \in BOOLEAN
               /\ done' = done \union {made}
               /\ UNCHANGED <<next, staged, cuts>>
<1> DEFINE index == Written("index", mine[p].index)
           genuine == Genuine(mine[p].copy, disk.pack)
<1>1. disk \in Disk /\ disk["index"] \in Seq(Place) /\ mine[p].index \in Seq(Place)
    BY MineType DEF Disk, Mine
<1>2. index \in Seq(Place) /\ (disk["index"] = <<>> => index = mine[p].index)
    BY <1>1, WrittenOver DEF File, Counted
<1>3. Close(p, "index", mine[p].index) /\ pc[p] = "writeIndex" /\ Completed(p)
      /\ pc' = [pc EXCEPT ![p] = "cleanIdx"] /\ UNCHANGED <<mine, next, staged, cuts>>
    BY DEF WriteIndex
<1>4. [disk EXCEPT !["index"] = index] \in Disk
  <2> HIDE DEF index
  <2> QED
    BY <1>1, <1>2 DEF Disk
<1>5. "index" \in File /\ "cleanIdx" \in Points
    BY DEF File, Points
<1>6. Goes(p, "cleanIdx") /\ Holds(p, mine[p])
    BY <1>3, <1>5, GoesOn, HoldsSame
<1>7. /\ disk' = [disk EXCEPT !["index"] = index] /\ disk' \in Disk
      /\ open' = [open EXCEPT !["index"] = @ \ {p}] /\ open' \in [File -> SUBSET Proc]
    BY <1>3, <1>4, <1>5, CloseDoes
<1>8. mine[p].copy \in Seq(Place)
    BY <1>3 DEF TypeInv, CopyPoints
<1>9. genuine \in BOOLEAN
    BY Zenon DEF Genuine
<1>10. done' = done \union {[entries |-> mine[p].copy, genuine |-> genuine]}
    BY <1>3 DEF Completed
<1>11. disk.index = <<>> => disk'.index = mine[p].index
  <2> HIDE DEF index
  <2> QED
    BY <1>1, <1>2, <1>7 DEF Disk
<1> HIDE DEF genuine
<1>12. [entries |-> mine[p].copy, genuine |-> genuine].genuine = genuine
    OBVIOUS
<1> QED
    BY <1>3, <1>6, <1>7, <1>8, <1>9, <1>10, <1>11, <1>12 DEF genuine

LEMMA CleanIdxDoes ==
    ASSUME TypeInv, NEW p \in Proc, CleanIdx(p)
    PROVE  /\ pc[p] = "cleanIdx" /\ Goes(p, "cleanPack") /\ Holds(p, mine[p])
           /\ disk' = [disk EXCEPT !.stageIdx = <<>>] /\ disk' \in Disk
           /\ staged' = staged \ Names(mine[p].stageIdx)
           /\ UNCHANGED <<open, next, done, cuts>>
<1>1. [disk EXCEPT !.stageIdx = <<>>] \in Disk
    BY MineType, EmptySeq DEF Disk
<1>2. "cleanPack" \in Points
    BY DEF Points
<1> QED
    BY <1>1, <1>2, GoesOn, HoldsSame DEF CleanIdx

LEMMA CleanPackDoes ==
    ASSUME TypeInv, NEW p \in Proc, CleanPack(p)
    PROVE  /\ pc[p] = "cleanPack" /\ Goes(p, "idle") /\ Holds(p, Empty)
           /\ disk' = [disk EXCEPT !.stagePack = <<>>] /\ disk' \in Disk
           /\ UNCHANGED <<open, next, done, staged, cuts>>
<1>1. [disk EXCEPT !.stagePack = <<>>] \in Disk
    BY MineType, EmptySeq DEF Disk
<1> QED
    BY <1>1, ExitDoes DEF CleanPack

-----------------------------------------------------------------------------
(* Types are kept *)

LEMMA TypeStep ==
    ASSUME TypeInv, NEW p \in Proc, NEW to \in Points, NEW m, Goes(p, to), Holds(p, m),
           disk' \in Disk, open' \in [File -> SUBSET Proc], next' \in Nat \ {0},
           done' \subseteq [entries : Seq(Place), genuine : BOOLEAN],
           raced' \in [history : BOOLEAN, stage : BOOLEAN], cuts' \in Nat,
           to \in InsertPoints => m.copy \in Seq(Nat \ {0}) /\ Len(m.copy) = 1,
           to \in CopyPoints => m.copy \in Seq(Place)
    PROVE  TypeInv'
<1>1. \A q \in Proc : pc'[q] \in InsertPoints =>
            mine'[q].copy \in Seq(Nat \ {0}) /\ Len(mine'[q].copy) = 1
    BY DEF TypeInv, Goes, Holds
<1>2. \A q \in Proc : pc'[q] \in CopyPoints => mine'[q].copy \in Seq(Place)
    BY DEF TypeInv, Goes, Holds
<1>3. pc' \in [Proc -> Points] /\ mine' \in [Proc -> Mine]
    BY DEF Goes, Holds
<1> QED
    BY <1>1, <1>2, <1>3 DEF TypeInv

RacedType == raced' \in [history : BOOLEAN, stage : BOOLEAN]

LEMMA TypeInsert ==
    ASSUME TypeInv, RacedType, NEW p \in Proc, Insert(p) PROVE TypeInv'
<1> USE DEF RacedType
<1>1. /\ open \in [File -> SUBSET Proc] /\ next \in Nat \ {0} /\ disk \in Disk
      /\ done \subseteq [entries : Seq(Place), genuine : BOOLEAN] /\ cuts \in Nat
    BY DEF TypeInv
<1>2. pc[p] \in InsertPoints => mine[p].copy \in Seq(Nat \ {0}) /\ Len(mine[p].copy) = 1
    BY DEF TypeInv
<1>3. mine[p] \in Mine
    BY MineType
<1>4. /\ InsertPoints \cap CopyPoints = {} /\ InsertPoints \subseteq Points
      /\ "idle" \in Points /\ "idle" \notin InsertPoints /\ "idle" \notin CopyPoints
      /\ {"stageIdx", "stagePack"} \subseteq File
    BY DEF InsertPoints, CopyPoints, Points, File
<1>5. CASE BeginInsert(p)
  <2> DEFINE m == [mine[p] EXCEPT !.copy = <<next>>]
  <2>1. m.copy = <<next>>
    BY <1>3 DEF Mine
  <2>2. <<next>> \in Seq(Nat \ {0}) /\ Len(<<next>>) = 1
    BY <1>1
  <2>3. "insertReadIdx" \in InsertPoints
    BY DEF InsertPoints
  <2>4. /\ Goes(p, "insertReadIdx") /\ Holds(p, m) /\ next' \in Nat \ {0}
        /\ UNCHANGED <<disk, open, done, staged, cuts>>
    BY <1>5, BeginInsertDoes
  <2> HIDE DEF m
  <2> QED
    BY <1>1, <1>4, <2>1, <2>2, <2>3, <2>4, TypeStep
<1>6. CASE InsertReadIdx(p)
  <2> DEFINE m == [mine[p] EXCEPT !["stageIdx"] = disk["stageIdx"]]
  <2>1. pc[p] \in InsertPoints /\ "insertReadPack" \in InsertPoints
    BY <1>6 DEF InsertReadIdx, InsertPoints
  <2>2. m.copy = mine[p].copy
    BY <1>3 DEF Mine
  <2>3. /\ Goes(p, "insertReadPack") /\ Holds(p, m)
        /\ UNCHANGED <<disk, open, next, done, staged, cuts>>
    BY <1>4, <1>6, <2>1, ReadDoes DEF InsertReadIdx
  <2> HIDE DEF m
  <2> QED
    BY <1>1, <1>2, <1>4, <2>1, <2>2, <2>3, TypeStep
<1>7. CASE InsertReadPack(p)
  <2> DEFINE name == mine[p].copy[1]
             place == [name |-> name, pos |-> Len(disk.stagePack) + 1]
             m == [mine[p] EXCEPT !.stagePack = Append(disk.stagePack, name),
                                  !.stageIdx = Append(mine[p].stageIdx, place)]
  <2>1. pc[p] \in InsertPoints /\ "insertOpenPack" \in InsertPoints
    BY <1>7 DEF InsertReadPack, InsertPoints
  <2>2. m.copy = mine[p].copy
    BY <1>3 DEF Mine
  <2>3. /\ Goes(p, "insertOpenPack") /\ Holds(p, m)
        /\ UNCHANGED <<disk, open, next, done, staged, cuts>>
    BY <1>7, InsertReadPackDoes
  <2> HIDE DEF m
  <2> QED
    BY <1>1, <1>2, <1>4, <2>1, <2>2, <2>3, TypeStep
<1>8. CASE InsertOpenPack(p)
  <2>1. pc[p] \in InsertPoints /\ "insertPack" \in InsertPoints
    BY <1>8 DEF InsertOpenPack, InsertPoints
  <2> QED
    BY <1>1, <1>2, <1>4, <1>8, <2>1, TruncateDoes, TypeStep DEF InsertOpenPack
<1>9. CASE InsertPack(p)
  <2>1. pc[p] \in InsertPoints /\ "insertOpenIdx" \in InsertPoints
    BY <1>9 DEF InsertPack, InsertPoints
  <2> QED
    BY <1>1, <1>2, <1>4, <1>9, <2>1, InsertPackDoes, TypeStep
<1>10. CASE InsertOpenIdx(p)
  <2>1. pc[p] \in InsertPoints /\ "insertIdx" \in InsertPoints
    BY <1>10 DEF InsertOpenIdx, InsertPoints
  <2> QED
    BY <1>1, <1>2, <1>4, <1>10, <2>1, TruncateDoes, TypeStep DEF InsertOpenIdx
<1>11. CASE InsertIdx(p)
    BY <1>1, <1>4, <1>11, InsertIdxDoes, TypeStep
<1> QED
    BY <1>5, <1>6, <1>7, <1>8, <1>9, <1>10, <1>11 DEF Insert

LEMMA TypeCommit ==
    ASSUME TypeInv, RacedType, NEW p \in Proc, Commit(p) PROVE TypeInv'
<1> USE DEF RacedType
<1>1. /\ open \in [File -> SUBSET Proc] /\ next \in Nat \ {0} /\ disk \in Disk
      /\ done \subseteq [entries : Seq(Place), genuine : BOOLEAN] /\ cuts \in Nat
    BY DEF TypeInv
<1>2. mine[p] \in Mine /\ (pc[p] \in CopyPoints => mine[p].copy \in Seq(Place))
    BY MineType DEF TypeInv
<1>3. /\ InsertPoints \cap CopyPoints = {} /\ CopyPoints \subseteq Points
      /\ {"commits", "index", "pack", "stageIdx", "stagePack"} \subseteq File
    BY DEF InsertPoints, CopyPoints, Points, File
<1>4. \A to \in {"idle", "readCommits", "readMaster", "resetRead", "cleanIdx", "cleanPack",
                 "flagsRead", "openFlags", "writeFlags"} :
            to \in Points /\ to \notin InsertPoints /\ to \notin CopyPoints
    BY DEF InsertPoints, CopyPoints, Points
<1>5. CASE BeginCommit(p)
    BY <1>1, <1>4, <1>5, BeginDoes, TypeStep DEF BeginCommit
<1>6. CASE ReadCommits(p)
  <2> DEFINE m == [mine[p] EXCEPT !["commits"] = disk["commits"]]
  <2>1. /\ Goes(p, "readMaster") /\ Holds(p, m)
        /\ UNCHANGED <<disk, open, next, done, staged, cuts>>
    BY <1>3, <1>4, <1>6, ReadDoes DEF ReadCommits
  <2> HIDE DEF m
  <2> QED
    BY <1>1, <1>4, <2>1, TypeStep
<1>7. CASE ReadMaster(p)
  <2> DEFINE c == mine[p].commits
             copy == IF c = <<>> THEN <<>> ELSE Entries(c[Len(c)], disk.index)
             m == [mine[p] EXCEPT !.copy = copy]
  <2>1. /\ copy \in Seq(Place) /\ Goes(p, "readStageIdx") /\ Holds(p, m)
        /\ UNCHANGED <<disk, open, next, done, staged, cuts>>
    BY <1>7, ReadMasterDoes
  <2>2. m.copy = copy
    BY <1>2 DEF Mine
  <2>3. "readStageIdx" \in CopyPoints
    BY DEF CopyPoints
  <2> HIDE DEF m, copy
  <2> QED
    BY <1>1, <1>3, <2>1, <2>2, <2>3, TypeStep
<1>8. CASE ReadStageIdx(p)
  <2> DEFINE m == [mine[p] EXCEPT !["stageIdx"] = disk["stageIdx"]]
  <2>1. pc[p] \in CopyPoints /\ "readStagePack" \in CopyPoints
    BY <1>8 DEF ReadStageIdx, CopyPoints
  <2>2. m.copy = mine[p].copy
    BY <1>2 DEF Mine
  <2>3. /\ Goes(p, "readStagePack") /\ Holds(p, m)
        /\ UNCHANGED <<disk, open, next, done, staged, cuts>>
    BY <1>3, <1>8, <2>1, ReadDoes DEF ReadStageIdx
  <2> HIDE DEF m
  <2> QED
    BY <1>1, <1>2, <1>3, <2>1, <2>2, <2>3, TypeStep
<1>9. CASE ReadStagePack(p)
  <2> DEFINE m == [mine[p] EXCEPT !["stagePack"] = disk["stagePack"]]
  <2>1. pc[p] \in CopyPoints /\ "readIndex" \in CopyPoints
    BY <1>9 DEF ReadStagePack, CopyPoints
  <2>2. m.copy = mine[p].copy
    BY <1>2 DEF Mine
  <2>3. /\ Goes(p, "readIndex") /\ Holds(p, m)
        /\ UNCHANGED <<disk, open, next, done, staged, cuts>>
    BY <1>3, <1>9, <2>1, ReadDoes DEF ReadStagePack
  <2> HIDE DEF m
  <2> QED
    BY <1>1, <1>2, <1>3, <2>1, <2>2, <2>3, TypeStep
<1>10. CASE CommitNothing(p)
    BY <1>1, <1>4, <1>10, ExitDoes, TypeStep DEF CommitNothing
<1>11. CASE ReadIndex(p)
  <2> DEFINE m == [mine[p] EXCEPT !["index"] = disk["index"]]
  <2>1. pc[p] \in CopyPoints /\ "readPack" \in CopyPoints
    BY <1>11 DEF ReadIndex, CopyPoints
  <2>2. m.copy = mine[p].copy
    BY <1>2 DEF Mine
  <2>3. /\ Goes(p, "readPack") /\ Holds(p, m)
        /\ UNCHANGED <<disk, open, next, done, staged, cuts>>
    BY <1>3, <1>11, <2>1, ReadDoes DEF ReadIndex
  <2> HIDE DEF m
  <2> QED
    BY <1>1, <1>2, <1>3, <2>1, <2>2, <2>3, TypeStep
<1>12. CASE ReadPack(p)
  <2> DEFINE me == mine[p]
             all == me.copy \o NewPlaces(me.stageIdx, disk.pack)
             commit == [start |-> Len(me.index) + 1, len |-> Len(all), head |-> TRUE]
             m == [me EXCEPT
                    !.pack = disk.pack \o NewContents(me.stageIdx, me.stagePack),
                    !.index = me.index \o all,
                    !.copy = all,
                    !.commits = Append(WithoutHead(me.commits), commit)]
  <2>1. /\ all \in Seq(Place) /\ Goes(p, "openPack") /\ Holds(p, m)
        /\ UNCHANGED <<disk, open, next, done, staged, cuts>>
    BY <1>12, ReadPackDoes
  <2>2. m.copy = all
    <3> HIDE DEF all, commit
    <3> QED
      BY <1>2 DEF Mine
  <2>3. "openPack" \in CopyPoints
    BY DEF CopyPoints
  <2> HIDE DEF m, all
  <2> QED
    BY <1>1, <1>3, <2>1, <2>2, <2>3, TypeStep
<1>13. CASE OpenPack(p)
  <2>1. pc[p] \in CopyPoints /\ "writePack" \in CopyPoints
    BY <1>13 DEF OpenPack, CopyPoints
  <2> QED
    BY <1>1, <1>2, <1>3, <1>13, <2>1, TruncateDoes, TypeStep DEF OpenPack
<1>14. CASE WritePack(p) \/ CutPack(p)
  <2>1. pc[p] \in CopyPoints /\ "openCommits" \in CopyPoints
    BY <1>14 DEF WritePack, CutPack, CopyPoints
  <2>2. cuts' \in Nat
    <3>1. cuts' = cuts \/ cuts' = cuts + 1
      BY <1>14, WritePackDoes
    <3> QED
      BY <1>1, <3>1
  <2> QED
    BY <1>1, <1>2, <1>3, <1>14, <2>1, <2>2, WritePackDoes, TypeStep
<1>15. CASE OpenCommits(p)
  <2>1. pc[p] \in CopyPoints /\ "writeCommits" \in CopyPoints
    BY <1>15 DEF OpenCommits, CopyPoints
  <2> QED
    BY <1>1, <1>2, <1>3, <1>15, <2>1, TruncateDoes, TypeStep DEF OpenCommits
<1>16. CASE WriteCommits(p)
  <2>1. pc[p] \in CopyPoints /\ "openIndex" \in CopyPoints
    BY <1>16 DEF WriteCommits, CopyPoints
  <2> QED
    BY <1>1, <1>2, <1>3, <1>16, <2>1, WriteCommitsDoes, TypeStep
<1>17. CASE OpenIndex(p)
  <2>1. pc[p] \in CopyPoints /\ "writeIndex" \in CopyPoints
    BY <1>17 DEF OpenIndex, CopyPoints
  <2> QED
    BY <1>1, <1>2, <1>3, <1>17, <2>1, TruncateDoes, TypeStep DEF OpenIndex
<1>18. CASE WriteIndex(p)
  <2> DEFINE made == [entries |-> mine[p].copy, genuine |-> Genuine(mine[p].copy, disk.pack)]
  <2>1. /\ mine[p].copy \in Seq(Place) /\ made.genuine \in BOOLEAN
        /\ done' = done \union {made} /\ made.genuine = Genuine(mine[p].copy, disk.pack)
    BY <1>18, WriteIndexDoes
  <2>2. made \in [entries : Seq(Place), genuine : BOOLEAN]
    BY <2>1
  <2> HIDE DEF made
  <2>3. done' \subseteq [entries : Seq(Place), genuine : BOOLEAN]
    BY <1>1, <2>1, <2>2
  <2> QED
    BY <1>1, <1>4, <1>18, <2>3, WriteIndexDoes, TypeStep
<1> QED
    BY <1>5, <1>6, <1>7, <1>8, <1>9, <1>10, <1>11, <1>12, <1>13, <1>14, <1>15, <1>16,
       <1>17, <1>18
    DEF Commit

LEMMA TypeCleanFlags ==
    ASSUME TypeInv, RacedType, NEW p \in Proc, Clean(p) \/ Flags(p) PROVE TypeInv'
<1> USE DEF RacedType
<1>1. /\ open \in [File -> SUBSET Proc] /\ next \in Nat \ {0} /\ disk \in Disk
      /\ done \subseteq [entries : Seq(Place), genuine : BOOLEAN] /\ cuts \in Nat
    BY DEF TypeInv
<1>2. mine[p] \in Mine /\ (pc[p] \in CopyPoints => mine[p].copy \in Seq(Place))
    BY MineType DEF TypeInv
<1>3. /\ InsertPoints \cap CopyPoints = {} /\ CopyPoints \subseteq Points
      /\ {"commits", "index", "pack", "stageIdx", "stagePack"} \subseteq File
    BY DEF InsertPoints, CopyPoints, Points, File
<1>4. \A to \in {"idle", "readCommits", "readMaster", "resetRead", "cleanIdx", "cleanPack",
                 "flagsRead", "openFlags", "writeFlags"} :
            to \in Points /\ to \notin InsertPoints /\ to \notin CopyPoints
    BY DEF InsertPoints, CopyPoints, Points
<1>5. CASE BeginReset(p) \/ BeginFlags(p)
    BY <1>1, <1>4, <1>5, BeginDoes, TypeStep DEF BeginReset, BeginFlags
<1>6. CASE ResetRead(p)
  <2> DEFINE m == [mine[p] EXCEPT !["stageIdx"] = disk["stageIdx"]]
  <2>1. /\ Goes(p, "cleanIdx") /\ Holds(p, m)
        /\ UNCHANGED <<disk, open, next, done, staged, cuts>>
    BY <1>3, <1>4, <1>6, ReadDoes DEF ResetRead
  <2> HIDE DEF m
  <2> QED
    BY <1>1, <1>4, <2>1, TypeStep
<1>7. CASE CleanIdx(p)
    BY <1>1, <1>4, <1>7, CleanIdxDoes, TypeStep
<1>8. CASE CleanPack(p)
    BY <1>1, <1>4, <1>8, CleanPackDoes, TypeStep
<1>9. CASE NoCommits(p)
    BY <1>1, <1>4, <1>9, ExitDoes, TypeStep DEF NoCommits
<1>10. CASE FlagsRead(p)
  <2>1. PICK c \in Seq(CommitRec) : Holds(p, [mine[p] EXCEPT !.commits = c])
    BY <1>10, FlagsReadDoes
  <2> DEFINE m == [mine[p] EXCEPT !.commits = c]
  <2>2. /\ Goes(p, "openFlags") /\ Holds(p, m)
        /\ UNCHANGED <<disk, open, next, done, staged, cuts>>
    BY <1>10, <2>1, FlagsReadDoes
  <2> HIDE DEF m
  <2> QED
    BY <1>1, <1>4, <2>2, TypeStep
<1>11. CASE OpenFlags(p)
    BY <1>1, <1>3, <1>4, <1>11, TruncateDoes, TypeStep DEF OpenFlags
<1>12. CASE WriteFlags(p)
    BY <1>1, <1>4, <1>12, WriteFlagsDoes, TypeStep
<1> QED
    BY <1>5, <1>6, <1>7, <1>8, <1>9, <1>10, <1>11, <1>12 DEF Clean, Flags

\* Once raced, always raced.
LEMMA RacedStep ==
    ASSUME TypeInv, Next
    PROVE  /\ RacedType
           /\ raced'.history = (raced.history \/ Both(HistoryWindow)')
           /\ raced'.stage = (raced.stage \/ Both(StageWindow)')
<1> DEFINE h == raced.history \/ Both(HistoryWindow)'
           s == raced.stage \/ Both(StageWindow)'
<1>1. h \in BOOLEAN /\ s \in BOOLEAN
    BY Zenon
<1>2. raced' = [history |-> h, stage |-> s]
    BY DEF Next
<1> HIDE DEF h, s
<1>3. RacedType /\ raced'.history = h /\ raced'.stage = s
    BY <1>1, <1>2 DEF RacedType
<1> QED
    BY <1>3 DEF h, s

LEMMA TypeNext == TypeInv /\ [Next]_vars => TypeInv'
<1> SUFFICES ASSUME TypeInv, [Next]_vars PROVE TypeInv'
    OBVIOUS
<1>1. CASE Next
  <2>1. PICK p \in Proc : Insert(p) \/ Commit(p) \/ Clean(p) \/ Flags(p)
    BY <1>1 DEF Next
  <2> QED
    BY <1>1, <2>1, RacedStep, TypeInsert, TypeCommit, TypeCleanFlags
<1>2. CASE UNCHANGED vars
    BY <1>2 DEF vars, TypeInv
<1> QED
    BY <1>1, <1>2

LEMMA TypeInit == Init => TypeInv
<1> SUFFICES ASSUME Init PROVE TypeInv
    OBVIOUS
<1>1. disk \in Disk
  <2>1. /\ [start |-> 1, len |-> 1, head |-> TRUE] \in CommitRec
        /\ [name |-> 1, pos |-> 1] \in Place /\ [name |-> 2, pos |-> 1] \in Node
        /\ 1 \in Nat /\ 2 \in Nat
    BY DEF CommitRec, Place, Node
  <2>2. \A S : \A x \in S : <<x>> \in Seq(S)
    OBVIOUS
  <2>3. /\ <<[start |-> 1, len |-> 1, head |-> TRUE]>> \in Seq(CommitRec)
        /\ <<[name |-> 1, pos |-> 1]>> \in Seq(Place)
        /\ <<[name |-> 2, pos |-> 1]>> \in Seq(Node)
        /\ <<1>> \in Seq(Nat) /\ <<2>> \in Seq(Nat)
    BY <2>1, <2>2
  <2> QED
    BY <2>3 DEF Init, Disk
<1>2. Empty \in Mine
    BY EmptySeq DEF Empty, Mine
<1>3. done \subseteq [entries : Seq(Place), genuine : BOOLEAN]
  <2>1. [name |-> 1, pos |-> 1] \in Place
    BY DEF Place
  <2>2. <<[name |-> 1, pos |-> 1]>> \in Seq(Place)
    BY <2>1
  <2> QED
    BY <2>2 DEF Init
<1>4. /\ pc \in [Proc -> Points] /\ \A p \in Proc : pc[p] = "idle"
      /\ mine \in [Proc -> Mine]
    BY <1>2 DEF Init, Points
<1>5. "idle" \notin InsertPoints /\ "idle" \notin CopyPoints
    BY DEF InsertPoints, CopyPoints
<1>6. /\ open \in [File -> SUBSET Proc] /\ next \in Nat \ {0} /\ cuts \in Nat
      /\ raced \in [history : BOOLEAN, stage : BOOLEAN]
    BY DEF Init
<1> QED
    BY <1>1, <1>3, <1>4, <1>5, <1>6 DEF TypeInv

-----------------------------------------------------------------------------
(* Truncated files are those that a process is about to write *)

LEMMA OpenStep ==
    ASSUME TypeInv, OpenInv, NEW p \in Proc, NEW to \in Points, Goes(p, to),
           \A f \in File :
              open'[f] = IF to \in WritingAt[f] THEN open[f] \union {p} ELSE open[f] \ {p}
    PROVE  OpenInv'
<1> SUFFICES ASSUME NEW f \in File PROVE open'[f] = OpenedBy(WritingAt[f])'
    BY DEF OpenInv, WritingAt
<1> DEFINE at == WritingAt[f]
<1>1. open[f] = {q \in Proc : pc[q] \in at}
    BY DEF OpenInv, OpenedBy
<1>2. open'[f] = IF to \in at THEN open[f] \union {p} ELSE open[f] \ {p}
    OBVIOUS
<1>3. OpenedBy(WritingAt[f])' = {q \in Proc : pc'[q] \in at}
    BY DEF OpenedBy
<1> HIDE DEF at
<1>4. pc'[p] = to /\ \A q \in Proc \ {p} : pc'[q] = pc[q]
    BY DEF Goes
<1> QED
    BY <1>1, <1>2, <1>3, <1>4

\* Points at which a process has no file truncated.
Writing == {"writeCommits", "writeFlags", "writeIndex", "writePack", "insertIdx", "insertPack"}

LEMMA WritingPoints ==
    \A f \in File : WritingAt[f] \subseteq Writing
BY DEF File, WritingAt, Writing

LEMMA OpenQuiet ==
    ASSUME TypeInv, OpenInv, NEW p \in Proc, NEW to \in Points \ Writing, Goes(p, to),
           pc[p] \notin Writing, open' = open
    PROVE  OpenInv'
<1>1. \A f \in File : to \notin WritingAt[f] /\ pc[p] \notin WritingAt[f]
    BY WritingPoints
<1>2. \A f \in File : p \notin open[f]
    BY <1>1 DEF OpenInv, OpenedBy
<1> QED
    BY <1>1, <1>2, OpenStep

LEMMA OpenTruncate ==
    ASSUME TypeInv, OpenInv, NEW p \in Proc, NEW f \in File, NEW to \in WritingAt[f],
           Truncate(p, f, to), pc[p] \notin Writing
    PROVE  OpenInv'
<1>1. to \in Points
    BY WritingPoints DEF Writing, Points, InsertPoints, CopyPoints
<1>2. Goes(p, to) /\ open' = [open EXCEPT ![f] = @ \union {p}]
    BY <1>1, TruncateDoes
<1>3. \A g \in File : g # f => to \notin WritingAt[g]
    BY DEF File, WritingAt
<1>4. \A g \in File : p \notin open[g]
    BY WritingPoints DEF OpenInv, OpenedBy
<1>5. open \in [File -> SUBSET Proc]
    BY DEF TypeInv
<1> QED
    BY <1>1, <1>2, <1>3, <1>4, <1>5, OpenStep

LEMMA OpenClose ==
    ASSUME TypeInv, OpenInv, NEW p \in Proc, NEW f \in File, NEW to \in Points \ Writing,
           Goes(p, to), pc[p] \in WritingAt[f], open' = [open EXCEPT ![f] = @ \ {p}]
    PROVE  OpenInv'
<1>1. \A g \in File : to \notin WritingAt[g]
    BY WritingPoints
<1>2. \A g \in File : g # f => pc[p] \notin WritingAt[g]
    BY DEF File, WritingAt
<1>3. \A g \in File : g # f => p \notin open[g]
    BY <1>2 DEF OpenInv, OpenedBy
<1>4. open \in [File -> SUBSET Proc]
    BY DEF TypeInv
<1> QED
    BY <1>1, <1>3, <1>4, OpenStep

LEMMA OpenNext == TypeInv /\ OpenInv /\ [Next]_vars => OpenInv'
<1> SUFFICES ASSUME TypeInv, OpenInv, [Next]_vars PROVE OpenInv'
    OBVIOUS
<1>1. CASE UNCHANGED vars
    BY <1>1 DEF vars, OpenInv, OpenedBy
<1>2. ASSUME NEW p \in Proc, Insert(p) PROVE OpenInv'
  <2>1. CASE BeginInsert(p) \/ InsertReadIdx(p) \/ InsertReadPack(p)
    <3>1. {"insertReadIdx", "insertReadPack", "insertOpenPack"} \subseteq Points \ Writing
      BY DEF Points, InsertPoints, Writing
    <3>2. pc[p] \in {"idle", "insertReadIdx", "insertReadPack"} /\ pc[p] \notin Writing
      BY <2>1 DEF BeginInsert, InsertReadIdx, InsertReadPack, Writing
    <3>3. "stageIdx" \in File
      BY DEF File
    <3> QED
      BY <2>1, <3>1, <3>2, <3>3, BeginInsertDoes, InsertReadPackDoes, ReadDoes, OpenQuiet
      DEF InsertReadIdx
  <2>2. CASE InsertOpenPack(p) \/ InsertOpenIdx(p)
    <3>1. /\ "stagePack" \in File /\ "insertPack" \in WritingAt["stagePack"]
          /\ "stageIdx" \in File /\ "insertIdx" \in WritingAt["stageIdx"]
      BY DEF File, WritingAt
    <3>2. pc[p] \notin Writing
      BY <2>2 DEF InsertOpenPack, InsertOpenIdx, Writing
    <3> QED
      BY <2>2, <3>1, <3>2, OpenTruncate DEF InsertOpenPack, InsertOpenIdx
  <2>3. CASE InsertPack(p) \/ InsertIdx(p)
    <3>1. /\ "stagePack" \in File /\ "insertPack" \in WritingAt["stagePack"]
          /\ "stageIdx" \in File /\ "insertIdx" \in WritingAt["stageIdx"]
          /\ {"insertOpenIdx", "idle"} \subseteq Points \ Writing
      BY DEF File, WritingAt, Points, InsertPoints, Writing
    <3> QED
      BY <2>3, <3>1, InsertPackDoes, InsertIdxDoes, OpenClose
  <2> QED
    BY <1>2, <2>1, <2>2, <2>3 DEF Insert
<1>3. ASSUME NEW p \in Proc, Commit(p) PROVE OpenInv'
  <2>1. {"idle", "readCommits", "readMaster", "readStageIdx", "readStagePack", "readIndex",
         "readPack", "openPack", "openCommits", "openIndex", "cleanIdx"}
            \subseteq Points \ Writing
    BY DEF Points, CopyPoints, Writing
  <2>2. File = {"commits", "index", "pack", "stageIdx", "stagePack"}
    BY DEF File
  <2>3. CASE BeginCommit(p) \/ ReadCommits(p) \/ ReadMaster(p)
    <3>1. pc[p] \notin Writing
      BY <2>3 DEF BeginCommit, Begin, ReadCommits, ReadMaster, Writing
    <3> QED
      BY <2>1, <2>2, <2>3, <3>1, BeginDoes, ReadDoes, ReadMasterDoes, OpenQuiet
      DEF BeginCommit, ReadCommits
  <2>4. CASE ReadStageIdx(p) \/ ReadStagePack(p) \/ CommitNothing(p) \/ ReadIndex(p)
    <3>1. pc[p] \notin Writing
      BY <2>4 DEF ReadStageIdx, ReadStagePack, CommitNothing, ReadIndex, Writing
    <3> QED
      BY <2>1, <2>2, <2>4, <3>1, ReadDoes, ExitDoes, OpenQuiet
      DEF ReadStageIdx, ReadStagePack, CommitNothing, ReadIndex
  <2>5. CASE ReadPack(p)
    <3>1. pc[p] \notin Writing
      BY <2>5 DEF ReadPack, Writing
    <3> QED
      BY <2>1, <2>5, <3>1, ReadPackDoes, OpenQuiet
  <2>6. CASE OpenPack(p) \/ OpenCommits(p) \/ OpenIndex(p)
    <3>1. /\ "writePack" \in WritingAt["pack"] /\ "writeCommits" \in WritingAt["commits"]
          /\ "writeIndex" \in WritingAt["index"]
      BY DEF WritingAt
    <3>2. pc[p] \notin Writing
      BY <2>6 DEF OpenPack, OpenCommits, OpenIndex, Writing
    <3> QED
      BY <2>2, <2>6, <3>1, <3>2, OpenTruncate DEF OpenPack, OpenCommits, OpenIndex
  <2>7. CASE WritePack(p) \/ CutPack(p) \/ WriteCommits(p) \/ WriteIndex(p)
    <3>1. /\ "writePack" \in WritingAt["pack"] /\ "writeCommits" \in WritingAt["commits"]
          /\ "writeIndex" \in WritingAt["index"]
      BY DEF WritingAt
    <3> QED
      BY <2>1, <2>2, <2>7, <3>1, WritePackDoes, WriteCommitsDoes, WriteIndexDoes, OpenClose
  <2> QED
    BY <1>3, <2>3, <2>4, <2>5, <2>6, <2>7 DEF Commit
<1>4. ASSUME NEW p \in Proc, Clean(p) \/ Flags(p) PROVE OpenInv'
  <2>1. {"idle", "resetRead", "cleanIdx", "cleanPack", "flagsRead", "openFlags"}
            \subseteq Points \ Writing
    BY DEF Points, Writing
  <2>2. "stageIdx" \in File /\ "commits" \in File /\ "writeFlags" \in WritingAt["commits"]
    BY DEF File, WritingAt
  <2>3. CASE BeginReset(p) \/ ResetRead(p) \/ CleanIdx(p) \/ CleanPack(p)
    <3>1. pc[p] \notin Writing
      BY <2>3 DEF BeginReset, Begin, ResetRead, CleanIdx, CleanPack, Writing
    <3> QED
      BY <2>1, <2>2, <2>3, <3>1, BeginDoes, ReadDoes, CleanIdxDoes, CleanPackDoes, OpenQuiet
      DEF BeginReset, ResetRead
  <2>4. CASE BeginFlags(p) \/ NoCommits(p) \/ FlagsRead(p)
    <3>1. pc[p] \notin Writing
      BY <2>4 DEF BeginFlags, Begin, NoCommits, FlagsRead, Writing
    <3> QED
      BY <2>1, <2>4, <3>1, BeginDoes, ExitDoes, FlagsReadDoes, OpenQuiet
      DEF BeginFlags, NoCommits
  <2>5. CASE OpenFlags(p)
    BY <2>2, <2>5, OpenTruncate DEF OpenFlags, Writing
  <2>6. CASE WriteFlags(p)
    BY <2>1, <2>2, <2>6, WriteFlagsDoes, OpenClose
  <2> QED
    BY <1>4, <2>3, <2>4, <2>5, <2>6 DEF Clean, Flags
<1> QED
    BY <1>1, <1>2, <1>3, <1>4 DEF Next

LEMMA RaceNext == TypeInv /\ RaceInv /\ [Next]_vars => RaceInv'
<1> SUFFICES ASSUME TypeInv, RaceInv, [Next]_vars PROVE RaceInv'
    OBVIOUS
<1>1. CASE Next
    BY <1>1, RacedStep DEF RaceInv
<1>2. CASE UNCHANGED vars
    BY <1>2 DEF vars, RaceInv, Both
<1> QED
    BY <1>1, <1>2

-----------------------------------------------------------------------------
(* Contents and names *)

\* What a pack has, a longer pack has too.
LEMMA GenuineGrows ==
    ASSUME NEW e \in Seq(Place), NEW pack \in Seq(Nat), NEW more \in Seq(Nat),
           Genuine(e, pack)
    PROVE  Genuine(e, pack \o more)
<1> SUFFICES ASSUME NEW k \in DOMAIN e PROVE At(pack \o more, e[k].pos, 0) = e[k].name
    BY DEF Genuine
<1> DEFINE pos == e[k].pos
           name == e[k].name
           both == pack \o more
<1>1. e[k] \in Place
    OBVIOUS
<1>2. pos \in Nat /\ (name # 0 \/ pos = 0)
    BY <1>1 DEF Place
<1>3. At(pack, pos, 0) = name
    BY DEF Genuine
<1>4. /\ DOMAIN pack = 1 .. Len(pack) /\ Len(pack) \in Nat /\ Len(more) \in Nat
      /\ DOMAIN both = 1 .. Len(pack) + Len(more)
      /\ \A l \in 1 .. Len(pack) : both[l] = pack[l]
  <2>1. both \in Seq(Nat) /\ Len(both) = Len(pack) + Len(more)
    BY ConcatProperties
  <2> QED
    BY <2>1, ConcatProperties
<1> SUFFICES At(both, pos, 0) = name
    OBVIOUS
<1> HIDE DEF pos, name, both
<1>5. CASE pos \in DOMAIN pack
    BY <1>3, <1>4, <1>5 DEF At
<1>6. CASE pos \notin DOMAIN pack
  <2>1. name = 0 /\ pos = 0
    BY <1>2, <1>3, <1>6 DEF At
  <2> QED
    BY <1>4, <2>1 DEF At
<1> QED
    BY <1>5, <1>6

LEMMA GenuineJoined ==
    ASSUME NEW a \in Seq(Place), NEW b \in Seq(Place), NEW pack,
           Genuine(a, pack), Genuine(b, pack)
    PROVE  Genuine(a \o b, pack)
<1> DEFINE both == a \o b
<1>1. both \in Seq(Place) /\ Len(both) = Len(a) + Len(b)
    BY ConcatProperties
<1>2. Len(a) \in Nat /\ Len(b) \in Nat /\ DOMAIN a = 1 .. Len(a) /\ DOMAIN b = 1 .. Len(b)
    OBVIOUS
<1>3. \A k \in DOMAIN both :
        \/ k \in DOMAIN a /\ both[k] = a[k]
        \/ k - Len(a) \in DOMAIN b /\ both[k] = b[k - Len(a)]
    BY <1>1, <1>2, ConcatProperties
<1> HIDE DEF both
<1>4. \A k \in DOMAIN both : At(pack, both[k].pos, 0) = both[k].name
    BY <1>3 DEF Genuine
<1> QED
    BY <1>4 DEF Genuine, both

\* What follows the contents of a pack is found there.
LEMMA GenuineNew ==
    ASSUME NEW nodes \in Seq(Node), NEW pack \in Seq(Nat), NEW stagePack \in Seq(Nat),
           Genuine(nodes, stagePack)
    PROVE  Genuine(NewPlaces(nodes, pack), pack \o NewContents(nodes, stagePack))
<1> DEFINE new == NewContents(nodes, stagePack)
           places == NewPlaces(nodes, pack)
           both == pack \o new
<1>1. new \in Seq(Nat) /\ Len(new) = Len(nodes) /\ Len(nodes) \in Nat /\ Len(pack) \in Nat
    BY NewTypes
<1>2. \A k \in DOMAIN nodes : new[k] = nodes[k].name
    BY DEF NewContents, Genuine
<1>3. DOMAIN nodes = 1 .. Len(nodes) /\ DOMAIN places = DOMAIN nodes
      /\ \A k \in DOMAIN nodes : places[k].pos = Len(pack) + k /\ places[k].name = nodes[k].name
    BY DEF NewPlaces
<1>4. \A k \in 1 .. Len(nodes) : Len(pack) + k \in DOMAIN both /\ both[Len(pack) + k] = new[k]
  <2> HIDE DEF new
  <2>1. /\ both \in Seq(Nat) /\ Len(both) = Len(pack) + Len(nodes)
        /\ \A l \in 1 .. Len(pack) + Len(nodes) :
              both[l] = IF l <= Len(pack) THEN pack[l] ELSE new[l - Len(pack)]
    <3>1. /\ both \in Seq(Nat) /\ Len(both) = Len(pack) + Len(new)
          /\ \A l \in 1 .. Len(pack) + Len(new) :
                both[l] = IF l <= Len(pack) THEN pack[l] ELSE new[l - Len(pack)]
      BY <1>1, ConcatProperties
    <3> HIDE DEF both
    <3> QED
      BY <1>1, <3>1
  <2> HIDE DEF both
  <2>2. DOMAIN both = 1 .. Len(pack) + Len(nodes)
    BY <2>1
  <2> TAKE k \in 1 .. Len(nodes)
  <2> DEFINE n == Len(pack)
             l == n + k
  <2>3. l \in 1 .. n + Len(nodes) /\ ~(l <= n) /\ l - n = k
    BY <1>1
  <2> QED
    BY <2>1, <2>2, <2>3
<1> HIDE DEF new, both, places
<1>5. \A k \in DOMAIN places : At(both, places[k].pos, 0) = places[k].name
    BY <1>2, <1>3, <1>4 DEF At
<1> QED
    BY <1>5 DEF Genuine, new, both, places

LEMMA NodesArePlaces ==
    ASSUME NEW nodes \in Seq(Node) PROVE nodes \in Seq(Place)
<1>1. Node \subseteq Place
    BY DEF Node, Place
<1> QED
    BY <1>1, SeqMonotonic

\* An insert adds a node and its content.
LEMMA GenuineInsert ==
    ASSUME NEW nodes \in Seq(Node), NEW pack \in Seq(Nat), NEW name \in Nat \ {0},
           Genuine(nodes, pack)
    PROVE  LET place == [name |-> name, pos |-> Len(pack) + 1]
           IN  /\ Genuine(nodes, Append(pack, name))
               /\ Genuine(Append(nodes, place), Append(pack, name))
               /\ Names(Append(nodes, place)) = Names(nodes) \union {name}
<1> DEFINE place == [name |-> name, pos |-> Len(pack) + 1]
           more == Append(nodes, place)
           longer == Append(pack, name)
<1>1. longer = pack \o <<name>>
    OBVIOUS
<1>2. Genuine(nodes, longer)
  <2>1. nodes \in Seq(Place)
    BY NodesArePlaces
  <2>2. <<name>> \in Seq(Nat)
    OBVIOUS
  <2>3. Genuine(nodes, pack \o <<name>>)
    BY <2>1, <2>2, GenuineGrows
  <2> QED
    BY <1>1, <2>3, Zenon
<1>3. /\ DOMAIN more = DOMAIN nodes \union {Len(nodes) + 1}
      /\ \A k \in DOMAIN nodes : more[k] = nodes[k]
      /\ more[Len(nodes) + 1] = place
  <2>1. place \in Node
    <3>1. Len(pack) + 1 \in Nat
      OBVIOUS
    <3> QED
      BY <3>1 DEF Node
  <2> HIDE DEF place
  <2>2. more \in Seq(Node) /\ Len(more) = Len(nodes) + 1 /\ Len(nodes) \in Nat
    BY <2>1
  <2>3. DOMAIN more = 1 .. Len(nodes) + 1 /\ DOMAIN nodes = 1 .. Len(nodes)
    BY <2>2
  <2> QED
    BY <2>1, <2>2, <2>3
<1>4. place.name = name /\ place.pos = Len(pack) + 1
    OBVIOUS
<1>5. At(longer, Len(pack) + 1, 0) = name
  <2>1. Len(pack) + 1 \in DOMAIN longer /\ longer[Len(pack) + 1] = name
    OBVIOUS
  <2> QED
    BY <2>1 DEF At
<1> HIDE DEF place, more, longer
<1>6. Genuine(more, longer)
    BY <1>2, <1>3, <1>4, <1>5 DEF Genuine
<1>7. Names(more) = Names(nodes) \union {name}
    BY <1>3, <1>4 DEF Names
<1> QED
    BY <1>2, <1>6, <1>7 DEF place, more, longer

-----------------------------------------------------------------------------
(* Windows *)

\* Where nobody has raced, a process in a window is alone in it.
LEMMA AloneAtStage ==
    ASSUME RaceInv, TypeInv, Next, ~raced'.stage, NEW p \in Proc, NEW to, Goes(p, to),
           pc[p] \in StageWindow \/ to \in StageWindow
    PROVE  \A q \in Proc \ {p} : pc[q] \notin StageWindow /\ pc'[q] = pc[q]
<1>1. ~raced.stage /\ ~Both(StageWindow)'
    BY RacedStep
<1>2. pc'[p] = to /\ \A q \in Proc \ {p} : pc'[q] = pc[q]
    BY DEF Goes
<1>3. ~Both(StageWindow)
    BY <1>1 DEF RaceInv
<1> QED
    BY <1>1, <1>2, <1>3 DEF Both

LEMMA AloneAtHistory ==
    ASSUME RaceInv, TypeInv, Next, ~raced'.history, NEW p \in Proc, NEW to, Goes(p, to),
           pc[p] \in HistoryWindow \/ to \in HistoryWindow
    PROVE  \A q \in Proc \ {p} : pc[q] \notin HistoryWindow /\ pc'[q] = pc[q]
<1>1. ~raced.history /\ ~Both(HistoryWindow)'
    BY RacedStep
<1>2. pc'[p] = to /\ \A q \in Proc \ {p} : pc'[q] = pc[q]
    BY DEF Goes
<1>3. ~Both(HistoryWindow)
    BY <1>1 DEF RaceInv
<1> QED
    BY <1>1, <1>2, <1>3 DEF Both

-----------------------------------------------------------------------------
(* The stage keeps its invariant *)

\* What is asked of a process is asked in the window.
LEMMA StageOutside ==
    ASSUME NEW p \in Proc, pc[p] \notin StageWindow PROVE StageOf(p)
BY DEF StageOf, StageAt, StageWindow, CopyPoints

LEMMA StageOutsideNext ==
    ASSUME NEW p \in Proc, pc'[p] \notin StageWindow PROVE StageOf(p)'
BY DEF StageOf, StageAt, StageWindow, CopyPoints

\* What the process in the window finds.
LEMMA StageFound ==
    ASSUME StageInv, ~raced.stage, NEW p \in Proc,
           \A q \in Proc \ {p} : pc[q] \notin StageWindow
    PROVE  /\ pc[p] # "insertIdx" => staged = Names(disk.stageIdx)
           /\ pc[p] \notin {"insertPack", "insertIdx"} => Genuine(disk.stageIdx, disk.stagePack)
           /\ StageOf(p)
<1>1. {"insertPack", "insertIdx"} \subseteq StageWindow
    BY DEF StageWindow
<1>2. /\ pc[p] # "insertIdx" => OpenedBy({"insertIdx"}) = {}
      /\ pc[p] \notin {"insertPack", "insertIdx"} => OpenedBy({"insertPack", "insertIdx"}) = {}
    BY <1>1 DEF OpenedBy
<1> QED
    BY <1>2 DEF StageInv

\* What it has to leave.
LEMMA StageLeft ==
    ASSUME NEW p \in Proc, NEW to, Goes(p, to),
           \A q \in Proc \ {p} : pc'[q] \notin StageWindow,
           to # "insertIdx" => staged' = Names(disk'.stageIdx),
           to \notin {"insertPack", "insertIdx"} => Genuine(disk'.stageIdx, disk'.stagePack),
           NEW m, Holds(p, m), StageAt(to, m, disk', staged')
    PROVE  StageInv'
<1>1. pc'[p] = to /\ mine'[p] = m
    BY DEF Goes, Holds
<1>2. OpenedBy({"insertIdx"})' = {} => staged' = Names(disk'.stageIdx)
    BY <1>1 DEF OpenedBy
<1>3. OpenedBy({"insertPack", "insertIdx"})' = {} => Genuine(disk'.stageIdx, disk'.stagePack)
    BY <1>1 DEF OpenedBy
<1>4. \A q \in Proc : StageOf(q)'
    BY <1>1, StageOutsideNext DEF StageOf
<1>5. Names(disk.stageIdx)' = Names(disk'.stageIdx)
      /\ Genuine(disk.stageIdx, disk.stagePack)' = Genuine(disk'.stageIdx, disk'.stagePack)
    BY DEF Names, Genuine
<1> QED
    BY <1>2, <1>3, <1>4, <1>5 DEF StageInv

\* A process outside.
LEMMA StageAway ==
    ASSUME StageInv, NEW p \in Proc, NEW to, Goes(p, to), NEW m, Holds(p, m),
           raced.stage => raced'.stage, pc[p] \notin StageWindow, to \notin StageWindow,
           disk'.stageIdx = disk.stageIdx, disk'.stagePack = disk.stagePack, staged' = staged
    PROVE  StageInv'
<1> SUFFICES ASSUME ~raced'.stage PROVE StageInv'
    BY DEF StageInv
<1>1. /\ pc'[p] = to /\ \A q \in Proc \ {p} : pc'[q] = pc[q]
      /\ \A q \in Proc \ {p} : mine'[q] = mine[q]
    BY DEF Goes, Holds
<1>2. {"insertPack", "insertIdx"} \subseteq StageWindow
    BY DEF StageWindow
<1>3. /\ OpenedBy({"insertIdx"})' = OpenedBy({"insertIdx"})
      /\ OpenedBy({"insertPack", "insertIdx"})' = OpenedBy({"insertPack", "insertIdx"})
    BY <1>1, <1>2 DEF OpenedBy
<1>4. \A q \in Proc : StageOf(q)'
  <2>1. StageOf(p)'
    BY <1>1, StageOutsideNext
  <2>2. \A q \in Proc \ {p} : StageOf(q)
    BY DEF StageInv
  <2>3. \A q \in Proc \ {p} : StageOf(q)'
    <3> TAKE q \in Proc \ {p}
    <3>1. pc'[q] = pc[q] /\ mine'[q] = mine[q] /\ StageOf(q)
      BY <1>1, <2>2
    <3> QED
      BY <3>1 DEF StageOf, StageAt
  <2> QED
    BY <2>1, <2>3
<1>5. Names(disk.stageIdx)' = Names(disk.stageIdx)
      /\ Genuine(disk.stageIdx, disk.stagePack)' = Genuine(disk.stageIdx, disk.stagePack)
    BY DEF Names, Genuine
<1> QED
    BY <1>3, <1>4, <1>5 DEF StageInv

LEMMA StageInsert ==
    ASSUME TypeInv, RaceInv, StageInv, Next, NEW p \in Proc, Insert(p) PROVE StageInv'
<1> SUFFICES ASSUME ~raced'.stage PROVE StageInv'
    BY DEF StageInv
<1> DEFINE me == mine[p]
<1>1. ~raced.stage
    BY RacedStep
<1>2. me \in Mine /\ disk \in Disk /\ me.stageIdx \in Seq(Node) /\ me.stagePack \in Seq(Nat)
      /\ disk.stageIdx \in Seq(Node) /\ disk.stagePack \in Seq(Nat)
    BY MineType DEF Mine, Disk
<1>3. {"insertReadPack", "insertOpenPack", "insertPack", "insertOpenIdx", "insertIdx"}
            \subseteq Points \cap StageWindow
      /\ {"idle", "insertReadIdx"} \subseteq Points \ StageWindow
      /\ {"stageIdx", "stagePack"} \subseteq File
    BY DEF Points, InsertPoints, StageWindow, File
<1>4. CASE BeginInsert(p)
  <2>1. Goes(p, "insertReadIdx") /\ Holds(p, [me EXCEPT !.copy = <<next>>])
        /\ disk' = disk /\ staged' = staged /\ pc[p] = "idle"
    BY <1>4, BeginInsertDoes
  <2> QED
    BY <1>1, <1>3, <2>1, StageAway
<1>5. CASE InsertReadIdx(p)
  <2> DEFINE m == [me EXCEPT !["stageIdx"] = disk["stageIdx"]]
  <2>1. /\ pc[p] = "insertReadIdx" /\ Goes(p, "insertReadPack") /\ Holds(p, m)
        /\ disk' = disk /\ staged' = staged
    BY <1>3, <1>5, ReadDoes DEF InsertReadIdx
  <2>2. \A q \in Proc \ {p} : pc[q] \notin StageWindow /\ pc'[q] = pc[q]
    BY <1>3, <2>1, AloneAtStage
  <2>3. staged = Names(disk.stageIdx) /\ Genuine(disk.stageIdx, disk.stagePack)
    BY <1>1, <2>1, <2>2, StageFound
  <2>4. m.stageIdx = disk.stageIdx
    BY <1>2 DEF Mine
  <2> HIDE DEF m
  <2>5. StageAt("insertReadPack", m, disk', staged')
    BY <2>1, <2>4 DEF StageAt, CopyPoints
  <2> QED
    BY <2>1, <2>2, <2>3, <2>5, StageLeft
<1>6. CASE InsertReadPack(p)
  <2> DEFINE name == me.copy[1]
             place == [name |-> name, pos |-> Len(disk.stagePack) + 1]
             m == [me EXCEPT !.stagePack = Append(disk.stagePack, name),
                             !.stageIdx = Append(me.stageIdx, place)]
  <2>1. /\ pc[p] = "insertReadPack" /\ Goes(p, "insertOpenPack") /\ Holds(p, m)
        /\ name \in Nat \ {0} /\ disk' = disk /\ staged' = staged
    BY <1>6, InsertReadPackDoes
  <2>2. \A q \in Proc \ {p} : pc[q] \notin StageWindow /\ pc'[q] = pc[q]
    BY <1>3, <2>1, AloneAtStage
  <2>3. /\ staged = Names(disk.stageIdx) /\ Genuine(disk.stageIdx, disk.stagePack)
        /\ StageOf(p)
    BY <1>1, <2>1, <2>2, StageFound
  <2>4. me.stageIdx = disk.stageIdx
    BY <2>1, <2>3 DEF StageOf, StageAt
  <2>5. /\ m.stagePack = Append(disk.stagePack, name) /\ m.stageIdx = Append(me.stageIdx, place)
        /\ m.copy[1] = name
    BY <1>2 DEF Mine
  <2>6. /\ Genuine(disk.stageIdx, m.stagePack) /\ Genuine(m.stageIdx, m.stagePack)
        /\ Names(m.stageIdx) = staged \union {name}
    BY <1>2, <2>1, <2>3, <2>4, <2>5, GenuineInsert
  <2> HIDE DEF m, name
  <2>7. StageAt("insertOpenPack", m, disk', staged')
    BY <2>1, <2>5, <2>6 DEF StageAt, CopyPoints
  <2> QED
    BY <2>1, <2>2, <2>3, <2>7, StageLeft
<1>7. CASE InsertOpenPack(p)
  <2>1. /\ pc[p] = "insertOpenPack" /\ Goes(p, "insertPack") /\ Holds(p, me)
        /\ disk' = [disk EXCEPT !["stagePack"] = <<>>] /\ staged' = staged
    BY <1>3, <1>7, TruncateDoes DEF InsertOpenPack
  <2>2. \A q \in Proc \ {p} : pc[q] \notin StageWindow /\ pc'[q] = pc[q]
    BY <1>3, <2>1, AloneAtStage
  <2>3. staged = Names(disk.stageIdx) /\ StageOf(p)
    BY <1>1, <2>1, <2>2, StageFound
  <2>4. disk'.stageIdx = disk.stageIdx /\ disk'.stagePack = <<>>
    BY <1>2, <2>1 DEF Disk
  <2>5. StageAt("insertPack", me, disk', staged')
    BY <2>1, <2>3, <2>4 DEF StageOf, StageAt, CopyPoints
  <2> QED
    BY <2>1, <2>2, <2>3, <2>4, <2>5, StageLeft
<1>8. CASE InsertPack(p)
  <2>1. /\ pc[p] = "insertPack" /\ Goes(p, "insertOpenIdx") /\ Holds(p, me)
        /\ disk' = [disk EXCEPT !.stagePack = Written("stagePack", me.stagePack)]
        /\ staged' = staged
    BY <1>8, InsertPackDoes
  <2>2. \A q \in Proc \ {p} : pc[q] \notin StageWindow /\ pc'[q] = pc[q]
    BY <1>3, <2>1, AloneAtStage
  <2>3. staged = Names(disk.stageIdx) /\ StageOf(p)
    BY <1>1, <2>1, <2>2, StageFound
  <2>4. disk["stagePack"] = <<>>
    BY <2>1, <2>3 DEF StageOf, StageAt
  <2>5. Written("stagePack", me.stagePack) = me.stagePack
    BY <1>2, <2>4, WrittenOver DEF File, Counted
  <2>6. disk'.stageIdx = disk.stageIdx /\ disk'.stagePack = me.stagePack
    BY <1>2, <2>1, <2>5 DEF Disk
  <2>7. StageAt("insertOpenIdx", me, disk', staged')
    BY <2>1, <2>3, <2>6 DEF StageOf, StageAt, CopyPoints
  <2>8. Genuine(disk'.stageIdx, disk'.stagePack)
    BY <2>1, <2>3, <2>6 DEF StageOf, StageAt
  <2> QED
    BY <2>1, <2>2, <2>3, <2>6, <2>7, <2>8, StageLeft
<1>9. CASE InsertOpenIdx(p)
  <2>1. /\ pc[p] = "insertOpenIdx" /\ Goes(p, "insertIdx") /\ Holds(p, me)
        /\ disk' = [disk EXCEPT !["stageIdx"] = <<>>] /\ staged' = staged
    BY <1>3, <1>9, TruncateDoes DEF InsertOpenIdx
  <2>2. \A q \in Proc \ {p} : pc[q] \notin StageWindow /\ pc'[q] = pc[q]
    BY <1>3, <2>1, AloneAtStage
  <2>3. StageOf(p)
    BY <1>1, <2>2, StageFound
  <2>4. disk'.stagePack = disk.stagePack
    BY <1>2, <2>1 DEF Disk
  <2>5. StageAt("insertIdx", me, disk', staged')
    BY <2>1, <2>3, <2>4 DEF StageOf, StageAt, CopyPoints
  <2> QED
    BY <2>1, <2>2, <2>5, StageLeft
<1>10. CASE InsertIdx(p)
  <2>1. /\ pc[p] = "insertIdx" /\ Goes(p, "idle") /\ Holds(p, Empty)
        /\ disk' = [disk EXCEPT !.stageIdx = me.stageIdx]
        /\ staged' = staged \union {me.copy[1]}
    BY <1>10, InsertIdxDoes
  <2>2. \A q \in Proc \ {p} : pc[q] \notin StageWindow /\ pc'[q] = pc[q]
    BY <1>3, <2>1, AloneAtStage
  <2>3. StageOf(p)
    BY <1>1, <2>2, StageFound
  <2>4. disk'.stageIdx = me.stageIdx /\ disk'.stagePack = disk.stagePack
    BY <1>2, <2>1 DEF Disk
  <2>5. staged' = Names(disk'.stageIdx) /\ Genuine(disk'.stageIdx, disk'.stagePack)
    BY <2>1, <2>3, <2>4 DEF StageOf, StageAt
  <2>6. StageAt("idle", Empty, disk', staged')
    BY DEF StageAt, CopyPoints
  <2> QED
    BY <2>1, <2>2, <2>5, <2>6, StageLeft
<1> QED
    BY <1>4, <1>5, <1>6, <1>7, <1>8, <1>9, <1>10 DEF Insert

\* A commit that has read the stage leaves it alone.
LEMMA StageThrough ==
    ASSUME TypeInv, RaceInv, StageInv, Next, ~raced'.stage, NEW p \in Proc,
           pc[p] \in CopyPoints \ {"readStageIdx"},
           NEW to \in (CopyPoints \ {"readStageIdx", "readStagePack"}) \union {"cleanIdx"},
           Goes(p, to), NEW m, Holds(p, m), m.stageIdx = mine[p].stageIdx,
           disk'.stageIdx = disk.stageIdx, disk'.stagePack = disk.stagePack, staged' = staged,
           (StageOf(p) /\ to \in {"readIndex", "readPack"}) => Genuine(m.stageIdx, m.stagePack)
    PROVE  StageInv'
<1>1. ~raced.stage
    BY RacedStep
<1>2. CopyPoints \ {"readStageIdx"} \subseteq StageWindow
      /\ "insertIdx" \notin CopyPoints \union {"cleanIdx"}
      /\ "insertPack" \notin CopyPoints \union {"cleanIdx"}
    BY DEF CopyPoints, StageWindow
<1>3. \A q \in Proc \ {p} : pc[q] \notin StageWindow /\ pc'[q] = pc[q]
    BY <1>2, AloneAtStage
<1>4. /\ staged = Names(disk.stageIdx) /\ Genuine(disk.stageIdx, disk.stagePack)
      /\ StageOf(p)
    BY <1>1, <1>2, <1>3, StageFound
<1>5. m.stageIdx = disk.stageIdx
    BY <1>4 DEF StageOf, StageAt
<1>6. StageAt(to, m, disk', staged')
    BY <1>4, <1>5 DEF StageAt, CopyPoints
<1> QED
    BY <1>2, <1>3, <1>4, <1>6, StageLeft

LEMMA StageCommit ==
    ASSUME TypeInv, RaceInv, StageInv, Next, NEW p \in Proc, Commit(p) PROVE StageInv'
<1> SUFFICES ASSUME ~raced'.stage PROVE StageInv'
    BY DEF StageInv
<1> DEFINE me == mine[p]
<1>1. ~raced.stage
    BY RacedStep
<1>2. me \in Mine /\ disk \in Disk
    BY MineType
<1>3. \A to \in {"openPack", "writePack", "openCommits", "writeCommits", "openIndex", "writeIndex"} :
            to \in CopyPoints \ {"readStageIdx", "readStagePack", "readIndex", "readPack"}
      /\ {"readIndex", "readPack"} \subseteq CopyPoints \ {"readStageIdx", "readStagePack"}
      /\ "readStagePack" \in CopyPoints \ {"readStageIdx"}
      /\ CopyPoints \subseteq Points /\ "readStagePack" \in StageWindow
      /\ "cleanIdx" \notin {"readIndex", "readPack"}
    BY DEF CopyPoints, Points, StageWindow
<1>4. {"idle", "readCommits", "readMaster", "readStageIdx"} \subseteq Points \ StageWindow
      /\ File = {"commits", "index", "pack", "stageIdx", "stagePack"}
    BY DEF Points, CopyPoints, StageWindow, File
<1>5. CASE BeginCommit(p)
  <2>1. pc[p] = "idle"
    BY <1>5 DEF BeginCommit, Begin
  <2> QED
    BY <1>1, <1>4, <1>5, <2>1, BeginDoes, StageAway DEF BeginCommit
<1>6. CASE ReadCommits(p)
  <2> DEFINE m == [me EXCEPT !["commits"] = disk["commits"]]
  <2>1. /\ pc[p] = "readCommits" /\ Goes(p, "readMaster") /\ Holds(p, m)
        /\ disk' = disk /\ staged' = staged
    BY <1>4, <1>6, ReadDoes DEF ReadCommits
  <2> HIDE DEF m
  <2> QED
    BY <1>1, <1>4, <2>1, StageAway
<1>7. CASE ReadMaster(p)
  <2>1. PICK m : /\ pc[p] = "readMaster" /\ Goes(p, "readStageIdx") /\ Holds(p, m)
                 /\ disk' = disk /\ staged' = staged
    BY <1>7, ReadMasterDoes
  <2> QED
    BY <1>1, <1>4, <2>1, StageAway
<1>8. CASE ReadStageIdx(p)
  <2> DEFINE m == [me EXCEPT !["stageIdx"] = disk["stageIdx"]]
  <2>1. /\ pc[p] = "readStageIdx" /\ Goes(p, "readStagePack") /\ Holds(p, m)
        /\ disk' = disk /\ staged' = staged
    BY <1>3, <1>4, <1>8, ReadDoes DEF ReadStageIdx
  <2>2. \A q \in Proc \ {p} : pc[q] \notin StageWindow /\ pc'[q] = pc[q]
    BY <1>3, <2>1, AloneAtStage
  <2>3. staged = Names(disk.stageIdx) /\ Genuine(disk.stageIdx, disk.stagePack)
    BY <1>1, <2>1, <2>2, StageFound
  <2>4. m.stageIdx = disk.stageIdx
    BY <1>2 DEF Mine
  <2> HIDE DEF m
  <2>5. StageAt("readStagePack", m, disk', staged')
    BY <2>1, <2>4 DEF StageAt, CopyPoints
  <2> QED
    BY <2>1, <2>2, <2>3, <2>5, StageLeft
<1>9. CASE ReadStagePack(p)
  <2> DEFINE m == [me EXCEPT !["stagePack"] = disk["stagePack"]]
  <2>1. /\ pc[p] = "readStagePack" /\ Goes(p, "readIndex") /\ Holds(p, m)
        /\ disk' = disk /\ staged' = staged
    BY <1>3, <1>4, <1>9, ReadDoes DEF ReadStagePack
  <2>2. \A q \in Proc \ {p} : pc[q] \notin StageWindow
    BY <1>3, <2>1, AloneAtStage
  <2>3. Genuine(disk.stageIdx, disk.stagePack)
    BY <1>1, <2>1, <2>2, StageFound
  <2>4. m.stageIdx = me.stageIdx /\ m.stagePack = disk.stagePack
    BY <1>2 DEF Mine
  <2>5. StageOf(p) => me.stageIdx = disk.stageIdx
    BY <2>1 DEF StageOf, StageAt, CopyPoints
  <2> HIDE DEF m
  <2> QED
    BY <1>3, <2>1, <2>3, <2>4, <2>5, StageThrough
<1>10. CASE CommitNothing(p)
  <2>1. /\ pc[p] = "readIndex" /\ Goes(p, "idle") /\ Holds(p, Empty)
        /\ disk' = disk /\ staged' = staged
    BY <1>10, ExitDoes DEF CommitNothing
  <2>2. \A q \in Proc \ {p} : pc[q] \notin StageWindow /\ pc'[q] = pc[q]
    BY <2>1, AloneAtStage DEF StageWindow
  <2>3. staged = Names(disk.stageIdx) /\ Genuine(disk.stageIdx, disk.stagePack)
    BY <1>1, <2>1, <2>2, StageFound
  <2>4. StageAt("idle", Empty, disk', staged')
    BY DEF StageAt, CopyPoints
  <2> QED
    BY <2>1, <2>2, <2>3, <2>4, StageLeft
<1>11. CASE ReadIndex(p)
  <2> DEFINE m == [me EXCEPT !["index"] = disk["index"]]
  <2>1. /\ pc[p] = "readIndex" /\ Goes(p, "readPack") /\ Holds(p, m)
        /\ disk' = disk /\ staged' = staged
    BY <1>3, <1>4, <1>11, ReadDoes DEF ReadIndex
  <2>2. m.stageIdx = me.stageIdx /\ m.stagePack = me.stagePack
    BY <1>2 DEF Mine
  <2>3. StageOf(p) => Genuine(me.stageIdx, me.stagePack)
    BY <2>1 DEF StageOf, StageAt
  <2> HIDE DEF m
  <2> QED
    BY <1>3, <2>1, <2>2, <2>3, StageThrough
<1>12. CASE ReadPack(p)
  <2> DEFINE all == me.copy \o NewPlaces(me.stageIdx, disk.pack)
             commit == [start |-> Len(me.index) + 1, len |-> Len(all), head |-> TRUE]
             m == [me EXCEPT
                    !.pack = disk.pack \o NewContents(me.stageIdx, me.stagePack),
                    !.index = me.index \o all,
                    !.copy = all,
                    !.commits = Append(WithoutHead(me.commits), commit)]
  <2>1. /\ pc[p] = "readPack" /\ Goes(p, "openPack") /\ Holds(p, m)
        /\ disk' = disk /\ staged' = staged
    BY <1>12, ReadPackDoes
  <2>2. m.stageIdx = me.stageIdx
    <3> HIDE DEF all, commit
    <3> QED
      BY <1>2 DEF Mine
  <2> HIDE DEF m
  <2> QED
    BY <1>3, <2>1, <2>2, StageThrough
<1>13. CASE OpenPack(p)
  <2>1. /\ pc[p] = "openPack" /\ Goes(p, "writePack") /\ Holds(p, me)
        /\ disk' = [disk EXCEPT !["pack"] = <<>>] /\ staged' = staged
    BY <1>3, <1>4, <1>13, TruncateDoes DEF OpenPack
  <2>2. disk'.stageIdx = disk.stageIdx /\ disk'.stagePack = disk.stagePack
    BY <1>2, <2>1 DEF Disk
  <2> QED
    BY <1>3, <2>1, <2>2, StageThrough
<1>14. CASE WritePack(p) \/ CutPack(p)
  <2>1. PICK pack \in Seq(Nat) : disk' = [disk EXCEPT !.pack = pack]
    BY <1>14, WritePackDoes
  <2>2. /\ pc[p] = "writePack" /\ Goes(p, "openCommits") /\ Holds(p, me) /\ staged' = staged
    BY <1>14, WritePackDoes
  <2>3. disk'.stageIdx = disk.stageIdx /\ disk'.stagePack = disk.stagePack
    BY <1>2, <2>1 DEF Disk
  <2> QED
    BY <1>3, <2>2, <2>3, StageThrough
<1>15. CASE OpenCommits(p)
  <2>1. /\ pc[p] = "openCommits" /\ Goes(p, "writeCommits") /\ Holds(p, me)
        /\ disk' = [disk EXCEPT !["commits"] = <<>>] /\ staged' = staged
    BY <1>3, <1>4, <1>15, TruncateDoes DEF OpenCommits
  <2>2. disk'.stageIdx = disk.stageIdx /\ disk'.stagePack = disk.stagePack
    BY <1>2, <2>1 DEF Disk
  <2> QED
    BY <1>3, <2>1, <2>2, StageThrough
<1>16. CASE WriteCommits(p)
  <2>1. /\ pc[p] = "writeCommits" /\ Goes(p, "openIndex") /\ Holds(p, me)
        /\ disk' = [disk EXCEPT !.commits = me.commits] /\ staged' = staged
    BY <1>16, WriteCommitsDoes
  <2>2. disk'.stageIdx = disk.stageIdx /\ disk'.stagePack = disk.stagePack
    BY <1>2, <2>1 DEF Disk
  <2> QED
    BY <1>3, <2>1, <2>2, StageThrough
<1>17. CASE OpenIndex(p)
  <2>1. /\ pc[p] = "openIndex" /\ Goes(p, "writeIndex") /\ Holds(p, me)
        /\ disk' = [disk EXCEPT !["index"] = <<>>] /\ staged' = staged
    BY <1>3, <1>4, <1>17, TruncateDoes DEF OpenIndex
  <2>2. disk'.stageIdx = disk.stageIdx /\ disk'.stagePack = disk.stagePack
    BY <1>2, <2>1 DEF Disk
  <2> QED
    BY <1>3, <2>1, <2>2, StageThrough
<1>18. CASE WriteIndex(p)
  <2> DEFINE index == Written("index", me.index)
  <2>1. /\ pc[p] = "writeIndex" /\ Goes(p, "cleanIdx") /\ Holds(p, me)
        /\ disk' = [disk EXCEPT !.index = index] /\ staged' = staged
    BY <1>18, WriteIndexDoes
  <2>2. disk'.stageIdx = disk.stageIdx /\ disk'.stagePack = disk.stagePack
    <3> HIDE DEF index
    <3> QED
      BY <1>2, <2>1 DEF Disk
  <2> QED
    BY <1>3, <2>1, <2>2, StageThrough
<1> QED
    BY <1>5, <1>6, <1>7, <1>8, <1>9, <1>10, <1>11, <1>12, <1>13, <1>14, <1>15, <1>16,
       <1>17, <1>18
    DEF Commit

LEMMA StageCleanFlags ==
    ASSUME TypeInv, RaceInv, StageInv, Next, NEW p \in Proc, Clean(p) \/ Flags(p)
    PROVE  StageInv'
<1> SUFFICES ASSUME ~raced'.stage PROVE StageInv'
    BY DEF StageInv
<1> DEFINE me == mine[p]
<1>1. ~raced.stage
    BY RacedStep
<1>2. me \in Mine /\ disk \in Disk
    BY MineType
<1>3. /\ {"idle", "resetRead", "flagsRead", "openFlags", "writeFlags"}
                \subseteq Points \ StageWindow
      /\ {"cleanIdx", "cleanPack"} \subseteq Points \cap StageWindow
      /\ "stageIdx" \in File /\ "commits" \in File
    BY DEF Points, StageWindow, File
<1>4. CASE BeginReset(p) \/ BeginFlags(p)
  <2>1. pc[p] = "idle"
    BY <1>4 DEF BeginReset, BeginFlags, Begin
  <2> QED
    BY <1>1, <1>3, <1>4, <2>1, BeginDoes, StageAway DEF BeginReset, BeginFlags
<1>5. CASE ResetRead(p)
  <2> DEFINE m == [me EXCEPT !["stageIdx"] = disk["stageIdx"]]
  <2>1. /\ pc[p] = "resetRead" /\ Goes(p, "cleanIdx") /\ Holds(p, m)
        /\ disk' = disk /\ staged' = staged
    BY <1>3, <1>5, ReadDoes DEF ResetRead
  <2>2. \A q \in Proc \ {p} : pc[q] \notin StageWindow /\ pc'[q] = pc[q]
    BY <1>3, <2>1, AloneAtStage
  <2>3. staged = Names(disk.stageIdx) /\ Genuine(disk.stageIdx, disk.stagePack)
    BY <1>1, <2>1, <2>2, StageFound
  <2>4. m.stageIdx = disk.stageIdx
    BY <1>2 DEF Mine
  <2> HIDE DEF m
  <2>5. StageAt("cleanIdx", m, disk', staged')
    BY <2>1, <2>4 DEF StageAt, CopyPoints
  <2> QED
    BY <2>1, <2>2, <2>3, <2>5, StageLeft
<1>6. CASE CleanIdx(p)
  <2>1. /\ pc[p] = "cleanIdx" /\ Goes(p, "cleanPack") /\ Holds(p, me)
        /\ disk' = [disk EXCEPT !.stageIdx = <<>>]
        /\ staged' = staged \ Names(me.stageIdx)
    BY <1>6, CleanIdxDoes
  <2>2. \A q \in Proc \ {p} : pc[q] \notin StageWindow /\ pc'[q] = pc[q]
    BY <1>3, <2>1, AloneAtStage
  <2>3. staged = Names(disk.stageIdx) /\ StageOf(p)
    BY <1>1, <2>1, <2>2, StageFound
  <2>4. me.stageIdx = disk.stageIdx
    BY <2>1, <2>3 DEF StageOf, StageAt
  <2>5. staged' = {} /\ disk'.stageIdx = <<>>
    BY <1>2, <2>1, <2>3, <2>4 DEF Disk
  <2>6. Names(<<>>) = {} /\ \A pack : Genuine(<<>>, pack)
    BY DEF Names, Genuine
  <2>7. StageAt("cleanPack", me, disk', staged')
    BY <2>5 DEF StageAt, CopyPoints
  <2> QED
    BY <2>1, <2>2, <2>5, <2>6, <2>7, StageLeft
<1>7. CASE CleanPack(p)
  <2>1. /\ pc[p] = "cleanPack" /\ Goes(p, "idle") /\ Holds(p, Empty)
        /\ disk' = [disk EXCEPT !.stagePack = <<>>] /\ staged' = staged
    BY <1>7, CleanPackDoes
  <2>2. \A q \in Proc \ {p} : pc[q] \notin StageWindow /\ pc'[q] = pc[q]
    BY <1>3, <2>1, AloneAtStage
  <2>3. staged = Names(disk.stageIdx) /\ StageOf(p)
    BY <1>1, <2>1, <2>2, StageFound
  <2>4. disk'.stageIdx = <<>> /\ disk.stageIdx = <<>>
    BY <1>2, <2>1, <2>3 DEF Disk, StageOf, StageAt
  <2>5. \A pack : Genuine(<<>>, pack)
    BY DEF Genuine
  <2>6. StageAt("idle", Empty, disk', staged')
    BY DEF StageAt, CopyPoints
  <2> QED
    BY <2>1, <2>2, <2>3, <2>4, <2>5, <2>6, StageLeft
<1>8. CASE NoCommits(p)
  <2>1. /\ pc[p] = "flagsRead" /\ Goes(p, "idle") /\ Holds(p, Empty)
        /\ disk' = disk /\ staged' = staged
    BY <1>8, ExitDoes DEF NoCommits
  <2> QED
    BY <1>1, <1>3, <2>1, StageAway
<1>9. CASE FlagsRead(p)
  <2>1. PICK m : /\ pc[p] = "flagsRead" /\ Goes(p, "openFlags") /\ Holds(p, m)
                 /\ disk' = disk /\ staged' = staged
    BY <1>9, FlagsReadDoes
  <2> QED
    BY <1>1, <1>3, <2>1, StageAway
<1>10. CASE OpenFlags(p)
  <2>1. /\ pc[p] = "openFlags" /\ Goes(p, "writeFlags") /\ Holds(p, me)
        /\ disk' = [disk EXCEPT !["commits"] = <<>>] /\ staged' = staged
    BY <1>3, <1>10, TruncateDoes DEF OpenFlags
  <2>2. disk'.stageIdx = disk.stageIdx /\ disk'.stagePack = disk.stagePack
    BY <1>2, <2>1 DEF Disk
  <2> QED
    BY <1>1, <1>3, <2>1, <2>2, StageAway
<1>11. CASE WriteFlags(p)
  <2>1. /\ pc[p] = "writeFlags" /\ Goes(p, "idle") /\ Holds(p, Empty)
        /\ disk' = [disk EXCEPT !.commits = me.commits] /\ staged' = staged
    BY <1>11, WriteFlagsDoes
  <2>2. disk'.stageIdx = disk.stageIdx /\ disk'.stagePack = disk.stagePack
    BY <1>2, <2>1 DEF Disk
  <2> QED
    BY <1>1, <1>3, <2>1, <2>2, StageAway
<1> QED
    BY <1>4, <1>5, <1>6, <1>7, <1>8, <1>9, <1>10, <1>11 DEF Clean, Flags

LEMMA StageNext == TypeInv /\ RaceInv /\ StageInv /\ [Next]_vars => StageInv'
<1> SUFFICES ASSUME TypeInv, RaceInv, StageInv, [Next]_vars PROVE StageInv'
    OBVIOUS
<1>1. CASE Next
  <2>1. PICK p \in Proc : Insert(p) \/ Commit(p) \/ Clean(p) \/ Flags(p)
    BY <1>1 DEF Next
  <2> QED
    BY <1>1, <2>1, StageInsert, StageCommit, StageCleanFlags
<1>2. CASE UNCHANGED vars
    BY <1>2 DEF vars, StageInv, StageOf, OpenedBy
<1> QED
    BY <1>1, <1>2

-----------------------------------------------------------------------------
(* Entries *)

LEMMA SameEntries ==
    ASSUME NEW a, NEW b, NEW index, a.start = b.start, a.len = b.len
    PROVE  Entries(a, index) = Entries(b, index)
BY DEF Entries

\* What is written behind an index is not among the entries before.
LEMMA EntriesStay ==
    ASSUME NEW c \in CommitRec, NEW index \in Seq(Place), NEW more \in Seq(Place),
           c.start + c.len <= Len(index) + 1
    PROVE  Entries(c, index \o more) = Entries(c, index)
<1> DEFINE long == index \o more
<1>1. c.start \in Nat \ {0} /\ c.len \in Nat /\ Len(index) \in Nat
    BY DEF CommitRec
<1>2. DOMAIN index = 1 .. Len(index)
    OBVIOUS
<1>3. \A l \in 1 .. Len(index) : l \in DOMAIN long /\ long[l] = index[l]
  <2>1. long \in Seq(Place) /\ Len(long) = Len(index) + Len(more) /\ Len(more) \in Nat
    BY ConcatProperties
  <2>2. DOMAIN long = 1 .. Len(index) + Len(more)
    BY <2>1
  <2> QED
    BY <1>1, <2>1, <2>2, ConcatProperties
<1> HIDE DEF long
<1>4. \A k \in 1 .. c.len :
        At(long, c.start + k - 1, Nowhere) = At(index, c.start + k - 1, Nowhere)
  <2> TAKE k \in 1 .. c.len
  <2>1. c.start + k - 1 \in 1 .. Len(index)
    BY <1>1
  <2> QED
    BY <1>2, <1>3, <2>1 DEF At
<1> QED
    BY <1>4 DEF Entries, long

\* The entries of a new commit are what was written behind the index.
LEMMA EntriesNew ==
    ASSUME NEW index \in Seq(Place), NEW all \in Seq(Place)
    PROVE  LET c == [start |-> Len(index) + 1, len |-> Len(all), head |-> TRUE]
           IN  Entries(c, index \o all) = all
<1> DEFINE c == [start |-> Len(index) + 1, len |-> Len(all), head |-> TRUE]
           long == index \o all
           n == Len(index)
           l == Len(all)
<1>1. n \in Nat /\ l \in Nat /\ DOMAIN all = 1 .. l
    OBVIOUS
<1>2. /\ DOMAIN long = 1 .. n + l
      /\ \A k \in 1 .. n + l : long[k] = IF k <= n THEN index[k] ELSE all[k - n]
  <2>1. /\ long \in Seq(Place) /\ Len(long) = n + l
        /\ \A k \in 1 .. n + l : long[k] = IF k <= n THEN index[k] ELSE all[k - n]
    BY ConcatProperties
  <2> HIDE DEF long, n, l
  <2> QED
    BY <1>1, <2>1
<1>3. c.start = n + 1 /\ c.len = l
    OBVIOUS
<1> SUFFICES Entries(c, long) = all
    OBVIOUS
<1> HIDE DEF c, long, n, l
<1>4. \A k \in 1 .. l : At(long, (n + 1) + k - 1, Nowhere) = all[k]
  <2> TAKE k \in 1 .. l
  <2>1. (n + 1) + k - 1 = n + k /\ n + k \in 1 .. n + l /\ ~(n + k <= n) /\ (n + k) - n = k
    BY <1>1
  <2>2. n + k \in DOMAIN long /\ long[n + k] = all[k]
    BY <1>2, <2>1
  <2> QED
    BY <2>1, <2>2 DEF At
<1>5. Entries(c, long) = [k \in 1 .. l |-> all[k]]
    BY <1>3, <1>4 DEF Entries
<1>6. all = [k \in 1 .. l |-> all[k]]
    BY <1>1
<1> QED
    BY <1>5, <1>6

\* A flag is no part of what is kept.
LEMMA Reflagged ==
    ASSUME NEW new \in Seq(CommitRec), NEW old \in Seq(CommitRec), SameRanges(new, old),
           NEW index, NEW those
    PROVE  /\ Fits(new, index) = Fits(old, index)
           /\ Kept(new, index, those) = Kept(old, index, those)
           /\ Known(new, index, those) = Known(old, index, those)
<1>1. DOMAIN new = DOMAIN old
    BY DEF SameRanges
<1>2. \A k \in DOMAIN old : new[k].start = old[k].start /\ new[k].len = old[k].len
    BY DEF SameRanges
<1>3. \A k \in DOMAIN old : Entries(new[k], index) = Entries(old[k], index)
    BY <1>2, SameEntries
<1>4. Fits(new, index) = Fits(old, index)
    BY <1>1, <1>2 DEF Fits
<1>5. Kept(new, index, those) = Kept(old, index, those)
    BY <1>1, <1>3 DEF Kept
<1>6. Known(new, index, those) = Known(old, index, those)
    BY <1>1, <1>3 DEF Known
<1> QED
    BY <1>4, <1>5, <1>6

\* A commit is added at the end of the commits, its entries at the end of the
\* index.
LEMMA CommitAdded ==
    ASSUME NEW commits \in Seq(CommitRec), NEW index \in Seq(Place), NEW all \in Seq(Place),
           NEW those, Told(commits, index, those)
    PROVE  LET c == [start |-> Len(index) + 1, len |-> Len(all), head |-> TRUE]
               more == Append(WithoutHead(commits), c)
           IN  Kept(more, index, those) /\ ToldWith(more, index \o all, those, all)
<1> DEFINE c == [start |-> Len(index) + 1, len |-> Len(all), head |-> TRUE]
           w == WithoutHead(commits)
           more == Append(w, c)
           long == index \o all
           n == Len(w)
           i == Len(index)
           l == Len(all)
<1> SUFFICES Kept(more, index, those) /\ ToldWith(more, long, those, all)
    OBVIOUS
<1>1. w \in Seq(CommitRec) /\ SameRanges(w, commits)
    BY WithoutHeadKeeps
<1>2. Fits(w, index) /\ Kept(w, index, those) /\ Known(w, index, those)
    BY <1>1, Reflagged DEF Told
<1>3. Entries(c, long) = all
    BY EntriesNew
<1>4. i \in Nat /\ l \in Nat /\ long \in Seq(Place) /\ Len(long) = i + l
    BY ConcatProperties
<1>5. n \in Nat /\ DOMAIN w = 1 .. n /\ \A k \in DOMAIN w : w[k] \in CommitRec
  <2> HIDE DEF w
  <2> QED
    BY <1>1
<1>6. c.start = i + 1 /\ c.len = l
    OBVIOUS
<1>7. \A k \in DOMAIN w : w[k].start \in Nat /\ w[k].len \in Nat
    BY <1>5 DEF CommitRec
<1>8. \A k \in DOMAIN w : w[k].start + w[k].len <= i + 1
    BY <1>2 DEF Fits
<1>9. \A k \in DOMAIN w : Entries(w[k], long) = Entries(w[k], index)
    BY <1>5, <1>8, EntriesStay
<1> HIDE DEF c, w, long, i, l
<1>10. /\ DOMAIN more = DOMAIN w \union {n + 1} /\ more[n + 1] = c
       /\ \A k \in DOMAIN w : more[k] = w[k]
    BY <1>1, <1>5
<1> HIDE DEF more, n
<1>11. Kept(more, index, those)
    BY <1>2, <1>10 DEF Kept
<1>12. Fits(more, long)
  <2>1. \A k \in DOMAIN more : more[k].start + more[k].len <= (i + l) + 1
    BY <1>4, <1>6, <1>7, <1>8, <1>10
  <2> QED
    BY <1>4, <2>1 DEF Fits
<1>13. Kept(more, long, those)
    BY <1>2, <1>9, <1>10 DEF Kept
<1>14. \A k \in DOMAIN more :
            \/ Entries(more[k], long) = all
            \/ \E d \in those : Entries(more[k], long) = d.entries
    BY <1>2, <1>3, <1>9, <1>10 DEF Known
<1> QED
    BY <1>3, <1>10, <1>11, <1>12, <1>13, <1>14 DEF ToldWith

\* When its entries are in the index, the commit is one of those.
LEMMA CommitTold ==
    ASSUME NEW commits, NEW index, NEW those, NEW made,
           ToldWith(commits, index, those, made.entries)
    PROVE  Told(commits, index, those \union {made})
BY DEF ToldWith, Told, Kept, Known

LEMMA PackedGrows ==
    ASSUME NEW pack \in Seq(Nat), NEW more \in Seq(Nat), NEW cut,
           NEW those, those \subseteq [entries : Seq(Place), genuine : BOOLEAN],
           Packed(pack, those, cut)
    PROVE  Packed(pack \o more, those, cut)
<1>1. \A c \in those : c.entries \in Seq(Place)
    OBVIOUS
<1> QED
    BY <1>1, GenuineGrows DEF Packed

-----------------------------------------------------------------------------
(* The history keeps its invariant *)

LEMMA HistoryOutside ==
    ASSUME NEW at, NEW me, NEW files, NEW those, NEW cut, at \notin HistoryWindow
    PROVE  HistoryAt(at, me, files, those, cut)
BY DEF HistoryAt, HistoryWindow

\* Of the files it is only said what these operators say.
LEMMA HistoryPrimes ==
    /\ Packed(disk.pack, done, cuts)' = Packed(disk'.pack, done', cuts')
    /\ Kept(disk.commits, disk.index, done)' = Kept(disk'.commits, disk'.index, done')
    /\ Told(disk.commits, disk.index, done)' = Told(disk'.commits, disk'.index, done')
    /\ \A p \in Proc : HistoryOf(p)' = HistoryAt(pc'[p], mine'[p], disk', done', cuts')
<1>1. /\ Packed(disk.pack, done, cuts)' = Packed(disk'.pack, done', cuts')
      /\ Kept(disk.commits, disk.index, done)' = Kept(disk'.commits, disk'.index, done')
    BY DEF Packed, Kept, Genuine, Entries
<1>2. Told(disk.commits, disk.index, done)' = Told(disk'.commits, disk'.index, done')
    BY DEF Told, Kept, Known, Fits, Entries
<1>3. \A p \in Proc : HistoryOf(p)' = HistoryAt(pc'[p], mine'[p], disk', done', cuts')
    BY DEF HistoryOf, HistoryAt, Packed, Told, ToldWith, Kept, Known, Fits, Entries, Genuine
<1> QED
    BY <1>1, <1>2, <1>3

\* What the process in the window finds.
LEMMA HistoryFound ==
    ASSUME HistoryInv, ~raced.history, NEW p \in Proc,
           \A q \in Proc \ {p} : pc[q] \notin HistoryWindow
    PROVE  /\ pc[p] # "writePack" => Packed(disk.pack, done, cuts)
           /\ pc[p] \notin {"writeCommits", "writeFlags", "writeIndex"} =>
                    Kept(disk.commits, disk.index, done)
           /\ pc[p] \notin {"writeCommits", "writeFlags", "openIndex", "writeIndex"} =>
                    Told(disk.commits, disk.index, done)
           /\ HistoryAt(pc[p], mine[p], disk, done, cuts)
<1>1. {"writePack", "writeCommits", "writeFlags", "openIndex", "writeIndex"}
            \subseteq HistoryWindow
    BY DEF HistoryWindow
<1>2. /\ pc[p] # "writePack" => OpenedBy({"writePack"}) = {}
      /\ pc[p] \notin {"writeCommits", "writeFlags", "writeIndex"} =>
                OpenedBy({"writeCommits", "writeFlags", "writeIndex"}) = {}
      /\ pc[p] \notin {"writeCommits", "writeFlags", "openIndex", "writeIndex"} =>
                OpenedBy({"writeCommits", "writeFlags", "openIndex", "writeIndex"}) = {}
    BY <1>1 DEF OpenedBy
<1> QED
    BY <1>2 DEF HistoryInv, HistoryOf

\* What it has to leave.
LEMMA HistoryLeft ==
    ASSUME NEW p \in Proc, NEW to, Goes(p, to), NEW m, Holds(p, m),
           \A q \in Proc \ {p} : pc'[q] \notin HistoryWindow,
           to # "writePack" => Packed(disk'.pack, done', cuts'),
           to \notin {"writeCommits", "writeFlags", "writeIndex"} =>
                Kept(disk'.commits, disk'.index, done'),
           to \notin {"writeCommits", "writeFlags", "openIndex", "writeIndex"} =>
                Told(disk'.commits, disk'.index, done'),
           HistoryAt(to, m, disk', done', cuts')
    PROVE  HistoryInv'
<1>1. pc'[p] = to /\ mine'[p] = m
    BY DEF Goes, Holds
<1>2. /\ OpenedBy({"writePack"})' = {} => to # "writePack"
      /\ OpenedBy({"writeCommits", "writeFlags", "writeIndex"})' = {} =>
                to \notin {"writeCommits", "writeFlags", "writeIndex"}
      /\ OpenedBy({"writeCommits", "writeFlags", "openIndex", "writeIndex"})' = {} =>
                to \notin {"writeCommits", "writeFlags", "openIndex", "writeIndex"}
    BY <1>1 DEF OpenedBy
<1>3. \A q \in Proc : HistoryAt(pc'[q], mine'[q], disk', done', cuts')
    BY <1>1, HistoryOutside
<1> QED
    BY <1>2, <1>3, HistoryPrimes DEF HistoryInv

\* A process outside.
LEMMA HistoryAway ==
    ASSUME HistoryInv, NEW p \in Proc, NEW to, Goes(p, to), NEW m, Holds(p, m),
           raced.history => raced'.history,
           pc[p] \notin HistoryWindow, to \notin HistoryWindow,
           disk'.commits = disk.commits, disk'.index = disk.index, disk'.pack = disk.pack,
           done' = done, cuts' = cuts
    PROVE  HistoryInv'
<1> SUFFICES ASSUME ~raced'.history PROVE HistoryInv'
    BY DEF HistoryInv
<1>1. /\ pc'[p] = to /\ \A q \in Proc \ {p} : pc'[q] = pc[q]
      /\ \A q \in Proc \ {p} : mine'[q] = mine[q]
    BY DEF Goes, Holds
<1>2. {"writePack", "writeCommits", "writeFlags", "openIndex", "writeIndex"}
            \subseteq HistoryWindow
    BY DEF HistoryWindow
<1>3. /\ OpenedBy({"writePack"})' = OpenedBy({"writePack"})
      /\ OpenedBy({"writeCommits", "writeFlags", "writeIndex"})'
            = OpenedBy({"writeCommits", "writeFlags", "writeIndex"})
      /\ OpenedBy({"writeCommits", "writeFlags", "openIndex", "writeIndex"})'
            = OpenedBy({"writeCommits", "writeFlags", "openIndex", "writeIndex"})
    BY <1>1, <1>2 DEF OpenedBy
<1>4. HistoryAt(pc'[p], mine'[p], disk', done', cuts')
    BY <1>1, HistoryOutside
<1>5. \A q \in Proc \ {p} : HistoryAt(pc'[q], mine'[q], disk', done', cuts')
  <2> TAKE q \in Proc \ {p}
  <2>1. pc'[q] = pc[q] /\ mine'[q] = mine[q] /\ HistoryAt(pc[q], mine[q], disk, done, cuts)
    BY <1>1 DEF HistoryInv, HistoryOf
  <2> QED
    BY <2>1 DEF HistoryAt
<1> QED
    BY <1>3, <1>4, <1>5, HistoryPrimes DEF HistoryInv

\* Inserts, resets and the end of a commit leave the history alone.
LEMMA InsertCleanDoes ==
    ASSUME TypeInv, NEW p \in Proc, Insert(p) \/ Clean(p)
    PROVE  \E to \in Points \ HistoryWindow : \E m :
           /\ pc[p] \notin HistoryWindow /\ Goes(p, to) /\ Holds(p, m)
           /\ disk'.commits = disk.commits /\ disk'.index = disk.index /\ disk'.pack = disk.pack
           /\ done' = done /\ cuts' = cuts
<1>1. disk \in Disk
    BY MineType
<1>2. /\ InsertPoints \union {"idle", "resetRead", "cleanIdx", "cleanPack"}
                \subseteq Points \ HistoryWindow
      /\ {"stageIdx", "stagePack"} \subseteq File
    BY DEF Points, InsertPoints, HistoryWindow, File
<1> USE DEF InsertPoints
<1>3. CASE BeginInsert(p)
    BY <1>2, <1>3, BeginInsertDoes
<1>4. CASE InsertReadIdx(p)
    BY <1>2, <1>4, ReadDoes DEF InsertReadIdx
<1>5. CASE InsertReadPack(p)
    BY <1>2, <1>5, InsertReadPackDoes
<1>6. CASE InsertOpenPack(p)
  <2>1. /\ pc[p] = "insertOpenPack" /\ Goes(p, "insertPack") /\ Holds(p, mine[p])
        /\ disk' = [disk EXCEPT !["stagePack"] = <<>>] /\ UNCHANGED <<done, cuts>>
    BY <1>2, <1>6, TruncateDoes DEF InsertOpenPack
  <2> QED
    BY <1>1, <1>2, <2>1 DEF Disk
<1>7. CASE InsertPack(p)
  <2> DEFINE new == Written("stagePack", mine[p].stagePack)
  <2>1. /\ pc[p] = "insertPack" /\ Goes(p, "insertOpenIdx") /\ Holds(p, mine[p])
        /\ disk' = [disk EXCEPT !.stagePack = new] /\ UNCHANGED <<done, cuts>>
    BY <1>7, InsertPackDoes
  <2> HIDE DEF new
  <2> QED
    BY <1>1, <1>2, <2>1 DEF Disk
<1>8. CASE InsertOpenIdx(p)
  <2>1. /\ pc[p] = "insertOpenIdx" /\ Goes(p, "insertIdx") /\ Holds(p, mine[p])
        /\ disk' = [disk EXCEPT !["stageIdx"] = <<>>] /\ UNCHANGED <<done, cuts>>
    BY <1>2, <1>8, TruncateDoes DEF InsertOpenIdx
  <2> QED
    BY <1>1, <1>2, <2>1 DEF Disk
<1>9. CASE InsertIdx(p)
    BY <1>1, <1>2, <1>9, InsertIdxDoes DEF Disk
<1>10. CASE BeginReset(p)
  <2>1. pc[p] = "idle"
    BY <1>10 DEF BeginReset, Begin
  <2> QED
    BY <1>2, <1>10, <2>1, BeginDoes DEF BeginReset
<1>11. CASE ResetRead(p)
    BY <1>2, <1>11, ReadDoes DEF ResetRead
<1>12. CASE CleanIdx(p)
    BY <1>1, <1>2, <1>12, CleanIdxDoes DEF Disk
<1>13. CASE CleanPack(p)
    BY <1>1, <1>2, <1>13, CleanPackDoes DEF Disk
<1> QED
    BY <1>3, <1>4, <1>5, <1>6, <1>7, <1>8, <1>9, <1>10,
       <1>11, <1>12, <1>13 DEF Insert, Clean

LEMMA HistoryInsertClean ==
    ASSUME TypeInv, HistoryInv, Next, NEW p \in Proc, Insert(p) \/ Clean(p)
    PROVE  HistoryInv'
<1>1. raced.history => raced'.history
    BY RacedStep
<1> QED
    BY <1>1, InsertCleanDoes, HistoryAway

LEMMA HistoryFlags ==
    ASSUME TypeInv, RaceInv, HistoryInv, Next, NEW p \in Proc, Flags(p) PROVE HistoryInv'
<1> SUFFICES ASSUME ~raced'.history PROVE HistoryInv'
    BY DEF HistoryInv
<1> DEFINE me == mine[p]
<1>1. ~raced.history
    BY RacedStep
<1>2. me \in Mine /\ disk \in Disk
    BY MineType
<1>3. /\ {"idle", "flagsRead"} \subseteq Points \ HistoryWindow
      /\ {"openFlags", "writeFlags"} \subseteq Points \cap HistoryWindow /\ "commits" \in File
    BY DEF Points, HistoryWindow, File
<1>4. CASE BeginFlags(p)
  <2>1. pc[p] = "idle"
    BY <1>4 DEF BeginFlags, Begin
  <2> QED
    BY <1>1, <1>3, <1>4, <2>1, BeginDoes, HistoryAway DEF BeginFlags
<1>5. CASE NoCommits(p)
  <2>1. /\ pc[p] = "flagsRead" /\ Goes(p, "idle") /\ Holds(p, Empty)
        /\ disk' = disk /\ done' = done /\ cuts' = cuts
    BY <1>5, ExitDoes DEF NoCommits
  <2> QED
    BY <1>1, <1>3, <2>1, HistoryAway
<1>6. CASE FlagsRead(p)
  <2>1. PICK c \in Seq(CommitRec) :
            /\ SameRanges(c, disk.commits) /\ Holds(p, [me EXCEPT !.commits = c])
            /\ pc[p] = "flagsRead" /\ Goes(p, "openFlags")
            /\ disk' = disk /\ done' = done /\ cuts' = cuts
    BY <1>6, FlagsReadDoes
  <2> DEFINE m == [me EXCEPT !.commits = c]
  <2>2. \A q \in Proc \ {p} : pc[q] \notin HistoryWindow /\ pc'[q] = pc[q]
    BY <1>3, <2>1, AloneAtHistory
  <2>3. /\ Packed(disk.pack, done, cuts) /\ Kept(disk.commits, disk.index, done)
        /\ Told(disk.commits, disk.index, done)
    BY <1>1, <2>1, <2>2, HistoryFound
  <2>4. m.commits = c
    BY <1>2 DEF Mine
  <2>5. Told(c, disk.index, done)
    <3>1. disk.commits \in Seq(CommitRec)
      BY <1>2 DEF Disk
    <3> QED
      BY <2>1, <2>3, <3>1, Reflagged DEF Told
  <2>6. HistoryAt("openFlags", m, disk', done', cuts')
    <3> HIDE DEF m
    <3> QED
      BY <2>1, <2>4, <2>5 DEF HistoryAt
  <2> HIDE DEF m
  <2>7. Holds(p, m)
    BY <2>1 DEF m
  <2> QED
    BY <2>1, <2>2, <2>3, <2>6, <2>7, HistoryLeft
<1>7. CASE OpenFlags(p)
  <2>1. /\ pc[p] = "openFlags" /\ Goes(p, "writeFlags") /\ Holds(p, me)
        /\ disk' = [disk EXCEPT !["commits"] = <<>>] /\ done' = done /\ cuts' = cuts
    BY <1>3, <1>7, TruncateDoes DEF OpenFlags
  <2>2. \A q \in Proc \ {p} : pc[q] \notin HistoryWindow /\ pc'[q] = pc[q]
    BY <1>3, <2>1, AloneAtHistory
  <2>3. Packed(disk.pack, done, cuts) /\ HistoryAt("openFlags", me, disk, done, cuts)
    BY <1>1, <2>1, <2>2, HistoryFound
  <2>4. disk'.index = disk.index /\ disk'.pack = disk.pack
    BY <1>2, <2>1 DEF Disk
  <2>5. HistoryAt("writeFlags", me, disk', done', cuts')
    BY <2>1, <2>3, <2>4 DEF HistoryAt
  <2> QED
    BY <2>1, <2>2, <2>3, <2>4, <2>5, HistoryLeft
<1>8. CASE WriteFlags(p)
  <2>1. /\ pc[p] = "writeFlags" /\ Goes(p, "idle") /\ Holds(p, Empty)
        /\ disk' = [disk EXCEPT !.commits = me.commits] /\ done' = done /\ cuts' = cuts
    BY <1>8, WriteFlagsDoes
  <2>2. \A q \in Proc \ {p} : pc[q] \notin HistoryWindow /\ pc'[q] = pc[q]
    BY <1>3, <2>1, AloneAtHistory
  <2>3. Packed(disk.pack, done, cuts) /\ HistoryAt("writeFlags", me, disk, done, cuts)
    BY <1>1, <2>1, <2>2, HistoryFound
  <2>4. disk'.commits = me.commits /\ disk'.index = disk.index /\ disk'.pack = disk.pack
    BY <1>2, <2>1 DEF Disk
  <2>5. Told(disk'.commits, disk'.index, done')
    BY <2>1, <2>3, <2>4 DEF HistoryAt
  <2>6. Kept(disk'.commits, disk'.index, done')
    BY <2>5 DEF Told
  <2>7. HistoryAt("idle", Empty, disk', done', cuts')
    BY <1>3, HistoryOutside
  <2> QED
    BY <2>1, <2>2, <2>3, <2>4, <2>5, <2>6, <2>7, HistoryLeft
<1> QED
    BY <1>4, <1>5, <1>6, <1>7, <1>8 DEF Flags

LEMMA HistoryCommit ==
    ASSUME TypeInv, RaceInv, HistoryInv, Next, NEW p \in Proc, Commit(p) PROVE HistoryInv'
<1> SUFFICES ASSUME ~raced'.history PROVE HistoryInv'
    BY DEF HistoryInv
<1> DEFINE me == mine[p]
<1>1. ~raced.history
    BY RacedStep
<1>2. me \in Mine /\ disk \in Disk /\ disk.commits \in Seq(CommitRec)
      /\ disk.index \in Seq(Place) /\ disk.pack \in Seq(Nat)
    BY MineType DEF Disk
<1>3. /\ {"idle", "readCommits", "cleanIdx"} \subseteq Points \ HistoryWindow
      /\ CopyPoints \union {"readMaster"} \subseteq Points \cap HistoryWindow
      /\ \A to \in {"readStageIdx", "readStagePack", "readIndex", "readPack", "openPack", "writePack",
                    "openCommits", "writeCommits", "openIndex", "writeIndex"} : to \in CopyPoints
      /\ File = {"commits", "index", "pack", "stageIdx", "stagePack"}
    BY DEF Points, CopyPoints, HistoryWindow, File
<1>4. done \subseteq [entries : Seq(Place), genuine : BOOLEAN]
    BY DEF TypeInv
<1>5. CASE BeginCommit(p)
  <2>1. pc[p] = "idle"
    BY <1>5 DEF BeginCommit, Begin
  <2> QED
    BY <1>1, <1>3, <1>5, <2>1, BeginDoes, HistoryAway DEF BeginCommit
<1>6. CASE ReadCommits(p)
  <2> DEFINE m == [me EXCEPT !["commits"] = disk["commits"]]
  <2>1. /\ pc[p] = "readCommits" /\ Goes(p, "readMaster") /\ Holds(p, m)
        /\ disk' = disk /\ done' = done /\ cuts' = cuts
    BY <1>3, <1>6, ReadDoes DEF ReadCommits
  <2>2. \A q \in Proc \ {p} : pc[q] \notin HistoryWindow /\ pc'[q] = pc[q]
    BY <1>3, <2>1, AloneAtHistory
  <2>3. /\ Packed(disk.pack, done, cuts) /\ Kept(disk.commits, disk.index, done)
        /\ Told(disk.commits, disk.index, done)
    BY <1>1, <2>1, <2>2, HistoryFound
  <2>4. m.commits = disk.commits
    BY <1>2 DEF Mine
  <2> HIDE DEF m
  <2>5. HistoryAt("readMaster", m, disk', done', cuts')
    BY <2>1, <2>4 DEF HistoryAt
  <2> QED
    BY <2>1, <2>2, <2>3, <2>5, HistoryLeft
<1>7. CASE ReadMaster(p)
  <2> DEFINE c == me.commits
             copy == IF c = <<>> THEN <<>> ELSE Entries(c[Len(c)], disk.index)
             m == [me EXCEPT !.copy = copy]
  <2>1. /\ pc[p] = "readMaster" /\ Goes(p, "readStageIdx") /\ Holds(p, m)
        /\ disk' = disk /\ done' = done /\ cuts' = cuts
    BY <1>7, ReadMasterDoes
  <2>2. \A q \in Proc \ {p} : pc[q] \notin HistoryWindow /\ pc'[q] = pc[q]
    BY <1>3, <2>1, AloneAtHistory
  <2>3. /\ Packed(disk.pack, done, cuts) /\ Kept(disk.commits, disk.index, done)
        /\ Told(disk.commits, disk.index, done)
        /\ HistoryAt("readMaster", me, disk, done, cuts)
    BY <1>1, <2>1, <2>2, HistoryFound
  <2>4. c = disk.commits
    BY <2>3 DEF HistoryAt
  <2>5. copy = <<>> \/ \E d \in done : copy = d.entries
    <3>1. CASE c = <<>>
      BY <3>1
    <3>2. CASE c # <<>>
      <4>1. Len(c) \in DOMAIN disk.commits
        BY <1>2, <2>4, <3>2, EmptySeq
      <4>2. copy = Entries(disk.commits[Len(c)], disk.index)
        BY <2>4, <3>2
      <4> HIDE DEF copy, c
      <4> QED
        BY <2>3, <4>1, <4>2 DEF Told, Known
    <3> QED
      BY <3>1, <3>2
  <2> HIDE DEF copy
  <2>6. m.copy = copy /\ m.commits = disk.commits
    BY <1>2, <2>4 DEF Mine
  <2> HIDE DEF m
  <2>7. HistoryAt("readStageIdx", m, disk', done', cuts')
    BY <2>1, <2>5, <2>6 DEF HistoryAt
  <2> QED
    BY <2>1, <2>2, <2>3, <2>7, HistoryLeft
<1>8. CASE ReadStageIdx(p) \/ ReadStagePack(p)
  <2>1. \E m : /\ m.commits = me.commits /\ m.copy = me.copy /\ Holds(p, m)
               /\ disk' = disk /\ done' = done /\ cuts' = cuts
               /\ \/ pc[p] = "readStageIdx" /\ Goes(p, "readStagePack")
                  \/ pc[p] = "readStagePack" /\ Goes(p, "readIndex")
    <3>1. CASE ReadStageIdx(p)
      <4> DEFINE m == [me EXCEPT !["stageIdx"] = disk["stageIdx"]]
      <4>1. /\ pc[p] = "readStageIdx" /\ Goes(p, "readStagePack") /\ Holds(p, m)
            /\ disk' = disk /\ done' = done /\ cuts' = cuts
        BY <1>3, <3>1, ReadDoes DEF ReadStageIdx
      <4>2. m.commits = me.commits /\ m.copy = me.copy
        BY <1>2 DEF Mine
      <4> HIDE DEF m
      <4> QED
        BY <4>1, <4>2
    <3>2. CASE ReadStagePack(p)
      <4> DEFINE m == [me EXCEPT !["stagePack"] = disk["stagePack"]]
      <4>1. /\ pc[p] = "readStagePack" /\ Goes(p, "readIndex") /\ Holds(p, m)
            /\ disk' = disk /\ done' = done /\ cuts' = cuts
        BY <1>3, <3>2, ReadDoes DEF ReadStagePack
      <4>2. m.commits = me.commits /\ m.copy = me.copy
        BY <1>2 DEF Mine
      <4> HIDE DEF m
      <4> QED
        BY <4>1, <4>2
    <3> QED
      BY <1>8, <3>1, <3>2
  <2>2. PICK m : /\ m.commits = me.commits /\ m.copy = me.copy /\ Holds(p, m)
                 /\ disk' = disk /\ done' = done /\ cuts' = cuts
                 /\ \/ pc[p] = "readStageIdx" /\ Goes(p, "readStagePack")
                    \/ pc[p] = "readStagePack" /\ Goes(p, "readIndex")
    BY <2>1
  <2>3. PICK to \in {"readStagePack", "readIndex"} :
            pc[p] \in {"readStageIdx", "readStagePack"} /\ Goes(p, to)
    BY <2>2
  <2>4. \A q \in Proc \ {p} : pc[q] \notin HistoryWindow /\ pc'[q] = pc[q]
    BY <1>3, <2>3, AloneAtHistory
  <2>5. /\ Packed(disk.pack, done, cuts) /\ Kept(disk.commits, disk.index, done)
        /\ Told(disk.commits, disk.index, done)
        /\ HistoryAt(pc[p], me, disk, done, cuts)
    BY <1>1, <2>3, <2>4, HistoryFound
  <2>6. HistoryAt(to, m, disk', done', cuts')
    BY <2>2, <2>3, <2>5 DEF HistoryAt
  <2> QED
    BY <2>2, <2>3, <2>4, <2>5, <2>6, HistoryLeft
<1>9. CASE CommitNothing(p)
  <2>1. /\ pc[p] = "readIndex" /\ Goes(p, "idle") /\ Holds(p, Empty)
        /\ disk' = disk /\ done' = done /\ cuts' = cuts
    BY <1>9, ExitDoes DEF CommitNothing
  <2>2. \A q \in Proc \ {p} : pc[q] \notin HistoryWindow /\ pc'[q] = pc[q]
    BY <1>3, <2>1, AloneAtHistory
  <2>3. /\ Packed(disk.pack, done, cuts) /\ Kept(disk.commits, disk.index, done)
        /\ Told(disk.commits, disk.index, done)
    BY <1>1, <2>1, <2>2, HistoryFound
  <2>4. HistoryAt("idle", Empty, disk', done', cuts')
    BY <1>3, HistoryOutside
  <2> QED
    BY <2>1, <2>2, <2>3, <2>4, HistoryLeft
<1>10. CASE ReadIndex(p)
  <2> DEFINE m == [me EXCEPT !["index"] = disk["index"]]
  <2>1. /\ pc[p] = "readIndex" /\ Goes(p, "readPack") /\ Holds(p, m)
        /\ disk' = disk /\ done' = done /\ cuts' = cuts
    BY <1>3, <1>10, ReadDoes DEF ReadIndex
  <2>2. \A q \in Proc \ {p} : pc[q] \notin HistoryWindow /\ pc'[q] = pc[q]
    BY <1>3, <2>1, AloneAtHistory
  <2>3. /\ Packed(disk.pack, done, cuts) /\ Kept(disk.commits, disk.index, done)
        /\ Told(disk.commits, disk.index, done)
        /\ HistoryAt("readIndex", me, disk, done, cuts)
    BY <1>1, <2>1, <2>2, HistoryFound
  <2>4. m.commits = me.commits /\ m.copy = me.copy /\ m.index = disk.index
    BY <1>2 DEF Mine
  <2> HIDE DEF m
  <2>5. HistoryAt("readPack", m, disk', done', cuts')
    BY <2>1, <2>3, <2>4 DEF HistoryAt
  <2> QED
    BY <2>1, <2>2, <2>3, <2>5, HistoryLeft
<1>11. CASE ReadPack(p)
  <2> DEFINE contents == NewContents(me.stageIdx, me.stagePack)
             all == me.copy \o NewPlaces(me.stageIdx, disk.pack)
             commit == [start |-> Len(me.index) + 1, len |-> Len(all), head |-> TRUE]
             more == Append(WithoutHead(me.commits), commit)
             m == [me EXCEPT !.pack = disk.pack \o contents, !.index = me.index \o all,
                             !.copy = all, !.commits = more]
  <2>1. /\ pc[p] = "readPack" /\ Goes(p, "openPack") /\ Holds(p, m) /\ all \in Seq(Place)
        /\ disk' = disk /\ done' = done /\ cuts' = cuts
    BY <1>11, ReadPackDoes
  <2>2. \A q \in Proc \ {p} : pc[q] \notin HistoryWindow /\ pc'[q] = pc[q]
    BY <1>3, <2>1, AloneAtHistory
  <2>3. /\ Packed(disk.pack, done, cuts) /\ Kept(disk.commits, disk.index, done)
        /\ Told(disk.commits, disk.index, done)
        /\ HistoryAt("readPack", me, disk, done, cuts)
    BY <1>1, <2>1, <2>2, HistoryFound
  <2>4. me.commits = disk.commits /\ me.index = disk.index
    BY <2>3 DEF HistoryAt
  <2>5. contents \in Seq(Nat)
    <3>1. me.stageIdx \in Seq(Node) /\ me.stagePack \in Seq(Nat)
      BY <1>2 DEF Mine
    <3> QED
      BY <1>2, <3>1, NewTypes
  <2>6. Packed(disk.pack \o contents, done, cuts)
    BY <1>2, <1>4, <2>3, <2>5, PackedGrows
  <2> HIDE DEF contents, all
  <2>7. Kept(more, disk.index, done) /\ ToldWith(more, me.index \o all, done, all)
    BY <1>2, <2>1, <2>3, <2>4, CommitAdded
  <2> HIDE DEF more, commit
  <2>8. /\ m.pack = disk.pack \o contents /\ m.index = me.index \o all
        /\ m.copy = all /\ m.commits = more
    BY <1>2 DEF Mine
  <2> HIDE DEF m
  <2>9. HistoryAt("openPack", m, disk', done', cuts')
    BY <2>1, <2>6, <2>7, <2>8 DEF HistoryAt
  <2>10. Holds(p, m)
    BY <2>1 DEF m, more, commit
  <2> QED
    BY <2>1, <2>2, <2>3, <2>9, <2>10, HistoryLeft
<1>12. CASE OpenPack(p)
  <2>1. /\ pc[p] = "openPack" /\ Goes(p, "writePack") /\ Holds(p, me)
        /\ disk' = [disk EXCEPT !["pack"] = <<>>] /\ done' = done /\ cuts' = cuts
    BY <1>3, <1>12, TruncateDoes DEF OpenPack
  <2>2. \A q \in Proc \ {p} : pc[q] \notin HistoryWindow /\ pc'[q] = pc[q]
    BY <1>3, <2>1, AloneAtHistory
  <2>3. /\ Kept(disk.commits, disk.index, done) /\ Told(disk.commits, disk.index, done)
        /\ HistoryAt("openPack", me, disk, done, cuts)
    BY <1>1, <2>1, <2>2, HistoryFound
  <2>4. disk'.commits = disk.commits /\ disk'.index = disk.index
    BY <1>2, <2>1 DEF Disk
  <2>5. HistoryAt("writePack", me, disk', done', cuts')
    BY <2>1, <2>3, <2>4 DEF HistoryAt
  <2> QED
    BY <2>1, <2>2, <2>3, <2>4, <2>5, HistoryLeft
<1>13. CASE WritePack(p) \/ CutPack(p)
  <2>1. PICK pack \in Seq(Nat) :
            disk' = [disk EXCEPT !.pack = pack] /\ (WritePack(p) => pack = me.pack)
    BY <1>13, WritePackDoes
  <2>2. /\ pc[p] = "writePack" /\ Goes(p, "openCommits") /\ Holds(p, me) /\ done' = done
        /\ WritePack(p) => cuts' = cuts
        /\ CutPack(p) => cuts' = cuts + 1
    BY <1>13, WritePackDoes
  <2>3. \A q \in Proc \ {p} : pc[q] \notin HistoryWindow /\ pc'[q] = pc[q]
    BY <1>3, <2>2, AloneAtHistory
  <2>4. /\ Kept(disk.commits, disk.index, done) /\ Told(disk.commits, disk.index, done)
        /\ HistoryAt("writePack", me, disk, done, cuts)
    BY <1>1, <2>2, <2>3, HistoryFound
  <2>5. disk'.commits = disk.commits /\ disk'.index = disk.index /\ disk'.pack = pack
    BY <1>2, <2>1 DEF Disk
  <2>6. Packed(disk'.pack, done', cuts')
    <3>1. CASE WritePack(p)
      BY <2>1, <2>2, <2>4, <2>5, <3>1 DEF HistoryAt
    <3>2. CASE CutPack(p)
      <4>1. cuts' # 0
        BY <2>2, <3>2 DEF TypeInv
      <4> QED
        BY <4>1 DEF Packed
    <3> QED
      BY <1>13, <3>1, <3>2
  <2>7. HistoryAt("openCommits", me, disk', done', cuts')
    BY <2>2, <2>4, <2>5 DEF HistoryAt
  <2> QED
    BY <2>2, <2>3, <2>4, <2>5, <2>6, <2>7, HistoryLeft
<1>14. CASE OpenCommits(p)
  <2>1. /\ pc[p] = "openCommits" /\ Goes(p, "writeCommits") /\ Holds(p, me)
        /\ disk' = [disk EXCEPT !["commits"] = <<>>] /\ done' = done /\ cuts' = cuts
    BY <1>3, <1>14, TruncateDoes DEF OpenCommits
  <2>2. \A q \in Proc \ {p} : pc[q] \notin HistoryWindow /\ pc'[q] = pc[q]
    BY <1>3, <2>1, AloneAtHistory
  <2>3. Packed(disk.pack, done, cuts) /\ HistoryAt("openCommits", me, disk, done, cuts)
    BY <1>1, <2>1, <2>2, HistoryFound
  <2>4. disk'.pack = disk.pack /\ disk'.index = disk.index
    BY <1>2, <2>1 DEF Disk
  <2>5. HistoryAt("writeCommits", me, disk', done', cuts')
    BY <2>1, <2>3, <2>4 DEF HistoryAt
  <2> QED
    BY <2>1, <2>2, <2>3, <2>4, <2>5, HistoryLeft
<1>15. CASE WriteCommits(p)
  <2>1. /\ pc[p] = "writeCommits" /\ Goes(p, "openIndex") /\ Holds(p, me)
        /\ disk' = [disk EXCEPT !.commits = me.commits] /\ done' = done /\ cuts' = cuts
    BY <1>15, WriteCommitsDoes
  <2>2. \A q \in Proc \ {p} : pc[q] \notin HistoryWindow /\ pc'[q] = pc[q]
    BY <1>3, <2>1, AloneAtHistory
  <2>3. Packed(disk.pack, done, cuts) /\ HistoryAt("writeCommits", me, disk, done, cuts)
    BY <1>1, <2>1, <2>2, HistoryFound
  <2>4. disk'.commits = me.commits /\ disk'.pack = disk.pack /\ disk'.index = disk.index
    BY <1>2, <2>1 DEF Disk
  <2>5. Kept(disk'.commits, disk'.index, done')
    BY <2>1, <2>3, <2>4 DEF HistoryAt
  <2>6. HistoryAt("openIndex", me, disk', done', cuts')
    BY <2>1, <2>3, <2>4 DEF HistoryAt
  <2> QED
    BY <2>1, <2>2, <2>3, <2>4, <2>5, <2>6, HistoryLeft
<1>16. CASE OpenIndex(p)
  <2>1. /\ pc[p] = "openIndex" /\ Goes(p, "writeIndex") /\ Holds(p, me)
        /\ disk' = [disk EXCEPT !["index"] = <<>>] /\ done' = done /\ cuts' = cuts
    BY <1>3, <1>16, TruncateDoes DEF OpenIndex
  <2>2. \A q \in Proc \ {p} : pc[q] \notin HistoryWindow /\ pc'[q] = pc[q]
    BY <1>3, <2>1, AloneAtHistory
  <2>3. Packed(disk.pack, done, cuts) /\ HistoryAt("openIndex", me, disk, done, cuts)
    BY <1>1, <2>1, <2>2, HistoryFound
  <2>4. disk'.commits = disk.commits /\ disk'.pack = disk.pack /\ disk'.index = <<>>
    BY <1>2, <2>1 DEF Disk
  <2>5. HistoryAt("writeIndex", me, disk', done', cuts')
    BY <2>1, <2>3, <2>4 DEF HistoryAt
  <2> QED
    BY <2>1, <2>2, <2>3, <2>4, <2>5, HistoryLeft
<1>17. CASE WriteIndex(p)
  <2> DEFINE index == Written("index", me.index)
             made == [entries |-> me.copy, genuine |-> Genuine(me.copy, disk.pack)]
  <2>1. /\ pc[p] = "writeIndex" /\ Goes(p, "cleanIdx") /\ Holds(p, me)
        /\ disk' = [disk EXCEPT !.index = index] /\ (disk.index = <<>> => disk'.index = me.index)
        /\ done' = done \union {made} /\ cuts' = cuts
    BY <1>17, WriteIndexDoes
  <2>2. \A q \in Proc \ {p} : pc[q] \notin HistoryWindow /\ pc'[q] = pc[q]
    BY <1>3, <2>1, AloneAtHistory
  <2>3. Packed(disk.pack, done, cuts) /\ HistoryAt("writeIndex", me, disk, done, cuts)
    BY <1>1, <2>1, <2>2, HistoryFound
  <2>4. disk'.commits = disk.commits /\ disk'.pack = disk.pack
    <3> HIDE DEF index
    <3> QED
      BY <1>2, <2>1 DEF Disk
  <2>5. /\ disk.commits = me.commits /\ disk.index = <<>>
        /\ ToldWith(me.commits, me.index, done, me.copy)
    BY <2>3 DEF HistoryAt
  <2>6. made.entries = me.copy /\ made.genuine = Genuine(me.copy, disk.pack)
    OBVIOUS
  <2> HIDE DEF made, index
  <2>7. Told(disk'.commits, disk'.index, done')
    <3>1. ToldWith(me.commits, me.index, done, made.entries)
      BY <2>5, <2>6
    <3>2. Told(me.commits, me.index, done \union {made})
      BY <3>1, CommitTold
    <3> QED
      BY <2>1, <2>4, <2>5, <3>2
  <2>8. Packed(disk'.pack, done', cuts')
    BY <2>1, <2>3, <2>4, <2>6 DEF Packed
  <2>9. Kept(disk'.commits, disk'.index, done')
    BY <2>7 DEF Told
  <2>10. HistoryAt("cleanIdx", me, disk', done', cuts')
    BY <1>3, HistoryOutside
  <2> QED
    BY <2>1, <2>2, <2>7, <2>8, <2>9, <2>10, HistoryLeft
<1> QED
    BY <1>5, <1>6, <1>7, <1>8, <1>9, <1>10, <1>11, <1>12, <1>13, <1>14, <1>15, <1>16, <1>17
    DEF Commit

LEMMA HistoryNext == TypeInv /\ RaceInv /\ HistoryInv /\ [Next]_vars => HistoryInv'
<1> SUFFICES ASSUME TypeInv, RaceInv, HistoryInv, [Next]_vars PROVE HistoryInv'
    OBVIOUS
<1>1. CASE Next
  <2>1. PICK p \in Proc : Insert(p) \/ Commit(p) \/ Clean(p) \/ Flags(p)
    BY <1>1 DEF Next
  <2> QED
    BY <1>1, <2>1, HistoryInsertClean, HistoryCommit, HistoryFlags
<1>2. CASE UNCHANGED vars
    BY <1>2 DEF vars, HistoryInv, HistoryOf, OpenedBy
<1> QED
    BY <1>1, <1>2

-----------------------------------------------------------------------------
(* What is committed is what was inserted *)

LEMMA GenuinePrimes ==
    GenuineInv' = (Undisturbed' => /\ \A c \in done' : c.genuine
                                   /\ \A p \in Proc : GenuineAt(pc'[p], mine'[p], disk'))
BY Zenon DEF GenuineInv, GenuineAt, Undisturbed, Genuine

\* Points at which a commit is prepared, and those after them.
Prepared == {"openPack", "writePack", "openCommits", "writeCommits", "openIndex", "writeIndex"}

\* The pack is not touched, and p has not prepared a commit.
LEMMA GenuineAway ==
    ASSUME GenuineInv, Undisturbed' => Undisturbed, done' = done,
           NEW p \in Proc, NEW to, to \notin Prepared, Goes(p, to), NEW m, Holds(p, m),
           disk'.pack = disk.pack
    PROVE  GenuineInv'
<1> SUFFICES ASSUME Undisturbed'
             PROVE  /\ \A c \in done' : c.genuine
                    /\ \A q \in Proc : GenuineAt(pc'[q], mine'[q], disk')
    BY GenuinePrimes
<1>1. /\ pc'[p] = to /\ \A q \in Proc \ {p} : pc'[q] = pc[q]
      /\ \A q \in Proc \ {p} : mine'[q] = mine[q]
    BY DEF Goes, Holds
<1>2. (\A c \in done : c.genuine) /\ \A q \in Proc : GenuineAt(pc[q], mine[q], disk)
    BY DEF GenuineInv
<1>3. \A q \in Proc \ {p} : GenuineAt(pc'[q], mine'[q], disk')
    BY <1>1, <1>2 DEF GenuineAt
<1>4. GenuineAt(pc'[p], mine'[p], disk')
    BY <1>1 DEF GenuineAt, Prepared
<1> QED
    BY <1>2, <1>3, <1>4

\* p is alone at the history.
LEMMA GenuineLeft ==
    ASSUME NEW p \in Proc, NEW to, Goes(p, to), NEW m, Holds(p, m),
           \A q \in Proc \ {p} : pc'[q] \notin HistoryWindow,
           \A c \in done' : c.genuine,
           GenuineAt(to, m, disk')
    PROVE  GenuineInv'
<1>1. pc'[p] = to /\ mine'[p] = m
    BY DEF Goes, Holds
<1>2. \A q \in Proc \ {p} : GenuineAt(pc'[q], mine'[q], disk')
    BY DEF GenuineAt, HistoryWindow
<1> QED
    BY <1>1, <1>2, GenuinePrimes

LEMMA GenuineInsertClean ==
    ASSUME TypeInv, GenuineInv, Next, NEW p \in Proc, Insert(p) \/ Clean(p)
    PROVE  GenuineInv'
<1>1. (raced.history => raced'.history) /\ (raced.stage => raced'.stage)
    BY RacedStep
<1>2. Prepared \subseteq HistoryWindow
    BY DEF Prepared, HistoryWindow
<1>3. PICK to \in Points \ HistoryWindow :
        /\ Goes(p, to) /\ \E m : Holds(p, m)
        /\ disk'.pack = disk.pack /\ done' = done /\ cuts' = cuts
    BY InsertCleanDoes
<1>4. Undisturbed' => Undisturbed
    BY <1>1, <1>3 DEF Undisturbed
<1> QED
    BY <1>2, <1>3, <1>4, GenuineAway

LEMMA GenuineFlags ==
    ASSUME TypeInv, GenuineInv, Next, NEW p \in Proc, Flags(p) PROVE GenuineInv'
<1>1. (raced.history => raced'.history) /\ (raced.stage => raced'.stage) /\ disk \in Disk
    BY RacedStep, MineType
<1>2. /\ {"idle", "flagsRead", "openFlags", "writeFlags"} \subseteq Points \ Prepared
      /\ "commits" \in File
    BY DEF Points, Prepared, File
<1>3. \E to \in Points \ Prepared : \E m :
        /\ Goes(p, to) /\ Holds(p, m)
        /\ disk'.pack = disk.pack /\ done' = done /\ cuts' = cuts
  <2>1. CASE BeginFlags(p)
    BY <1>2, <2>1, BeginDoes DEF BeginFlags
  <2>2. CASE NoCommits(p)
    BY <1>2, <2>2, ExitDoes DEF NoCommits
  <2>3. CASE FlagsRead(p)
    BY <1>2, <2>3, FlagsReadDoes
  <2>4. CASE OpenFlags(p)
    <3>1. /\ Goes(p, "writeFlags") /\ Holds(p, mine[p])
          /\ disk' = [disk EXCEPT !["commits"] = <<>>] /\ done' = done /\ cuts' = cuts
      BY <1>2, <2>4, TruncateDoes DEF OpenFlags
    <3> QED
      BY <1>1, <1>2, <3>1 DEF Disk
  <2>5. CASE WriteFlags(p)
    BY <1>1, <1>2, <2>5, WriteFlagsDoes DEF Disk
  <2> QED
    BY <2>1, <2>2, <2>3, <2>4, <2>5 DEF Flags
<1>4. (cuts' = cuts) => (Undisturbed' => Undisturbed)
    BY <1>1 DEF Undisturbed
<1> QED
    BY <1>3, <1>4, GenuineAway

LEMMA GenuineCommit ==
    ASSUME TypeInv, RaceInv, StageInv, HistoryInv, GenuineInv, Next, NEW p \in Proc, Commit(p)
    PROVE  GenuineInv'
<1> SUFFICES ASSUME Undisturbed' PROVE GenuineInv'
    BY GenuinePrimes
<1> DEFINE me == mine[p]
<1>1. ~raced'.history /\ ~raced.history /\ ~raced'.stage /\ ~raced.stage
    BY RacedStep DEF Undisturbed
<1>2. me \in Mine /\ disk \in Disk /\ disk.pack \in Seq(Nat)
    BY MineType DEF Disk
<1>3. Prepared \subseteq Points \cap HistoryWindow /\ "readPack" \in HistoryWindow
      /\ File = {"commits", "index", "pack", "stageIdx", "stagePack"}
    BY DEF Prepared, Points, CopyPoints, HistoryWindow, File
<1>4. {"idle", "readCommits", "readMaster", "readStageIdx", "readStagePack", "readIndex",
       "readPack", "cleanIdx"} \subseteq Points \ Prepared
    BY DEF Prepared, Points, CopyPoints
<1>6. (cuts' = cuts) => (Undisturbed' => Undisturbed)
    BY <1>1 DEF Undisturbed
<1>7. CASE BeginCommit(p) \/ CommitNothing(p) \/ ReadMaster(p)
  <2>1. \E to \in Points \ Prepared : \E m :
            Goes(p, to) /\ Holds(p, m) /\ disk' = disk /\ done' = done /\ cuts' = cuts
    BY <1>4, <1>7, BeginDoes, ExitDoes, ReadMasterDoes DEF BeginCommit, CommitNothing
  <2> QED
    BY <1>6, <2>1, GenuineAway
<1>8. CASE ReadCommits(p) \/ ReadStageIdx(p) \/ ReadStagePack(p) \/ ReadIndex(p)
  <2>1. \E to \in Points \ Prepared : \E f \in File : Read(p, f, to)
    BY <1>3, <1>4, <1>8 DEF ReadCommits, ReadStageIdx, ReadStagePack, ReadIndex
  <2>2. \E to \in Points \ Prepared : \E m :
            Goes(p, to) /\ Holds(p, m) /\ disk' = disk /\ done' = done /\ cuts' = cuts
    BY <2>1, ReadDoes
  <2> QED
    BY <1>6, <2>2, GenuineAway
<1>9. CASE ReadPack(p)
  <2> DEFINE contents == NewContents(me.stageIdx, me.stagePack)
             new == NewPlaces(me.stageIdx, disk.pack)
             all == me.copy \o new
             commit == [start |-> Len(me.index) + 1, len |-> Len(all), head |-> TRUE]
             more == Append(WithoutHead(me.commits), commit)
             m == [me EXCEPT !.pack = disk.pack \o contents, !.index = me.index \o all,
                             !.copy = all, !.commits = more]
  <2>1. /\ pc[p] = "readPack" /\ Goes(p, "openPack") /\ Holds(p, m)
        /\ me.copy \in Seq(Place) /\ disk' = disk /\ done' = done /\ cuts' = cuts
    BY <1>9, ReadPackDoes
  <2>2. (\A q \in Proc \ {p} : pc[q] \notin HistoryWindow /\ pc'[q] = pc[q])
        /\ (\A q \in Proc \ {p} : pc[q] \notin StageWindow)
    BY <1>1, <2>1, AloneAtHistory, AloneAtStage DEF HistoryWindow, StageWindow
  <2>3. Packed(disk.pack, done, cuts) /\ HistoryAt("readPack", me, disk, done, cuts)
    BY <1>1, <2>1, <2>2, HistoryFound
  <2>4. Undisturbed /\ \A c \in done : c.genuine
    BY <1>6, <2>1 DEF GenuineInv
  <2>5. Genuine(me.copy, disk.pack)
    <3>1. CASE me.copy = <<>>
      BY <3>1 DEF Genuine
    <3>2. CASE \E c \in done : me.copy = c.entries
      BY <2>3, <2>4, <3>2 DEF Packed, Undisturbed
    <3> QED
      BY <2>3, <3>1, <3>2 DEF HistoryAt
  <2>6. Genuine(me.stageIdx, me.stagePack)
    <3>1. StageOf(p)
      BY <1>1, <2>2, StageFound
    <3> QED
      BY <2>1, <3>1 DEF StageOf, StageAt
  <2>7. me.stageIdx \in Seq(Node) /\ me.stagePack \in Seq(Nat)
    BY <1>2 DEF Mine
  <2>8. contents \in Seq(Nat) /\ new \in Seq(Place)
    BY <1>2, <2>7, NewTypes
  <2>9. Genuine(new, disk.pack \o contents)
    BY <1>2, <2>6, <2>7, GenuineNew
  <2> HIDE DEF contents, new
  <2>10. Genuine(me.copy, disk.pack \o contents)
    BY <1>2, <2>1, <2>5, <2>8, GenuineGrows
  <2>11. Genuine(all, disk.pack \o contents)
    BY <2>1, <2>8, <2>9, <2>10, GenuineJoined
  <2> HIDE DEF all, more
  <2>12. m.pack = disk.pack \o contents /\ m.copy = all
    BY <1>2 DEF Mine
  <2> HIDE DEF m
  <2>13. GenuineAt("openPack", m, disk')
    BY <2>11, <2>12 DEF GenuineAt
  <2>14. Holds(p, m)
    BY <2>1 DEF m, more, all, new, contents
  <2> QED
    BY <2>1, <2>2, <2>4, <2>13, <2>14, GenuineLeft
<1>10. ASSUME pc[p] \in Prepared, NEW to \in Prepared, Goes(p, to), Holds(p, me),
              done' = done, cuts' = cuts,
              GenuineAt(pc[p], me, disk) => GenuineAt(to, me, disk')
       PROVE  GenuineInv'
  <2>1. \A q \in Proc \ {p} : pc[q] \notin HistoryWindow /\ pc'[q] = pc[q]
    BY <1>1, <1>3, <1>10, AloneAtHistory
  <2>2. (\A c \in done : c.genuine) /\ GenuineAt(pc[p], me, disk)
    BY <1>6, <1>10 DEF GenuineInv
  <2> QED
    BY <1>10, <2>1, <2>2, GenuineLeft
<1>11. CASE OpenPack(p)
  <2>1. /\ pc[p] = "openPack" /\ Goes(p, "writePack") /\ Holds(p, me)
        /\ done' = done /\ cuts' = cuts
    BY <1>3, <1>11, TruncateDoes DEF OpenPack, Prepared
  <2> QED
    BY <1>10, <2>1 DEF GenuineAt, Prepared
<1>12. CASE WritePack(p) \/ CutPack(p)
  <2>1. PICK pack \in Seq(Nat) :
            disk' = [disk EXCEPT !.pack = pack] /\ (WritePack(p) => pack = me.pack)
    BY <1>12, WritePackDoes
  <2>2. /\ pc[p] = "writePack" /\ Goes(p, "openCommits") /\ Holds(p, me) /\ done' = done
        /\ WritePack(p) => cuts' = cuts
        /\ CutPack(p) => cuts' = cuts + 1
    BY <1>12, WritePackDoes
  <2>3. ~CutPack(p)
    BY <2>2 DEF Undisturbed, TypeInv
  <2>4. disk'.pack = me.pack
    BY <1>2, <1>12, <2>1, <2>3 DEF Disk
  <2> QED
    BY <1>10, <1>12, <2>2, <2>3, <2>4 DEF GenuineAt, Prepared
<1>13. CASE OpenCommits(p)
  <2>1. /\ pc[p] = "openCommits" /\ Goes(p, "writeCommits") /\ Holds(p, me)
        /\ disk' = [disk EXCEPT !["commits"] = <<>>] /\ done' = done /\ cuts' = cuts
    BY <1>3, <1>13, TruncateDoes DEF OpenCommits, Prepared
  <2>2. disk'.pack = disk.pack
    BY <1>2, <2>1 DEF Disk
  <2> QED
    BY <1>10, <2>1, <2>2 DEF GenuineAt, Prepared
<1>14. CASE WriteCommits(p)
  <2>1. /\ pc[p] = "writeCommits" /\ Goes(p, "openIndex") /\ Holds(p, me)
        /\ disk' = [disk EXCEPT !.commits = me.commits] /\ done' = done /\ cuts' = cuts
    BY <1>14, WriteCommitsDoes
  <2>2. disk'.pack = disk.pack
    BY <1>2, <2>1 DEF Disk
  <2> QED
    BY <1>10, <2>1, <2>2 DEF GenuineAt, Prepared
<1>15. CASE OpenIndex(p)
  <2>1. /\ pc[p] = "openIndex" /\ Goes(p, "writeIndex") /\ Holds(p, me)
        /\ disk' = [disk EXCEPT !["index"] = <<>>] /\ done' = done /\ cuts' = cuts
    BY <1>3, <1>15, TruncateDoes DEF OpenIndex, Prepared
  <2>2. disk'.pack = disk.pack
    BY <1>2, <2>1 DEF Disk
  <2> QED
    BY <1>10, <2>1, <2>2 DEF GenuineAt, Prepared
<1>16. CASE WriteIndex(p)
  <2> DEFINE made == [entries |-> me.copy, genuine |-> Genuine(me.copy, disk.pack)]
  <2>1. /\ pc[p] = "writeIndex" /\ Goes(p, "cleanIdx") /\ Holds(p, me)
        /\ done' = done \union {made} /\ cuts' = cuts
    BY <1>16, WriteIndexDoes
  <2>2. made.genuine = Genuine(me.copy, disk.pack)
    OBVIOUS
  <2> HIDE DEF made
  <2>3. \A q \in Proc \ {p} : pc[q] \notin HistoryWindow /\ pc'[q] = pc[q]
    BY <1>1, <2>1, AloneAtHistory DEF HistoryWindow
  <2>4. (\A c \in done : c.genuine) /\ GenuineAt(pc[p], me, disk)
    BY <1>6, <2>1 DEF GenuineInv
  <2>5. made.genuine
    BY <2>1, <2>2, <2>4, Zenon DEF GenuineAt
  <2>6. \A c \in done' : c.genuine
    BY <2>1, <2>4, <2>5
  <2>7. GenuineAt("cleanIdx", me, disk')
    BY DEF GenuineAt
  <2> QED
    BY <2>1, <2>3, <2>6, <2>7, GenuineLeft
<1> QED
    BY <1>7, <1>8, <1>9, <1>11, <1>12, <1>13, <1>14, <1>15, <1>16 DEF Commit

LEMMA GenuineNext ==
    TypeInv /\ RaceInv /\ StageInv /\ HistoryInv /\ GenuineInv /\ [Next]_vars => GenuineInv'
<1> SUFFICES ASSUME TypeInv, RaceInv, StageInv, HistoryInv, GenuineInv, [Next]_vars
             PROVE  GenuineInv'
    OBVIOUS
<1>1. CASE Next
  <2>1. PICK p \in Proc : Insert(p) \/ Commit(p) \/ Clean(p) \/ Flags(p)
    BY <1>1 DEF Next
  <2> QED
    BY <1>1, <2>1, GenuineInsertClean, GenuineCommit, GenuineFlags
<1>2. CASE UNCHANGED vars
    BY <1>2 DEF vars, GenuineInv, GenuineAt, Undisturbed
<1> QED
    BY <1>1, <1>2

-----------------------------------------------------------------------------
(* The first state *)

LEMMA FirstEntry ==
    LET e == [name |-> 1, pos |-> 1]
        c == [start |-> 1, len |-> 1, head |-> TRUE]
    IN  Entries(c, <<e>>) = <<e>> /\ Genuine(<<e>>, <<1>>)
<1> DEFINE e == [name |-> 1, pos |-> 1]
           c == [start |-> 1, len |-> 1, head |-> TRUE]
<1>1. /\ DOMAIN <<e>> = 1 .. 1 /\ <<e>>[1] = e /\ DOMAIN <<1>> = 1 .. 1 /\ <<1>>[1] = 1
      /\ c.start = 1 /\ c.len = 1 /\ e.name = 1 /\ e.pos = 1
    OBVIOUS
<1>2. \A k \in 1 .. 1 : k = 1 /\ 1 + k - 1 = 1
    OBVIOUS
<1> SUFFICES Entries(c, <<e>>) = <<e>> /\ Genuine(<<e>>, <<1>>)
    OBVIOUS
<1>3. Genuine(<<e>>, <<1>>)
    BY <1>1 DEF Genuine, At
<1>4. <<e>> = [k \in 1 .. 1 |-> e]
    BY <1>2
<1> HIDE DEF e, c
<1>5. Entries(c, <<e>>) = [k \in 1 .. 1 |-> e]
    BY <1>1, <1>2 DEF Entries, At
<1> QED
    BY <1>3, <1>4, <1>5

LEMMA SafeInit ==
    Init => OpenInv /\ RaceInv /\ StageInv /\ HistoryInv /\ GenuineInv
<1> SUFFICES ASSUME Init PROVE OpenInv /\ RaceInv /\ StageInv /\ HistoryInv /\ GenuineInv
    OBVIOUS
<1>1. \A p \in Proc : pc[p] = "idle"
    BY DEF Init
<1>2. OpenInv
  <2>1. \A f \in File : "idle" \notin WritingAt[f]
    BY DEF File, WritingAt
  <2> QED
    BY <1>1, <2>1 DEF Init, OpenInv, OpenedBy
<1>3. RaceInv
    BY <1>1 DEF RaceInv, Both, HistoryWindow, StageWindow
<1>4. StageInv
  <2> DEFINE n == [name |-> 2, pos |-> 1]
  <2>1. disk.stageIdx = <<n>> /\ disk.stagePack = <<2>> /\ staged = {2}
    BY DEF Init
  <2>2. DOMAIN <<n>> = {1} /\ DOMAIN <<2>> = {1} /\ n.name = 2 /\ n.pos = 1
    OBVIOUS
  <2>3. Names(<<n>>) = {2} /\ Genuine(<<n>>, <<2>>)
    BY <2>2 DEF Names, Genuine, At
  <2>4. \A p \in Proc : StageOf(p)
    BY <1>1, StageOutside DEF StageWindow
  <2> HIDE DEF n
  <2> QED
    BY <2>1, <2>3, <2>4 DEF StageInv
<1>5. HistoryInv
  <2> DEFINE e == [name |-> 1, pos |-> 1]
             c == [start |-> 1, len |-> 1, head |-> TRUE]
             d == [entries |-> <<e>>, genuine |-> TRUE]
  <2>1. disk.commits = <<c>> /\ disk.index = <<e>> /\ disk.pack = <<1>> /\ done = {d}
    BY DEF Init
  <2>2. Entries(c, <<e>>) = <<e>> /\ Genuine(<<e>>, <<1>>)
    BY FirstEntry
  <2>3. d.entries = <<e>> /\ c.start + c.len <= Len(<<e>>) + 1
    OBVIOUS
  <2> HIDE DEF e, c, d
  <2>4. DOMAIN <<c>> = {1} /\ <<c>>[1] = c
    OBVIOUS
  <2>5. Packed(<<1>>, {d}, cuts)
    BY <2>2, <2>3 DEF Packed
  <2>6. Kept(<<c>>, <<e>>, {d}) /\ Told(<<c>>, <<e>>, {d})
    BY <2>2, <2>3, <2>4 DEF Kept, Told, Known, Fits
  <2>7. \A p \in Proc : HistoryOf(p)
    BY <1>1, HistoryOutside DEF HistoryOf, HistoryWindow
  <2> QED
    BY <2>1, <2>5, <2>6, <2>7 DEF HistoryInv
<1>6. GenuineInv
  <2>1. \A c \in done : c.genuine
    BY DEF Init
  <2>2. \A p \in Proc : GenuineAt(pc[p], mine[p], disk)
    BY <1>1 DEF GenuineAt
  <2> QED
    BY <2>1, <2>2 DEF GenuineInv
<1> QED
    BY <1>2, <1>3, <1>4, <1>5, <1>6

-----------------------------------------------------------------------------
(* Theorems *)

SafeInv == TypeInv /\ OpenInv /\ RaceInv /\ StageInv /\ HistoryInv /\ GenuineInv

\* The invariants hold, however many processes run.
THEOREM ConcurrentInvariant == Spec => []SafeInv
<1>1. Init => SafeInv
    BY TypeInit, SafeInit DEF SafeInv
<1>2. SafeInv /\ [Next]_vars => SafeInv'
    BY TypeNext, OpenNext, RaceNext, StageNext, HistoryNext, GenuineNext DEF SafeInv
<1> QED
    BY <1>1, <1>2, PTL DEF Spec

\* A file that was inserted stays in the stage, with its content, until a
\* commit or a reset that has read it takes it out, unless two commands were
\* at the stage at once: whoever writes cache.idx or cache.pack is alone, and
\* writes back all that it has found (stage.c, cache.c).
THEOREM StagedFilesStay == Spec => []StagedKept
<1>1. SafeInv => StagedKept
  <2> SUFFICES ASSUME SafeInv, open["stageIdx"] = {}, open["stagePack"] = {}, ~raced.stage
               PROVE  staged = Names(disk.stageIdx) /\ Genuine(disk.stageIdx, disk.stagePack)
    BY DEF StagedKept
  <2>1. /\ OpenedBy({"insertIdx"}) = open["stageIdx"]
        /\ OpenedBy({"insertPack"}) = open["stagePack"]
    BY DEF SafeInv, OpenInv, File, WritingAt
  <2>2. OpenedBy({"insertPack", "insertIdx"})
            = OpenedBy({"insertPack"}) \union OpenedBy({"insertIdx"})
    BY DEF OpenedBy
  <2> QED
    BY <2>1, <2>2 DEF SafeInv, StageInv
<1> QED
    BY <1>1, ConcurrentInvariant, PTL

\* A completed commit keeps its entries and their contents, whatever other
\* processes insert or reset meanwhile, unless two commands that write
\* commit.idx, db.idx or db.pack were at them at once (commit.c, head.c).
THEOREM CompletedCommitsStay == Spec => []HistoryKept
<1>1. SafeInv => HistoryKept
  <2> SUFFICES ASSUME SafeInv, \A f \in {"commits", "index", "pack"} : open[f] = {},
                      ~raced.history
               PROVE  Packed(disk.pack, done, cuts) /\ Kept(disk.commits, disk.index, done)
    BY DEF HistoryKept, Packed, Kept
  <2>1. /\ OpenedBy({"writePack"}) = open["pack"]
        /\ OpenedBy({"writeCommits", "writeFlags"}) = open["commits"]
        /\ OpenedBy({"writeIndex"}) = open["index"]
    BY DEF SafeInv, OpenInv, File, WritingAt
  <2>2. OpenedBy({"writeCommits", "writeFlags", "writeIndex"})
            = OpenedBy({"writeCommits", "writeFlags"}) \union OpenedBy({"writeIndex"})
    BY DEF OpenedBy
  <2> QED
    BY <2>1, <2>2 DEF SafeInv, HistoryInv
<1> QED
    BY <1>1, ConcurrentInvariant, PTL

\* A commit holds the contents that were inserted, unless the history or the
\* stage was raced for or db.pack was cut (generate_new_commit).
THEOREM CommitsHoldTheInserted == Spec => []CommitsAreGenuine
<1>1. SafeInv => CommitsAreGenuine
    BY DEF SafeInv, GenuineInv, Undisturbed, CommitsAreGenuine
<1> QED
    BY <1>1, ConcurrentInvariant, PTL

=============================================================================

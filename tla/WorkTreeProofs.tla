--------------------------- MODULE WorkTreeProofs ---------------------------
(***************************************************************************)
(* What holds of StatusWalk and WorkTree for every tree, any number of     *)
(* links to nowhere in it, and any number of calls of status().            *)
(***************************************************************************)
EXTENDS WorkTree, SequenceTheorems, TLAPS

-----------------------------------------------------------------------------
(***************************************************************************)
(* The walk of status().  Positions of the stack that this call opens.     *)
(* What makes NothingLostOrTwice inductive is that no two of the pending   *)
(* directories, the entries of the open one, and the compared files share  *)
(* a file.                                                                 *)
(***************************************************************************)
PendingAt == (IF left THEN 2 ELSE 1) .. Len(stack)

\* The files a directory, or a file, stands for.
FilesOf(e) == {f \in Files : e = f \/ <<e, f>> \in Within}

Apart ==
    /\ \A i, j \in PendingAt : i # j => FilesOf(stack[i]) \cap FilesOf(stack[j]) = {}
    /\ \A i \in PendingAt, e \in todo : FilesOf(stack[i]) \cap FilesOf(e) = {}
    /\ \A e, f \in todo : e # f => FilesOf(e) \cap FilesOf(f) = {}
    /\ \A i \in PendingAt : FilesOf(stack[i]) \cap seen = {}
    /\ \A e \in todo : FilesOf(e) \cap seen = {}

\* Every file of the directory was compared, or one of these has it.
Covered ==
    \A f \in Files :
        f \in FilesOf(start) <=>
            \/ f \in seen
            \/ \E i \in PendingAt : f \in FilesOf(stack[i])
            \/ \E e \in todo : f \in FilesOf(e)

WalkType ==
    /\ pc \in {"idle", "walking", "done", "died"}
    /\ broken \subseteq Links
    /\ start \in Dirs /\ left \in BOOLEAN
    /\ todo \subseteq Entries \ {Root}
    /\ stack \in Seq(Dirs \ {Root})
    /\ seen \subseteq Files /\ walks \in Nat

WalkInv ==
    /\ WalkType
    /\ left => stack # <<>>
    /\ pc \in {"idle", "done"} => Len(stack) <= 1
    /\ pc = "walking" => Apart /\ Covered
    /\ LeavesOutFirstDirectory

-----------------------------------------------------------------------------
(***************************************************************************)
(* Across the calls.  The first call is for the whole tree; it leaves on   *)
(* the stack the first directory it met, if there is any, and that one     *)
(* stays there, so that no later call leaves a directory out.              *)
(***************************************************************************)
CallsInv ==
    /\ pc = "idle" <=> walks = 0
    /\ pc = "idle" => stack = <<>> /\ ~left
    /\ walks = 1 => start = Root /\ ~left
    /\ seen \cap broken = {} /\ looked \cap broken = {} /\ seen \subseteq looked
    /\ (pc = "walking" /\ walks = 1 /\ stack = <<>>) => Children(Root) \cap Dirs \subseteq todo
    /\ (walks > 1 \/ pc = "done") =>
          /\ stack = <<>> => Dirs = {Root}
          /\ Files \subseteq looked \union (IF stack = <<>> THEN {} ELSE FilesUnder(stack[1]))
    /\ (walks > 1 /\ stack # <<>>) => left

-----------------------------------------------------------------------------
(***************************************************************************)
(* The walks of checkout and revert.                                       *)
(***************************************************************************)
\* Every directory above what is there is there.
HeldAll ==
    \A e \in there, d \in Dirs \ {Root} : <<d, e>> \in Within => d \in there

Jobs ==
    {"none", "files", "dirs", "write", "end", "revert", "reverted", "again", "died", "crashed"}

TreeType ==
    /\ job \in Jobs
    /\ frames \in Seq([dir : Dirs, todo : SUBSET (Entries \ {Root})])
    /\ there \subseteq Entries \ {Root}
    /\ looked \subseteq Files /\ rewritten \subseteq Files

Below(d, e) == e = d \/ <<d, e>> \in Within

\* What is there below the directory of a frame is below an entry it has not
\* met, or below the directory of the next frame.
FramesCover ==
    \A i \in DOMAIN frames, e \in there :
        (<<frames[i].dir, e>> \in Within /\ e # frames[i].dir) =>
            \/ \E c \in frames[i].todo : Below(c, e)
            \/ i < Len(frames) /\ <<frames[i + 1].dir, e>> \in Within

\* What revert has still to meet.
AheadOfRevert ==
    {f \in Files : \E i \in DOMAIN frames : \E c \in frames[i].todo : Below(c, f)}

CoverInv ==
    /\ job = "dirs" => FramesCover
    /\ (job = "dirs" /\ frames # <<>>) => frames[1].dir = Root

RevertInv ==
    /\ job \in {"revert", "reverted"} => FilesUnder(start) \cap broken = {}
    /\ job = "revert" =>
            /\ (rewritten \union AheadOfRevert) \cap Committed = FilesUnder(start) \cap Committed
            /\ rewritten \subseteq Committed
            /\ AheadOfRevert \subseteq FilesUnder(start)

JobInv ==
    /\ job \in {"none", "revert", "reverted", "again"} => there = Entries \ {Root}
    /\ job \notin {"none", "again"} => pc = "done"
    /\ (job = "dirs" /\ frames = <<>>) => there = {}
    /\ job = "write" => there \subseteq Committed \union UNION {Above(f) : f \in Committed}
    /\ job = "died" => stack # <<>> /\ broken \cap Unlooked # {}
    /\ Restored

TreeInv == TreeType /\ HeldAll /\ CoverInv /\ RevertInv /\ JobInv

-----------------------------------------------------------------------------
(* Lemmas on the tree *)

\* The files of a directory are those of its children.
LEMMA OpenedDirectory ==
    ASSUME NEW d \in Dirs, NEW f \in Files
    PROVE  f \in FilesOf(d) <=> \E e \in Children(d) : f \in FilesOf(e)
<1>1. /\ d # f /\ Within \subseteq Dirs \X Entries /\ f \in Entries
      /\ <<d, f>> \in Within <=> \/ f = d
                                 \/ f \in Children(d)
                                 \/ \E c \in Children(d) \cap Dirs : <<c, f>> \in Within
    BY TreeAssumption DEF Entries
<1>2. ASSUME NEW e, <<e, f>> \in Within PROVE e \in Dirs
    BY <1>1, <1>2
<1> QED
    BY <1>1, <1>2 DEF FilesOf

\* Two entries of one directory share no file.
LEMMA SiblingsApart ==
    ASSUME NEW d \in Dirs, NEW b \in Children(d), NEW c \in Children(d), b # c
    PROVE  FilesOf(b) \cap FilesOf(c) = {}
<1>1. /\ Within \subseteq Dirs \X Entries /\ Parent[b] = d /\ Parent[c] = d
      /\ b \in Entries \ {Root} /\ c \in Entries \ {Root} /\ Files \subseteq Entries
    BY TreeAssumption DEF Children, Entries
<1>2. ASSUME NEW e \in Entries \ {Root}, NEW f \in Files, Parent[e] = d,
             <<e, f>> \in Within, e # f
      PROVE  Parent[f] # d \/ f = Root
  <2>1. e \in Dirs \ {Root}
    BY <1>1, <1>2
  <2>2. <<e, Parent[e]>> \notin Within
    BY <2>1, TreeAssumption
  <2>3. f # Root => <<e, Parent[f]>> \in Within
    BY <1>1, <1>2, <2>1, TreeAssumption
  <2> QED
    BY <1>2, <2>2, <2>3
<1> SUFFICES ASSUME NEW f \in FilesOf(b) \cap FilesOf(c) PROVE FALSE
    OBVIOUS
<1>3. f \in Files /\ (f = b \/ <<b, f>> \in Within) /\ (f = c \/ <<c, f>> \in Within)
    BY DEF FilesOf
<1>4. CASE f = b
    BY <1>1, <1>2, <1>3, <1>4
<1>5. CASE f = c
    BY <1>1, <1>2, <1>3, <1>5
<1>6. CASE <<b, f>> \in Within /\ <<c, f>> \in Within
  <2>1. b \in Dirs \ {Root} /\ c \in Dirs \ {Root} /\ f \in Entries
    BY <1>1, <1>3, <1>6
  <2> QED
    BY <1>1, <1>6, <2>1, TreeAssumption
<1> QED
    BY <1>3, <1>4, <1>5, <1>6

\* A file has no other file, and a directory its files.
LEMMA FilesOfEntries ==
    /\ \A f \in Files : FilesOf(f) = {f}
    /\ \A d \in Dirs : FilesOf(d) = FilesUnder(d)
<1>1. Within \subseteq Dirs \X Entries /\ Dirs \cap Files = {}
    BY TreeAssumption
<1>2. ASSUME NEW f \in Files, NEW g \in Files, <<f, g>> \in Within PROVE FALSE
    BY <1>1, <1>2
<1> QED
    BY <1>1, <1>2 DEF FilesOf, FilesUnder

\* What the properties speak of, and the invariant of the walk.
LEMMA WalkInvImplies == WalkInv => NothingLostOrTwice
<1> SUFFICES ASSUME WalkInv, pc = "walking" PROVE NothingLostOrTwice
    BY DEF NothingLostOrTwice
<1>1. /\ Apart /\ Covered /\ stack \in Seq(Dirs \ {Root}) /\ left \in BOOLEAN
      /\ start \in Dirs /\ todo \subseteq Entries /\ seen \subseteq Files
      /\ (left => stack # <<>>)
    BY DEF WalkInv, WalkType
<1>2. PendingAt \subseteq 1 .. Len(stack) /\ Pending = {stack[i] : i \in PendingAt}
    BY <1>1 DEF Pending, PendingAt
<1>3. \A i \in 1 .. Len(stack) : stack[i] \in Dirs
    BY <1>1
<1>4. \A f \in Files : f \in Ahead <=> \/ \E i \in PendingAt : f \in FilesOf(stack[i])
                                       \/ \E e \in todo : f \in FilesOf(e)
  <2>1. ASSUME NEW f \in Files
        PROVE  f \in Ahead <=> \/ \E i \in PendingAt : f \in FilesOf(stack[i])
                               \/ \E e \in todo : f \in FilesOf(e)
    <3>1. f \in Ahead <=> \/ \E i \in PendingAt : f \in FilesUnder(stack[i])
                          \/ \E e \in todo \cap Dirs : f \in FilesUnder(e)
                          \/ f \in todo
      <4>1. f \in Ahead <=> \/ \E d \in Pending \union (todo \cap Dirs) : f \in FilesUnder(d)
                            \/ f \in todo
        BY Zenon DEF Ahead
      <4> QED
        BY <1>2, <4>1
    <3>2. \A e \in todo : e \in Dirs \/ e \in Files
      BY <1>1 DEF Entries
    <3> QED
      BY <1>2, <1>3, <3>1, <3>2, FilesOfEntries
  <2> QED
    BY <2>1
<1>5. Ahead \subseteq Files
  <2>1. \A d : FilesUnder(d) \subseteq Files
    BY DEF FilesUnder
  <2> QED
    BY <2>1, Zenon DEF Ahead
<1>6. FilesUnder(start) = FilesOf(start) /\ FilesUnder(start) \subseteq Files
    BY <1>1, FilesOfEntries DEF FilesUnder
<1>7. seen \union Ahead = FilesUnder(start)
    BY <1>1, <1>4, <1>5, <1>6 DEF Covered
<1>8. seen \cap Ahead = {}
    BY <1>1, <1>4, <1>5 DEF Apart
<1>9. ASSUME NEW i \in 1 .. Len(stack), NEW j \in 1 .. Len(stack), i # j,
             left => i > 1 /\ j > 1
      PROVE  FilesUnder(stack[i]) \cap FilesUnder(stack[j]) = {}
  <2>1. i \in PendingAt /\ j \in PendingAt
    BY <1>1, <1>9 DEF PendingAt
  <2> QED
    BY <1>1, <1>3, <1>9, <2>1, FilesOfEntries DEF Apart
<1> QED
    BY <1>7, <1>8, <1>9 DEF NothingLostOrTwice

-----------------------------------------------------------------------------
(* The walk of status() keeps its invariant *)

\* A call starts with the entries of its directory.
LEMMA StartKeeps ==
    ASSUME WalkInv, NEW d \in Dirs, Start(d) PROVE WalkInv'
<1>1. /\ pc \in {"idle", "done"} /\ pc' = "walking" /\ start' = d
      /\ left' = (stack # <<>>) /\ todo' = Children(d) /\ seen' = {}
      /\ walks' = walks + 1 /\ broken' = broken /\ stack' = stack
    BY DEF Start
<1>2. stack \in Seq(Dirs \ {Root}) /\ Len(stack) <= 1 /\ WalkType
    BY <1>1 DEF WalkInv, WalkType
<1>3. WalkType'
    BY <1>1, <1>2 DEF WalkType, Children
<1>4. PendingAt' = {}
  <2>1. CASE stack = <<>>
    BY <1>1, <2>1 DEF PendingAt
  <2>2. CASE stack # <<>>
    <3>1. left'
      BY <1>1, <2>2
    <3>2. Len(stack) \in Nat
      BY <1>2
    <3> QED
      BY <1>1, <1>2, <3>1, <3>2 DEF PendingAt
  <2> QED
    BY <2>1, <2>2
<1>5. Apart'
    BY <1>1, <1>4, SiblingsApart DEF Apart
<1>6. Covered'
    BY <1>1, <1>4, OpenedDirectory DEF Covered
<1> QED
    BY <1>1, <1>3, <1>5, <1>6 DEF WalkInv, LeavesOutFirstDirectory

\* A compared file is no longer ahead of the walk.
LEMMA CompareKeeps ==
    ASSUME WalkInv, NEW f \in Files, Compare(f) PROVE WalkInv'
<1>1. /\ pc = "walking" /\ f \in todo /\ todo' = todo \ {f} /\ seen' = seen \union {f}
      /\ UNCHANGED <<broken, pc, start, left, stack, walks>>
    BY DEF Compare
<1>2. WalkType /\ Apart /\ Covered /\ (left => stack # <<>>)
    BY <1>1 DEF WalkInv
<1>3. WalkType' /\ PendingAt' = PendingAt
    BY <1>1, <1>2 DEF WalkType, PendingAt
<1>4. FilesOf(f) = {f}
    BY FilesOfEntries
<1>5. Apart'
    BY <1>1, <1>2, <1>3, <1>4 DEF Apart
<1>6. Covered'
    BY <1>1, <1>2, <1>3, <1>4 DEF Covered
<1> QED
    BY <1>1, <1>2, <1>3, <1>5, <1>6 DEF WalkInv, LeavesOutFirstDirectory

\* A directory goes from the entries to the stack.
LEMMA PushKeeps ==
    ASSUME WalkInv, NEW d \in Dirs, Push(d) PROVE WalkInv'
<1>1. /\ pc = "walking" /\ d \in todo /\ todo' = todo \ {d} /\ stack' = Append(stack, d)
      /\ UNCHANGED <<broken, pc, start, left, seen, walks>>
    BY DEF Push
<1>2. WalkType /\ Apart /\ Covered /\ (left => stack # <<>>)
    BY <1>1 DEF WalkInv
<1>3. stack \in Seq(Dirs \ {Root}) /\ d \in Dirs \ {Root} /\ left \in BOOLEAN
    BY <1>1, <1>2 DEF WalkType
<1>4. /\ stack' \in Seq(Dirs \ {Root}) /\ stack' # <<>>
      /\ \A i \in PendingAt : stack'[i] = stack[i]
      /\ stack'[Len(stack) + 1] = d
      /\ PendingAt' = PendingAt \union {Len(stack) + 1}
      /\ Len(stack) + 1 \notin PendingAt
  <2>1. Len(stack) \in Nat /\ Len(stack') = Len(stack) + 1 /\ (left => Len(stack) >= 1)
    BY <1>1, <1>2, <1>3
  <2>2. left' = left
    BY <1>1
  <2> QED
    BY <1>1, <1>3, <2>1, <2>2 DEF PendingAt
<1>5. WalkType'
    BY <1>1, <1>2, <1>4 DEF WalkType
<1>6. Apart'
  <2> DEFINE last == Len(stack) + 1
  <2>1. \A i \in PendingAt : FilesOf(stack[i]) \cap FilesOf(d) = {}
    BY <1>1, <1>2 DEF Apart
  <2>2. FilesOf(d) \cap seen = {} /\ \A e \in todo' : FilesOf(d) \cap FilesOf(e) = {}
    BY <1>1, <1>2 DEF Apart
  <2> HIDE DEF last
  <2>3. \A i \in PendingAt' : (i \in PendingAt /\ stack'[i] = stack[i])
                                \/ (i = last /\ stack'[i] = d)
    BY <1>4 DEF last
  <2>4. \A i, j \in PendingAt' : i # j => FilesOf(stack'[i]) \cap FilesOf(stack'[j]) = {}
    BY <1>2, <2>1, <2>3 DEF Apart
  <2>5. \A i \in PendingAt', e \in todo' : FilesOf(stack'[i]) \cap FilesOf(e) = {}
    BY <1>1, <1>2, <2>2, <2>3 DEF Apart
  <2>6. \A i \in PendingAt' : FilesOf(stack'[i]) \cap seen = {}
    BY <1>2, <2>2, <2>3 DEF Apart
  <2> QED
    BY <1>1, <1>2, <2>4, <2>5, <2>6 DEF Apart
<1>7. Covered'
    BY <1>1, <1>2, <1>4 DEF Covered
<1> QED
    BY <1>1, <1>4, <1>5, <1>6, <1>7 DEF WalkInv, LeavesOutFirstDirectory

\* The directory on the top is opened.
LEMMA PopKeeps ==
    ASSUME WalkInv, Pop PROVE WalkInv'
<1> DEFINE n == Len(stack)
<1>1. /\ pc = "walking" /\ todo = {} /\ n > 1
      /\ stack' = SubSeq(stack, 1, n - 1) /\ todo' = Children(stack[n])
      /\ UNCHANGED <<broken, pc, start, left, seen, walks>>
    BY DEF Pop, Top
<1>2. WalkType /\ Apart /\ Covered
    BY <1>1 DEF WalkInv
<1>3. stack \in Seq(Dirs \ {Root}) /\ left \in BOOLEAN
    BY <1>2 DEF WalkType
<1>4. n \in PendingAt /\ stack[n] \in Dirs
    BY <1>1, <1>3 DEF PendingAt
<1>5. /\ stack' \in Seq(Dirs \ {Root}) /\ stack' # <<>> /\ Len(stack') = n - 1
      /\ \A i \in 1 .. n - 1 : stack'[i] = stack[i]
  <2>1. n - 1 \in 1 .. n /\ 1 \in 1 .. n + 1
    BY <1>1, <1>3
  <2>2. /\ stack' \in Seq(Dirs \ {Root}) /\ Len(stack') = n - 1
        /\ \A i \in 1 .. n - 1 : stack'[i] = stack[i]
    BY <1>1, <1>3, <2>1, SubSeqProperties
  <2> QED
    BY <2>1, <2>2
<1>6. PendingAt' = PendingAt \ {n} /\ \A i \in PendingAt' : stack'[i] = stack[i]
  <2>1. left' = left
    BY <1>1
  <2> QED
    BY <1>1, <1>3, <1>5, <2>1 DEF PendingAt
<1>7. WalkType'
    BY <1>1, <1>2, <1>5 DEF WalkType, Children
<1>8. \A f \in Files : f \in FilesOf(stack[n]) <=> \E e \in todo' : f \in FilesOf(e)
    BY <1>1, <1>4, OpenedDirectory
<1>9. \A e, f \in todo' : e # f => FilesOf(e) \cap FilesOf(f) = {}
    BY <1>1, <1>4, SiblingsApart
<1>10. \A e : FilesOf(e) \subseteq Files
    BY DEF FilesOf
<1>11. Apart'
  <2>1. \A i, j \in PendingAt' : i # j => FilesOf(stack[i]) \cap FilesOf(stack[j]) = {}
    BY <1>2, <1>6 DEF Apart
  <2>2. \A i \in PendingAt' : FilesOf(stack[i]) \cap FilesOf(stack[n]) = {}
    BY <1>2, <1>4, <1>6 DEF Apart
  <2>3. \A i \in PendingAt' : FilesOf(stack[i]) \cap seen = {}
    BY <1>2, <1>6 DEF Apart
  <2>4. FilesOf(stack[n]) \cap seen = {}
    BY <1>2, <1>4 DEF Apart
  <2>5. seen' = seen
    BY <1>1
  <2> QED
    BY <1>6, <1>8, <1>9, <1>10, <2>1, <2>2, <2>3, <2>4, <2>5 DEF Apart
<1>12. Covered'
  <2>1. start' = start /\ seen' = seen
    BY <1>1
  <2> QED
    BY <1>1, <1>2, <1>4, <1>6, <1>8, <2>1 DEF Covered
<1> QED
    BY <1>1, <1>5, <1>7, <1>11, <1>12 DEF WalkInv, LeavesOutFirstDirectory

\* The call ends: what is pending, if anything, is the first directory.
LEMMA DoneKeeps ==
    ASSUME WalkInv, Done PROVE WalkInv'
<1>1. /\ pc = "walking" /\ todo = {} /\ Len(stack) <= 1 /\ pc' = "done"
      /\ UNCHANGED <<broken, start, left, todo, stack, seen, walks>>
    BY DEF Done
<1>2. WalkType /\ Apart /\ Covered /\ (left => stack # <<>>)
    BY <1>1 DEF WalkInv
<1>3. stack \in Seq(Dirs \ {Root}) /\ left \in BOOLEAN /\ start \in Dirs /\ seen \subseteq Files
    BY <1>2 DEF WalkType
<1>4. PendingAt = IF ~left /\ stack # <<>> THEN {1} ELSE {}
  <2>1. CASE stack = <<>>
    BY <2>1 DEF PendingAt
  <2>2. CASE stack # <<>>
    <3>1. Len(stack) \in Nat /\ Len(stack) # 0
      BY <1>3, <2>2, EmptySeq
    <3>2. Len(stack) <= 1
      BY DEF Done
    <3> DEFINE n == Len(stack)
    <3>3. n = 1
      <4> HIDE DEF n
      <4>1. n \in Nat /\ n # 0 /\ n <= 1
        BY <3>1, <3>2 DEF n
      <4> QED
        BY ONLY <4>1
    <3>4. PendingAt = IF left THEN 2 .. 1 ELSE 1 .. 1
      BY <1>3, <3>3 DEF PendingAt
    <3>5. 2 .. 1 = {} /\ 1 .. 1 = {1}
      OBVIOUS
    <3> QED
      BY <1>3, <2>2, <3>4, <3>5, Zenon
  <2> QED
    BY <2>1, <2>2
<1>5. ~left /\ stack # <<>> => FilesOf(stack[1]) = FilesUnder(stack[1])
    BY <1>3, FilesOfEntries
<1>6. FilesOf(start) = FilesUnder(start) /\ FilesOf(start) \subseteq Files
    BY <1>3, FilesOfEntries DEF FilesOf
<1>7. seen = FilesUnder(start) \
                (IF ~left /\ stack # <<>> THEN FilesUnder(stack[1]) ELSE {})
    BY <1>1, <1>2, <1>3, <1>4, <1>5, <1>6 DEF Covered, Apart
<1>8. WalkType'
    BY <1>1, <1>2 DEF WalkType
<1> QED
    BY <1>1, <1>2, <1>7, <1>8 DEF WalkInv, LeavesOutFirstDirectory

\* Every step of a command keeps the invariant of the walk.
LEMMA WalkNext == WalkInv /\ [Next]_vars => WalkInv'
<1> SUFFICES ASSUME WalkInv, [Next]_vars PROVE WalkInv'
    OBVIOUS
<1>1. CASE UNCHANGED status
    BY <1>1 DEF status, WalkInv, WalkType, Apart, Covered, PendingAt,
                LeavesOutFirstDirectory
<1>2. CASE CallStatus
    BY <1>2, StartKeeps DEF CallStatus
<1>3. CASE \E f \in Files : Die(f)
    BY <1>3 DEF Die, WalkInv, WalkType, LeavesOutFirstDirectory
<1>4. CASE StatusStep
    BY <1>3, <1>4, CompareKeeps, PushKeeps, PopKeeps, DoneKeeps DEF StatusStep, Walk
<1>5. CASE BeginClean \/ BeginRevert \/ RevertAgain \/ TreeStep
    BY <1>1, <1>5
    DEF BeginClean, BeginRevert, RevertAgain, TreeStep, Descend, RemoveFile, RevertFile,
        ReturnEarly, DieOnLink, WriteFile, Return, FilesRemoved, WalkDone, AllWritten
<1> QED
    BY <1>1, <1>2, <1>4, <1>5 DEF Next, vars

\* Before the first call.
LEMMA WalkInit == TreeInit => WalkInv
<1> SUFFICES ASSUME TreeInit PROVE WalkInv
    OBVIOUS
<1>1. /\ broken \subseteq Links /\ pc = "idle" /\ start = Root /\ left = FALSE
      /\ todo = {} /\ stack = <<>> /\ seen = {} /\ walks = 0
    BY DEF TreeInit, Init
<1>2. stack \in Seq(Dirs \ {Root}) /\ Len(stack) = 0 /\ walks \in Nat
    BY <1>1
<1>3. left \in BOOLEAN /\ ~left
    BY <1>1
<1>4. WalkType
    BY <1>1, <1>2, <1>3, TreeAssumption DEF WalkType
<1> QED
    BY <1>1, <1>2, <1>3, <1>4 DEF WalkInv, LeavesOutFirstDirectory

\* The invariant of the walk holds.
THEOREM WalkInvariant == Spec => []WalkInv
BY WalkInit, WalkNext, PTL DEF Spec

\* The walk neither forgets a file nor compares one twice.
THEOREM WalkIsExact == Spec => []NothingLostOrTwice
BY WalkInvariant, WalkInvImplies, PTL

\* A call of status() that finds the stack empty leaves out the tree below
\* the first directory it met, and nothing else; a later one leaves out nothing.
THEOREM FirstDirectoryLeftOut == Spec => []LeavesOutFirstDirectory
<1>1. WalkInv => LeavesOutFirstDirectory
    BY DEF WalkInv
<1> QED
    BY <1>1, WalkInvariant, PTL

-----------------------------------------------------------------------------
(* The calls of status() in one process *)

\* A tree whose root holds no directory has no other directory.
LEMMA FlatTree ==
    ASSUME Children(Root) \cap Dirs = {}
    PROVE  Dirs = {Root}
<1>1. ASSUME NEW d \in Dirs, d # Root PROVE FALSE
  <2>1. <<Root, d>> \in Within /\ d \in Entries /\ Root \in Dirs
    BY <1>1, TreeAssumption DEF Entries
  <2>2. \/ d = Root
        \/ d \in Children(Root)
        \/ \E c \in Children(Root) \cap Dirs : <<c, d>> \in Within
    BY <2>1, TreeAssumption
  <2> QED
    BY <1>1, <2>2
<1> QED
    BY <1>1, TreeAssumption

LEMMA RootHasAll == FilesUnder(Root) = Files
BY TreeAssumption DEF FilesUnder, Entries

\* The first call of all is for the whole tree.
LEMMA CallStatusKeepsCalls ==
    ASSUME WalkInv, CallsInv, CallStatus PROVE CallsInv'
<1>1. PICK d \in Dirs : (walks = 0 => d = Root) /\ Start(d)
    BY DEF CallStatus
<1>2. /\ pc \in {"idle", "done"} /\ pc' = "walking" /\ start' = d
      /\ left' = (stack # <<>>) /\ todo' = Children(d) /\ seen' = {}
      /\ walks' = walks + 1 /\ broken' = broken /\ stack' = stack /\ looked' = looked
    BY <1>1 DEF CallStatus, Start
<1>3. walks \in Nat
    BY DEF WalkInv, WalkType
<1>4. walks' # 0 /\ (walks' = 1 <=> walks = 0) /\ (walks' > 1 <=> walks # 0)
    BY <1>2, <1>3
<1>5. walks = 0 => stack' = <<>> /\ ~left' /\ start' = Root /\ todo' = Children(Root)
    BY <1>1, <1>2 DEF CallsInv
<1>6. walks # 0 => pc = "done"
    BY <1>2 DEF CallsInv
<1>7. walks # 0 =>
        /\ stack' = <<>> => Dirs = {Root}
        /\ Files \subseteq looked' \union (IF stack' = <<>> THEN {} ELSE FilesUnder(stack'[1]))
    BY <1>2, <1>6 DEF CallsInv
<1>8. seen' \cap broken' = {} /\ looked' \cap broken' = {} /\ seen' \subseteq looked'
    BY <1>2 DEF CallsInv
<1> QED
    BY <1>2, <1>4, <1>5, <1>7, <1>8 DEF CallsInv

\* Where the stack is not emptied and keeps its first directory, and nothing
\* that matters for the first call leaves the entries to be met.
LEMMA WalkingKeepsCalls ==
    ASSUME WalkInv, CallsInv, pc = "walking", pc' \in {"walking", "died"},
           UNCHANGED <<walks, start, left, broken>>,
           seen' \cap broken = {}, looked' = looked \union seen',
           (stack' = <<>>) <=> (stack = <<>>),
           stack # <<>> => stack'[1] = stack[1],
           (stack = <<>> /\ walks = 1) => todo \cap Dirs \subseteq todo'
    PROVE  CallsInv'
<1>1. walks # 0 /\ walks' # 0 /\ walks' = walks /\ pc' # "idle" /\ pc' # "done"
    BY DEF CallsInv
<1>2. (pc' = "walking" /\ walks' = 1 /\ stack' = <<>>) => Children(Root) \cap Dirs \subseteq todo'
    BY <1>1 DEF CallsInv
<1>3. walks > 1 =>
        /\ stack' = <<>> => Dirs = {Root}
        /\ Files \subseteq looked' \union (IF stack' = <<>> THEN {} ELSE FilesUnder(stack'[1]))
    BY DEF CallsInv
<1>4. seen' \cap broken' = {} /\ looked' \cap broken' = {} /\ seen' \subseteq looked'
    BY DEF CallsInv
<1>5. walks' = 1 => start' = Root /\ ~left'
    BY <1>1 DEF CallsInv
<1>6. (walks' > 1 /\ stack' # <<>>) => left'
    BY <1>1 DEF CallsInv
<1> QED
    BY <1>1, <1>2, <1>3, <1>4, <1>5, <1>6 DEF CallsInv

LEMMA StatusStepKeepsCalls ==
    ASSUME WalkInv, WalkInv', CallsInv, StatusStep PROVE CallsInv'
<1>1. looked' = looked \union seen' /\ Walk
    BY DEF StatusStep
<1>2. /\ stack \in Seq(Dirs \ {Root}) /\ todo \subseteq Entries \ {Root} /\ walks \in Nat
      /\ Dirs \cap Files = {}
    BY TreeAssumption DEF WalkInv, WalkType
<1>3. CASE \E f \in Files : Compare(f)
  <2>1. PICK f \in Files : Compare(f)
    BY <1>3
  <2> QED
    BY <1>1, <1>2, <2>1, WalkingKeepsCalls DEF Compare, CallsInv
<1>4. CASE \E f \in Files : Die(f)
    BY <1>1, <1>4, WalkingKeepsCalls DEF Die, CallsInv
<1>5. CASE \E d \in Dirs : Push(d)
  <2>1. PICK d \in Dirs : Push(d)
    BY <1>5
  <2>2. /\ pc = "walking" /\ pc' = "walking" /\ d \in todo /\ stack' = Append(stack, d)
        /\ UNCHANGED <<walks, start, left, broken, seen>>
    BY <2>1 DEF Push
  <2>3. stack' # <<>> /\ (stack # <<>> => stack'[1] = stack[1])
    <3>1. stack # <<>> => Len(stack) \in Nat /\ Len(stack) # 0
      BY <1>2, EmptySeq
    <3>2. stack # <<>> => 1 \in 1 .. Len(stack)
      BY <3>1
    <3> QED
      BY <1>2, <2>2, <3>2
  <2>4. CASE stack # <<>>
    BY <1>1, <2>2, <2>3, <2>4, WalkingKeepsCalls DEF CallsInv
  <2>5. CASE stack = <<>>
    <3>1. walks = 1 /\ ~(walks > 1)
      <4>1. d # Root /\ d \in Dirs
        BY <1>2, <2>2
      <4>2. ~(walks > 1) /\ walks # 0
        BY <2>2, <2>5, <4>1 DEF CallsInv
      <4> QED
        BY <1>2, <4>2
    <3>2. walks' = 1 /\ ~(walks' > 1) /\ walks' # 0
      BY <2>2, <3>1
    <3> QED
      BY <1>1, <2>2, <2>3, <3>1, <3>2 DEF CallsInv
  <2> QED
    BY <2>4, <2>5
<1>6. CASE Pop
  <2> DEFINE n == Len(stack)
  <2>1. /\ pc = "walking" /\ pc' = "walking" /\ n > 1 /\ stack' = SubSeq(stack, 1, n - 1)
        /\ UNCHANGED <<walks, start, left, broken, seen>>
    BY <1>6 DEF Pop
  <2>2. n \in Nat /\ n - 1 \in 1 .. n /\ 1 \in 1 .. n + 1 /\ 1 \in 1 .. n - 1
    BY <1>2, <2>1
  <2>3. Len(stack') = n - 1 /\ stack'[1] = stack[1]
    BY <1>2, <2>1, <2>2, SubSeqProperties
  <2>4. stack # <<>> /\ stack' # <<>>
    <3>1. n # 0 /\ Len(stack') # 0
      BY <2>2, <2>3
    <3>2. Len(<<>>) = 0
      OBVIOUS
    <3> QED
      BY <3>1, <3>2, Zenon
  <2> QED
    BY <1>1, <2>1, <2>3, <2>4, WalkingKeepsCalls DEF CallsInv
<1>7. CASE Done
  <2>1. /\ pc = "walking" /\ pc' = "done" /\ todo = {}
        /\ UNCHANGED <<walks, start, left, broken, seen, stack>>
    BY <1>7 DEF Done
  <2>2. walks # 0 /\ (walks = 1 \/ walks > 1)
    BY <1>2, <2>1 DEF CallsInv
  <2>3. seen' \cap broken' = {} /\ looked' \cap broken' = {} /\ seen' \subseteq looked'
    BY <1>1, <2>1 DEF CallsInv
  <2>4. /\ stack = <<>> => Dirs = {Root}
        /\ Files \subseteq looked' \union (IF stack = <<>> THEN {} ELSE FilesUnder(stack[1]))
    <3>1. CASE walks > 1
      BY <1>1, <3>1 DEF CallsInv
    <3>2. CASE walks = 1
      <4>1. start = Root /\ ~left
        BY <3>2 DEF CallsInv
      <4>2. stack = <<>> => Children(Root) \cap Dirs = {}
        BY <2>1, <3>2 DEF CallsInv
      <4>3. LeavesOutFirstDirectory'
        BY DEF WalkInv
      <4>4. seen' = Files \ (IF stack # <<>> THEN FilesUnder(stack[1]) ELSE {})
        BY <2>1, <4>1, <4>3, RootHasAll DEF LeavesOutFirstDirectory, FilesUnder
      <4> QED
        BY <1>1, <4>2, <4>4, FlatTree
    <3> QED
      BY <2>2, <3>1, <3>2
  <2> QED
    BY <2>1, <2>2, <2>3, <2>4 DEF CallsInv
<1> QED
    BY <1>1, <1>3, <1>4, <1>5, <1>6, <1>7 DEF Walk

LEMMA CallsNext == WalkInv /\ WalkInv' /\ CallsInv /\ [Next]_vars => CallsInv'
<1> SUFFICES ASSUME WalkInv, WalkInv', CallsInv, [Next]_vars PROVE CallsInv'
    OBVIOUS
<1>1. CASE UNCHANGED <<status, looked>>
    BY <1>1 DEF status, CallsInv
<1>2. CASE BeginClean \/ BeginRevert \/ RevertAgain \/ TreeStep
    BY <1>1, <1>2
    DEF BeginClean, BeginRevert, RevertAgain, TreeStep, Descend, RemoveFile, RevertFile,
        ReturnEarly, DieOnLink, WriteFile, Return, FilesRemoved, WalkDone, AllWritten
<1> QED
    BY <1>1, <1>2, CallStatusKeepsCalls, StatusStepKeepsCalls DEF Next, vars, tree

LEMMA CallsInit == TreeInit => CallsInv
<1> SUFFICES ASSUME TreeInit PROVE CallsInv
    OBVIOUS
<1>1. /\ pc = "idle" /\ stack = <<>> /\ left = FALSE /\ walks = 0 /\ seen = {} /\ looked = {}
    BY DEF TreeInit, Init
<1>2. pc # "walking" /\ pc # "done" /\ ~left /\ walks # 1 /\ ~(walks > 1)
    BY <1>1
<1>3. seen \cap broken = {} /\ looked \cap broken = {} /\ seen \subseteq looked
    BY <1>1
<1> QED
    BY <1>1, <1>2, <1>3, Zenon DEF CallsInv

-----------------------------------------------------------------------------
(* Frames of a walk *)

LEMMA WithinOrder ==
    /\ \A d \in Dirs : <<d, d>> \in Within
    /\ Within \subseteq Dirs \X Entries
    /\ Dirs \cap Files = {} /\ Dirs \subseteq Entries /\ Files \subseteq Entries
    /\ Root \in Dirs
    /\ \A b, c \in Dirs, e \in Entries :
            (<<b, c>> \in Within /\ <<c, e>> \in Within) => <<b, e>> \in Within
BY TreeAssumption DEF Entries

\* What is strictly below a directory is below one of its entries.
LEMMA BelowEntry ==
    ASSUME NEW d \in Dirs, NEW e \in Entries, <<d, e>> \in Within, e # d
    PROVE  \E c \in Children(d) : Below(c, e) /\ (e = c \/ c \in Dirs)
<1>1. \/ e \in Children(d)
      \/ \E c \in Children(d) \cap Dirs : <<c, e>> \in Within
    BY TreeAssumption
<1> QED
    BY <1>1 DEF Below

\* A file is all there is below it.
LEMMA NothingBelowFile ==
    ASSUME NEW f \in Files, NEW e, Below(f, e) PROVE e = f
BY WithinOrder DEF Below

Frame == [dir : Dirs, todo : SUBSET (Entries \ {Root})]

LEMMA WalkingFrames ==
    ASSUME TreeType, frames # <<>>
    PROVE  /\ Len(frames) \in Nat /\ Len(frames) > 0
           /\ Len(frames) \in DOMAIN frames
           /\ DOMAIN frames = 1 .. Len(frames)
           /\ \A i \in DOMAIN frames : frames[i] \in Frame
           /\ Call \in Frame
<1>1. frames \in Seq(Frame)
    BY DEF TreeType, Frame
<1>2. Len(frames) \in Nat /\ Len(frames) # 0
    BY <1>1, EmptySeq
<1> QED
    BY <1>1, <1>2 DEF Call

\* An entry is met: only the last frame changes.
LEMMA MetFrames ==
    ASSUME TreeType, frames # <<>>, NEW e
    PROVE  /\ Met(e) \in Seq(Frame)
           /\ Len(Met(e)) = Len(frames) /\ DOMAIN Met(e) = DOMAIN frames
           /\ \A i \in DOMAIN frames : Met(e)[i].dir = frames[i].dir
           /\ \A i \in DOMAIN frames :
                Met(e)[i].todo = IF i = Len(frames) THEN Call.todo \ {e} ELSE frames[i].todo
<1> DEFINE n == Len(frames)
           last == [Call EXCEPT !.todo = @ \ {e}]
<1>1. frames \in Seq(Frame)
    BY DEF TreeType, Frame
<1>2. n \in 1 .. n /\ Call \in Frame /\ DOMAIN frames = 1 .. n
    BY WalkingFrames
<1>3. Met(e) = [frames EXCEPT ![n] = last]
    BY DEF Met, Call
<1>4. last \in Frame /\ last.dir = Call.dir /\ last.todo = Call.todo \ {e}
    BY <1>2 DEF Frame
<1> HIDE DEF last
<1>5. /\ Met(e) \in Seq(Frame) /\ Len(Met(e)) = n
      /\ \A i \in 1 .. n : Met(e)[i] = IF i = n THEN last ELSE frames[i]
    BY <1>1, <1>2, <1>3, <1>4
<1>6. DOMAIN Met(e) = 1 .. n
    BY <1>5
<1> QED
    BY <1>2, <1>4, <1>5, <1>6 DEF Call

\* A call returns: the other frames stay.
LEMMA ReturnedFrames ==
    ASSUME TreeType, frames # <<>>
    PROVE  /\ Returned \in Seq(Frame)
           /\ Len(Returned) = Len(frames) - 1
           /\ DOMAIN Returned = DOMAIN frames \ {Len(frames)}
           /\ \A i \in DOMAIN Returned : Returned[i] = frames[i]
<1> DEFINE n == Len(frames)
<1>1. frames \in Seq(Frame)
    BY DEF TreeType, Frame
<1>2. n \in Nat /\ n > 0 /\ 1 \in 1 .. n + 1 /\ n - 1 \in 0 .. n
    BY WalkingFrames
<1>3. CASE n = 1
  <2>1. Returned = <<>>
    BY <1>1, <1>3 DEF Returned
  <2> QED
    BY <1>1, <1>3, <2>1
<1>4. CASE n > 1
  <2>1. n - 1 \in 1 .. n
    BY <1>2, <1>4
  <2>2. /\ Returned \in Seq(Frame) /\ Len(Returned) = n - 1
        /\ \A i \in 1 .. n - 1 : Returned[i] = frames[i]
    BY <1>1, <1>2, <2>1, SubSeqProperties DEF Returned
  <2>3. DOMAIN Returned = 1 .. n - 1 /\ DOMAIN frames = 1 .. n
    BY <1>1, <2>2
  <2> QED
    BY <1>2, <2>2, <2>3
<1>5. n = 1 \/ n > 1
  <2> HIDE DEF n
  <2> QED
    BY <1>2
<1> QED
    BY <1>3, <1>4, <1>5, Zenon

\* A directory is met and opened.
LEMMA DescendFrames ==
    ASSUME TreeType, frames # <<>>, NEW d \in Dirs
    PROVE  LET next == Append(Met(d), Open(d)) IN
           /\ next \in Seq(Frame)
           /\ Len(next) = Len(frames) + 1
           /\ DOMAIN next = DOMAIN frames \union {Len(frames) + 1}
           /\ \A i \in DOMAIN frames : next[i] = Met(d)[i]
           /\ next[Len(frames) + 1] = Open(d)
<1> DEFINE next == Append(Met(d), Open(d))
           n == Len(frames)
<1>1. Met(d) \in Seq(Frame) /\ Len(Met(d)) = n /\ n \in Nat /\ DOMAIN frames = 1 .. n
    BY MetFrames, WalkingFrames
<1>2. Open(d) \in Frame
    BY DEF Open, Frame, Children, TreeType
<1> HIDE DEF n
<1>3. /\ next \in Seq(Frame) /\ Len(next) = n + 1
      /\ \A i \in 1 .. n : next[i] = Met(d)[i]
      /\ next[n + 1] = Open(d)
    BY <1>1, <1>2
<1>4. DOMAIN next = 1 .. n + 1
    BY <1>3
<1> QED
    BY <1>1, <1>3, <1>4 DEF n

-----------------------------------------------------------------------------
(* The walks of checkout and revert *)

\* What is there below an opened directory is below an entry it has to meet.
LEMMA OpenCover ==
    ASSUME TreeType, HeldAll, NEW d \in Dirs, NEW e \in there, <<d, e>> \in Within, e # d
    PROVE  \E c \in Open(d).todo : Below(c, e)
<1>1. there \subseteq Entries \ {Root} /\ Open(d).todo = Children(d) \cap there
    BY DEF TreeType, Open
<1>2. PICK c \in Children(d) : Below(c, e) /\ (e = c \/ c \in Dirs)
    BY <1>1, BelowEntry
<1>3. c # Root
    BY DEF Children
<1>4. c \in there
    BY <1>2, <1>3 DEF HeldAll, Below
<1> QED
    BY <1>1, <1>2, <1>4

\* An opened directory stands for its files, as long as all of them are there.
LEMMA OpenFiles ==
    ASSUME there = Entries \ {Root}, NEW d \in Dirs, NEW x \in Files
    PROVE  Below(d, x) <=> \E c \in Open(d).todo : Below(c, x)
<1>1. Open(d).todo = Children(d)
    BY DEF Open, Children
<1>2. \A e : Below(e, x) <=> x \in FilesOf(e)
    BY DEF Below, FilesOf
<1> QED
    BY <1>1, <1>2, OpenedDirectory

LEMMA DescendKeeps ==
    ASSUME TreeInv, NEW d \in Dirs, Descend(d) PROVE TreeInv'
<1> DEFINE n == Len(frames)
<1>1. /\ job \in {"files", "dirs", "revert"} /\ frames # <<>> /\ d \in Call.todo
      /\ frames' = Append(Met(d), Open(d))
      /\ UNCHANGED <<status, job, there, looked, rewritten>>
    BY DEF Descend, Walking
<1>2. TreeType /\ HeldAll /\ CoverInv /\ RevertInv /\ JobInv
    BY DEF TreeInv
<1>3. /\ frames' \in Seq(Frame) /\ Len(frames') = n + 1
      /\ DOMAIN frames' = DOMAIN frames \union {n + 1}
      /\ \A i \in DOMAIN frames : frames'[i] = Met(d)[i]
      /\ frames'[n + 1] = Open(d)
    BY <1>1, <1>2, DescendFrames
<1>4. \A i \in DOMAIN frames :
        /\ frames'[i].dir = frames[i].dir
        /\ frames'[i].todo = IF i = n THEN Call.todo \ {d} ELSE frames[i].todo
  <2>1. \A i \in DOMAIN frames :
          /\ Met(d)[i].dir = frames[i].dir
          /\ Met(d)[i].todo = IF i = Len(frames) THEN Call.todo \ {d} ELSE frames[i].todo
    BY <1>1, <1>2, MetFrames
  <2> QED
    BY <1>3, <2>1
<1>5. /\ n \in Nat /\ n > 0 /\ DOMAIN frames = 1 .. n
    BY <1>1, <1>2, WalkingFrames
<1>6. frames'[n + 1].dir = d /\ frames'[n + 1].todo = Open(d).todo
    BY <1>3 DEF Open
<1>7. TreeType' /\ HeldAll'
    BY <1>1, <1>2, <1>3 DEF TreeType, HeldAll, Frame
<1>8. ASSUME job = "dirs" PROVE FramesCover'
  <2>1. FramesCover
    BY <1>2, <1>8 DEF CoverInv
  <2> SUFFICES ASSUME NEW i \in DOMAIN frames', NEW e \in there,
                      <<frames'[i].dir, e>> \in Within, e # frames'[i].dir
               PROVE  \/ \E c \in frames'[i].todo : Below(c, e)
                      \/ i < n + 1 /\ <<frames'[i + 1].dir, e>> \in Within
    BY <1>1, <1>3 DEF FramesCover
  <2>2. CASE i = n + 1
    BY <1>2, <1>6, <2>2, OpenCover
  <2>3. CASE i = n
    <3>1. \E c \in Call.todo : Below(c, e)
      <4>1. n \in DOMAIN frames /\ ~(n < n) /\ Call = frames[n]
        BY <1>5 DEF Call
      <4>2. <<frames[n].dir, e>> \in Within /\ e # frames[n].dir
        BY <1>4, <2>3, <4>1
      <4> QED
        BY <2>1, <4>1, <4>2 DEF FramesCover
    <3>2. Below(d, e) => <<frames'[n + 1].dir, e>> \in Within
      BY <1>6, WithinOrder DEF Below
    <3> QED
      BY <1>4, <1>5, <2>3, <3>1, <3>2
  <2>4. CASE i \in DOMAIN frames /\ i # n
    <3>1. i < n /\ i < n + 1 /\ i + 1 \in DOMAIN frames
      BY <1>5, <2>4
    <3> QED
      BY <1>4, <2>1, <2>4, <3>1 DEF FramesCover
  <2> QED
    BY <1>3, <2>2, <2>3, <2>4
<1>9. CoverInv'
  <2>1. 1 \in DOMAIN frames
    BY <1>5
  <2> QED
    BY <1>1, <1>2, <1>4, <1>8, <2>1 DEF CoverInv
<1>10. RevertInv'
  <2>1. ASSUME job = "revert" PROVE AheadOfRevert' = AheadOfRevert
    <3>1. there = Entries \ {Root}
      BY <1>2, <2>1 DEF JobInv
    <3>2. ASSUME NEW x \in Files PROVE x \in AheadOfRevert' <=> x \in AheadOfRevert
      <4>1. x \in AheadOfRevert' <=>
                \/ \E i \in DOMAIN frames : \E c \in frames'[i].todo : Below(c, x)
                \/ \E c \in Open(d).todo : Below(c, x)
        BY <1>3, <1>6 DEF AheadOfRevert
      <4>2. (\E c \in Open(d).todo : Below(c, x)) <=> Below(d, x)
        BY <3>1, OpenFiles
      <4>3. n \in DOMAIN frames /\ frames[n].todo = Call.todo
        BY <1>5 DEF Call
      <4> QED
        BY <1>1, <1>4, <4>1, <4>2, <4>3 DEF AheadOfRevert
    <3> QED
      BY <3>2 DEF AheadOfRevert
  <2>2. CASE job = "revert"
    BY <1>1, <1>2, <2>1, <2>2 DEF RevertInv, FilesUnder, status
  <2>3. CASE job # "revert"
    BY <1>1, <1>2, <2>3 DEF RevertInv, FilesUnder, status
  <2> QED
    BY <2>2, <2>3
<1>11. JobInv'
  <2>1. frames' # <<>>
    <3>1. Len(frames') # 0 /\ Len(<<>>) = 0
      BY <1>3, <1>5
    <3> QED
      BY <3>1, Zenon
  <2> QED
    BY <1>1, <1>2, <2>1 DEF JobInv, Restored, status
<1> QED
    BY <1>7, <1>9, <1>10, <1>11 DEF TreeInv


\* A file holds nothing that would be left behind.
LEMMA RemoveFileKeeps ==
    ASSUME TreeInv, NEW f \in Files, RemoveFile(f) PROVE TreeInv'
<1> DEFINE n == Len(frames)
<1>1. /\ job \in {"files", "dirs"} /\ frames # <<>> /\ f \in Call.todo
      /\ frames' = Met(f) /\ there' = there \ {f}
      /\ UNCHANGED <<status, job, looked, rewritten>>
    BY DEF RemoveFile, Walking
<1>2. TreeType /\ HeldAll /\ CoverInv /\ JobInv
    BY DEF TreeInv
<1>3. /\ frames' \in Seq(Frame) /\ Len(frames') = n /\ DOMAIN frames' = DOMAIN frames
      /\ \A i \in DOMAIN frames : frames'[i].dir = frames[i].dir
      /\ \A i \in DOMAIN frames :
            frames'[i].todo = IF i = n THEN Call.todo \ {f} ELSE frames[i].todo
    BY <1>1, <1>2, MetFrames
<1>4. n \in Nat /\ n > 0 /\ DOMAIN frames = 1 .. n
    BY <1>1, <1>2, WalkingFrames
<1>5. frames' # <<>>
  <2>1. Len(frames') # 0 /\ Len(<<>>) = 0
    BY <1>3, <1>4
  <2> QED
    BY <2>1, Zenon
<1>6. TreeType' /\ HeldAll'
    BY <1>1, <1>2, <1>3, WithinOrder DEF TreeType, HeldAll, Frame
<1>7. ASSUME job = "dirs" PROVE FramesCover'
  <2>1. FramesCover
    BY <1>2, <1>7 DEF CoverInv
  <2> SUFFICES ASSUME NEW i \in DOMAIN frames, NEW e \in there \ {f},
                      <<frames[i].dir, e>> \in Within, e # frames[i].dir
               PROVE  \/ \E c \in frames'[i].todo : Below(c, e)
                      \/ i < n /\ <<frames'[i + 1].dir, e>> \in Within
    BY <1>1, <1>3 DEF FramesCover
  <2>2. \/ \E c \in frames[i].todo : Below(c, e)
        \/ i < n /\ <<frames[i + 1].dir, e>> \in Within
    BY <2>1 DEF FramesCover
  <2>3. i < n => i + 1 \in DOMAIN frames
    BY <1>4
  <2>4. ~Below(f, e)
    BY NothingBelowFile
  <2>5. i = n => frames[i] = Call
    BY DEF Call
  <2> QED
    BY <1>3, <2>2, <2>3, <2>4, <2>5
<1>8. CoverInv'
  <2>1. 1 \in DOMAIN frames
    BY <1>4
  <2> QED
    BY <1>1, <1>2, <1>3, <1>7, <2>1 DEF CoverInv
<1>9. RevertInv' /\ JobInv'
    BY <1>1, <1>2, <1>5 DEF RevertInv, JobInv, Restored, status
<1> QED
    BY <1>6, <1>8, <1>9 DEF TreeInv

LEMMA RevertFileKeeps ==
    ASSUME TreeInv, NEW f \in Files, RevertFile(f) PROVE TreeInv'
<1> DEFINE n == Len(frames)
<1>1. /\ job = "revert" /\ frames # <<>> /\ f \in Call.todo
      /\ frames' = Met(f) /\ rewritten' = rewritten \union ({f} \cap Committed)
      /\ UNCHANGED <<status, job, looked, there>>
    BY DEF RevertFile, Walking
<1>2. TreeType /\ HeldAll /\ RevertInv /\ JobInv
    BY DEF TreeInv
<1>3. /\ frames' \in Seq(Frame) /\ DOMAIN frames' = DOMAIN frames
      /\ \A i \in DOMAIN frames :
            frames'[i].todo = IF i = n THEN Call.todo \ {f} ELSE frames[i].todo
    BY <1>1, <1>2, MetFrames
<1>4. n \in DOMAIN frames /\ frames[n] = Call
    BY <1>1, <1>2, WalkingFrames DEF Call
<1>5. TreeType' /\ HeldAll'
    BY <1>1, <1>2, <1>3 DEF TreeType, HeldAll, Frame
<1>6. AheadOfRevert' \subseteq AheadOfRevert
    BY <1>3, <1>4 DEF AheadOfRevert
<1>7. AheadOfRevert \subseteq AheadOfRevert' \union {f}
  <2> SUFFICES ASSUME NEW x \in Files, NEW i \in DOMAIN frames, NEW c \in frames[i].todo,
                      Below(c, x), x # f
               PROVE  \E e \in frames'[i].todo : Below(e, x)
    BY <1>3 DEF AheadOfRevert
  <2>1. c # f
    BY NothingBelowFile
  <2> QED
    BY <1>3, <1>4, <2>1
<1>8. f \in AheadOfRevert
    BY <1>1, <1>4 DEF AheadOfRevert, Below
<1>9. RevertInv'
  <2>1. /\ (rewritten \union AheadOfRevert) \cap Committed = FilesUnder(start) \cap Committed
        /\ rewritten \subseteq Committed /\ AheadOfRevert \subseteq FilesUnder(start)
        /\ FilesUnder(start) \cap broken = {}
    BY <1>1, <1>2 DEF RevertInv
  <2>2. FilesUnder(start)' = FilesUnder(start) /\ broken' = broken /\ job' = "revert"
    BY <1>1 DEF FilesUnder, status
  <2>3. /\ (rewritten' \union AheadOfRevert') \cap Committed = FilesUnder(start) \cap Committed
        /\ rewritten' \subseteq Committed /\ AheadOfRevert' \subseteq FilesUnder(start)
    BY <1>1, <1>6, <1>7, <1>8, <2>1
  <2> QED
    BY <2>1, <2>2, <2>3 DEF RevertInv
<1>10. CoverInv' /\ JobInv'
    BY <1>1, <1>2 DEF CoverInv, JobInv, Restored, status
<1> QED
    BY <1>5, <1>9, <1>10 DEF TreeInv

\* In revert this cannot happen: status() has been through the directory.
LEMMA ReturnEarlyKeeps ==
    ASSUME TreeInv, NEW f \in Files, ReturnEarly(f) PROVE TreeInv'
<1>1. /\ job \in {"files", "revert"} /\ frames # <<>> /\ f \in Call.todo \cap broken
      /\ frames' = Returned
      /\ UNCHANGED <<status, job, there, looked, rewritten>>
    BY DEF ReturnEarly, Walking
<1>2. TreeType /\ HeldAll /\ RevertInv /\ JobInv
    BY DEF TreeInv
<1>3. job # "revert"
  <2>1. Len(frames) \in DOMAIN frames /\ Call = frames[Len(frames)]
    BY <1>1, <1>2, WalkingFrames DEF Call
  <2>2. f \in AheadOfRevert
    BY <1>1, <2>1 DEF AheadOfRevert, Below
  <2> QED
    BY <1>1, <1>2, <2>2 DEF RevertInv
<1>4. TreeType' /\ HeldAll'
    BY <1>1, <1>2, ReturnedFrames DEF TreeType, HeldAll, Frame
<1> QED
    BY <1>1, <1>2, <1>3, <1>4 DEF TreeInv, CoverInv, RevertInv, JobInv, Restored, status

\* Where the call for a directory ends, nothing is there below it.
LEMMA ReturnKeeps ==
    ASSUME TreeInv, Return PROVE TreeInv'
<1> DEFINE n == Len(frames)
<1>1. /\ job \in {"files", "dirs", "revert"} /\ frames # <<>> /\ Call.todo = {}
      /\ frames' = Returned
      /\ there' = IF job = "dirs" THEN there \ {Call.dir} ELSE there
      /\ UNCHANGED <<status, job, looked, rewritten>>
    BY DEF Return, Walking
<1>2. TreeType /\ HeldAll /\ CoverInv /\ RevertInv /\ JobInv
    BY DEF TreeInv
<1>3. /\ frames' \in Seq(Frame) /\ Len(frames') = n - 1
      /\ DOMAIN frames' = DOMAIN frames \ {n}
      /\ \A i \in DOMAIN frames' : frames'[i] = frames[i]
    BY <1>1, <1>2, ReturnedFrames
<1>4. n \in Nat /\ n > 0 /\ n \in DOMAIN frames /\ DOMAIN frames = 1 .. n /\ frames[n] = Call
    BY <1>1, <1>2, WalkingFrames DEF Call
<1>5. TreeType'
    BY <1>1, <1>2, <1>3 DEF TreeType, Frame
<1>6. CASE job = "dirs"
  <2>1. FramesCover /\ frames[1].dir = Root
    BY <1>1, <1>2, <1>6 DEF CoverInv
  <2>2. \A e \in there' : e # Call.dir /\ <<Call.dir, e>> \notin Within
    <3>1. ASSUME NEW e \in there, e # Call.dir PROVE <<Call.dir, e>> \notin Within
      <4>1. ~(n < n)
        BY <1>4
      <4> QED
        BY <1>1, <1>4, <2>1, <3>1, <4>1 DEF FramesCover
    <3> QED
      BY <1>1, <1>6, <3>1
  <2>3. there' = there \ {Call.dir}
    BY <1>1, <1>6
  <2>4. HeldAll'
    BY <1>2, <2>2, <2>3 DEF HeldAll
  <2>5. FramesCover'
    <3> SUFFICES ASSUME NEW i \in DOMAIN frames, i # n, NEW e \in there',
                        <<frames[i].dir, e>> \in Within, e # frames[i].dir
                 PROVE  \/ \E c \in frames[i].todo : Below(c, e)
                        \/ i < n - 1 /\ <<frames'[i + 1].dir, e>> \in Within
      BY <1>3 DEF FramesCover
    <3>1. \/ \E c \in frames[i].todo : Below(c, e)
          \/ i < n /\ <<frames[i + 1].dir, e>> \in Within
      BY <2>1, <2>3 DEF FramesCover
    <3>2. CASE i + 1 = n
      BY <1>4, <2>2, <3>1, <3>2
    <3>3. CASE i + 1 # n
      <4>1. i < n => i < n - 1 /\ i + 1 \in DOMAIN frames'
        BY <1>3, <1>4, <3>3
      <4> QED
        BY <1>3, <3>1, <4>1
    <3> QED
      BY <3>2, <3>3
  <2>6. frames' # <<>> => frames'[1].dir = Root
    <3>1. frames' # <<>> => Len(frames') # 0
      BY <1>3, EmptySeq
    <3>2. Len(frames') # 0 => 1 \in DOMAIN frames'
      BY <1>3, <1>4
    <3> QED
      BY <1>3, <2>1, <3>1, <3>2
  <2>7. frames' = <<>> => there' = {}
    <3> SUFFICES ASSUME frames' = <<>>, NEW e \in there' PROVE FALSE
      OBVIOUS
    <3>1. n = 1
      <4>1. Len(frames') = 0
        OBVIOUS
      <4> HIDE DEF n
      <4> QED
        BY <1>3, <1>4, <4>1
    <3>2. Call.dir = Root
      BY <1>4, <2>1, <3>1
    <3>3. e \in Entries
      BY <1>2, <2>3 DEF TreeType
    <3> QED
      BY <2>2, <3>2, <3>3, TreeAssumption
  <2> QED
    BY <1>1, <1>2, <1>5, <1>6, <2>3, <2>4, <2>5, <2>6, <2>7
    DEF TreeInv, CoverInv, RevertInv, JobInv, Restored, status
<1>7. CASE job \in {"files", "revert"}
  <2>1. there' = there /\ HeldAll'
    BY <1>1, <1>2, <1>7 DEF HeldAll
  <2>2. AheadOfRevert' = AheadOfRevert
    BY <1>1, <1>3, <1>4 DEF AheadOfRevert
  <2>3. RevertInv'
    BY <1>1, <1>2, <2>2 DEF RevertInv, FilesUnder, status
  <2> QED
    BY <1>1, <1>2, <1>5, <1>7, <2>1, <2>3
    DEF TreeInv, CoverInv, JobInv, Restored, status
<1> QED
    BY <1>1, <1>6, <1>7


\* A walk that begins with one frame.
LEMMA FirstFrame ==
    ASSUME NEW d \in Dirs, TreeType
    PROVE  /\ <<Open(d)>> \in Seq(Frame) /\ <<Open(d)>> # <<>>
           /\ DOMAIN <<Open(d)>> = {1} /\ Len(<<Open(d)>>) = 1
           /\ <<Open(d)>>[1] = Open(d)
<1>1. Open(d) \in Frame
    BY DEF Open, Frame, Children, TreeType
<1> DEFINE o == Open(d)
<1> HIDE DEF o
<1>2. <<o>> \in Seq(Frame) /\ Len(<<o>>) = 1 /\ DOMAIN <<o>> = {1} /\ <<o>>[1] = o /\ <<o>> # <<>>
    BY <1>1 DEF o
<1> QED
    BY <1>2 DEF o

LEMMA BeginCleanKeeps ==
    ASSUME TreeInv, BeginClean PROVE TreeInv'
<1>1. /\ job \in {"none", "reverted", "again"} /\ pc = "done" /\ job' = "files"
      /\ frames' = <<Open(Root)>> /\ UNCHANGED <<status, there, looked, rewritten>>
    BY DEF BeginClean, Resting
<1>2. TreeType' /\ HeldAll'
    BY <1>1, FirstFrame, WithinOrder DEF TreeInv, TreeType, Jobs, HeldAll, Frame
<1> QED
    BY <1>1, <1>2 DEF TreeInv, CoverInv, RevertInv, JobInv, Restored, status

\* status() was called for the directory, and has left nothing in it out.
LEMMA BeginRevertKeeps ==
    ASSUME WalkInv, CallsInv, TreeInv, BeginRevert PROVE TreeInv'
<1>1. /\ job = "none" /\ pc = "done" /\ walks > 1 /\ job' = "revert"
      /\ frames' = <<Open(start)>> /\ rewritten' = {}
      /\ UNCHANGED <<status, there, looked>>
    BY DEF BeginRevert
<1>2. TreeType /\ HeldAll /\ JobInv /\ start \in Dirs
    BY DEF TreeInv, WalkInv, WalkType
<1>3. there = Entries \ {Root}
    BY <1>1, <1>2 DEF JobInv
<1>4. TreeType' /\ HeldAll'
    BY <1>1, <1>2, FirstFrame DEF TreeType, Jobs, HeldAll, Frame
<1>5. AheadOfRevert' = FilesUnder(start)
  <2>1. ASSUME NEW x \in Files PROVE x \in AheadOfRevert' <=> <<start, x>> \in Within
    <3>1. x \in AheadOfRevert' <=> \E c \in Open(start).todo : Below(c, x)
      BY <1>1, <1>2, FirstFrame DEF AheadOfRevert
    <3>2. Below(start, x) <=> <<start, x>> \in Within
      BY <1>2, WithinOrder DEF Below
    <3> QED
      BY <1>2, <1>3, <3>1, <3>2, OpenFiles
  <2> QED
    BY <2>1 DEF AheadOfRevert, FilesUnder
<1>6. FilesUnder(start) \cap broken = {}
  <2>1. seen = FilesUnder(start)
    BY <1>1, <1>2 DEF WalkInv, LeavesOutFirstDirectory, CallsInv, FilesUnder
  <2> QED
    BY <2>1 DEF CallsInv
<1>7. FilesUnder(start)' = FilesUnder(start) /\ broken' = broken
    BY <1>1 DEF FilesUnder, status
<1>8. RevertInv'
    BY <1>1, <1>5, <1>6, <1>7 DEF RevertInv
<1> QED
    BY <1>1, <1>2, <1>4, <1>8 DEF TreeInv, CoverInv, JobInv, Restored, status

LEMMA FilesRemovedKeeps ==
    ASSUME TreeInv, FilesRemoved PROVE TreeInv'
<1>1. /\ job = "files" /\ job' = "dirs" /\ frames' = <<Open(Root)>>
      /\ UNCHANGED <<status, there, looked, rewritten>>
    BY DEF FilesRemoved
<1>2. TreeType /\ HeldAll /\ JobInv
    BY DEF TreeInv
<1>3. TreeType' /\ HeldAll'
    BY <1>1, <1>2, FirstFrame, WithinOrder DEF TreeType, Jobs, HeldAll, Frame
<1>4. CoverInv'
  <2>1. DOMAIN frames' = {1} /\ frames'[1] = Open(Root) /\ frames'[1].dir = Root
    BY <1>1, <1>2, FirstFrame, WithinOrder DEF Open
  <2> QED
    BY <1>1, <1>2, <2>1, OpenCover, WithinOrder DEF CoverInv, FramesCover
<1>5. frames' # <<>>
    BY <1>1, <1>2, FirstFrame, WithinOrder
<1> QED
    BY <1>1, <1>2, <1>3, <1>4, <1>5 DEF TreeInv, RevertInv, JobInv, Restored, status

\* The tree is empty, or all files were met.
LEMMA WalkDoneKeeps ==
    ASSUME TreeInv, WalkDone PROVE TreeInv'
<1>1. /\ job \in {"dirs", "revert"} /\ frames = <<>>
      /\ job' = (IF job = "dirs" THEN "write" ELSE "reverted")
      /\ UNCHANGED <<status, frames, there, looked, rewritten>>
    BY DEF WalkDone
<1>2. TreeType /\ HeldAll /\ RevertInv /\ JobInv
    BY DEF TreeInv
<1>3. TreeType' /\ HeldAll'
    BY <1>1, <1>2 DEF TreeType, Jobs, HeldAll
<1>4. job = "revert" => rewritten = Committed \cap FilesUnder(start)
  <2>1. AheadOfRevert = {}
    BY <1>1 DEF AheadOfRevert
  <2> QED
    BY <1>2, <2>1 DEF RevertInv
<1>5. FilesUnder(start)' = FilesUnder(start)
    BY <1>1 DEF FilesUnder, status
<1>6. CASE job = "dirs"
    BY <1>1, <1>2, <1>3, <1>6 DEF TreeInv, CoverInv, RevertInv, JobInv, Restored, status
<1>7. CASE job = "revert"
    BY <1>1, <1>2, <1>3, <1>4, <1>5, <1>7
    DEF TreeInv, CoverInv, RevertInv, JobInv, Restored, status
<1> QED
    BY <1>1, <1>6, <1>7

\* A written file has all directories above it made.
LEMMA WriteFileKeeps ==
    ASSUME TreeInv, NEW f \in Files, WriteFile(f) PROVE TreeInv'
<1>1. /\ job = "write" /\ f \in Committed /\ there' = there \union Above(f) \union {f}
      /\ UNCHANGED <<status, job, frames, looked, rewritten>>
    BY DEF WriteFile, MakeDirs
<1>2. TreeType /\ HeldAll /\ JobInv
    BY DEF TreeInv
<1>3. TreeType'
    BY <1>1, <1>2, WithinOrder DEF TreeType, Above
<1>4. HeldAll'
  <2> SUFFICES ASSUME NEW e \in there \union Above(f) \union {f}, NEW d \in Dirs \ {Root},
                      <<d, e>> \in Within
               PROVE  d \in there \union Above(f)
    BY <1>1 DEF HeldAll
  <2>1. e \in Above(f) => <<d, f>> \in Within
    BY WithinOrder DEF Above
  <2> QED
    BY <1>2, <2>1 DEF HeldAll, Above
<1>5. there' \subseteq Committed \union UNION {Above(g) : g \in Committed}
    BY <1>1, <1>2 DEF JobInv
<1> QED
    BY <1>1, <1>2, <1>3, <1>4, <1>5 DEF TreeInv, CoverInv, RevertInv, JobInv, Restored, status

\* With the files of the commit there, so are their directories.
LEMMA AllWrittenKeeps ==
    ASSUME TreeInv, AllWritten PROVE TreeInv'
<1>1. /\ job = "write" /\ Committed \subseteq there /\ job' = "end"
      /\ UNCHANGED <<status, frames, there, looked, rewritten>>
    BY DEF AllWritten
<1>2. TreeType /\ HeldAll /\ JobInv
    BY DEF TreeInv
<1>3. TreeType' /\ HeldAll'
    BY <1>1, <1>2 DEF TreeType, Jobs, HeldAll
<1>4. there = Committed \union UNION {Above(f) : f \in Committed}
  <2>1. \A f \in Committed : Above(f) \subseteq there
    BY <1>1, <1>2 DEF HeldAll, Above
  <2> QED
    BY <1>1, <1>2, <2>1 DEF JobInv
<1> QED
    BY <1>1, <1>2, <1>3, <1>4 DEF TreeInv, CoverInv, RevertInv, JobInv, Restored, status

\* status() has been everywhere but below the directory it left out.
LEMMA DieOnLinkKeeps ==
    ASSUME CallsInv, TreeInv, NEW f \in Files, DieOnLink(f) PROVE TreeInv'
<1>1. /\ job = "dirs" /\ f \in broken /\ job' = "died"
      /\ UNCHANGED <<status, frames, there, looked, rewritten>>
    BY DEF DieOnLink
<1>2. TreeType /\ HeldAll /\ JobInv
    BY DEF TreeInv
<1>3. pc = "done" /\ f \notin looked
    BY <1>1, <1>2 DEF JobInv, CallsInv
<1>4. f \in looked \union (IF stack = <<>> THEN {} ELSE FilesUnder(stack[1]))
    BY <1>3 DEF CallsInv
<1>5. stack # <<>> /\ f \in broken \cap Unlooked
    BY <1>1, <1>3, <1>4 DEF Unlooked
<1>6. Unlooked' = Unlooked
    BY <1>1 DEF Unlooked, FilesUnder, status
<1>7. TreeType' /\ HeldAll'
    BY <1>1, <1>2 DEF TreeType, Jobs, HeldAll
<1> QED
    BY <1>1, <1>2, <1>3, <1>5, <1>6, <1>7
    DEF TreeInv, CoverInv, RevertInv, JobInv, Restored, status

\* The first directory has been rewritten, and nothing but that.
LEMMA RevertAgainKeeps ==
    ASSUME TreeInv, RevertAgain PROVE TreeInv'
<1>1. /\ job = "again" /\ pc = "done" /\ job' = "crashed"
      /\ UNCHANGED <<status, frames, there, looked, rewritten>>
    BY DEF RevertAgain
<1>2. TreeType /\ HeldAll /\ JobInv
    BY DEF TreeInv
<1>3. TreeType' /\ HeldAll'
    BY <1>1, <1>2 DEF TreeType, Jobs, HeldAll
<1>4. Restored'
  <2>1. PICK d \in Dirs : rewritten = Committed \cap FilesUnder(d)
    BY <1>1, <1>2 DEF JobInv, Restored
  <2>2. rewritten' = Committed \cap FilesUnder(d)'
    BY <1>1, <2>1 DEF FilesUnder
  <2> QED
    BY <1>1, <2>2 DEF Restored
<1> QED
    BY <1>1, <1>2, <1>3, <1>4 DEF TreeInv, CoverInv, RevertInv, JobInv, status

\* After a directory has been reverted, any other is a further one.
LEMMA StatusKeeps ==
    ASSUME WalkInv, WalkInv', TreeInv, CallStatus \/ StatusStep PROVE TreeInv'
<1>1. /\ job \in {"none", "reverted", "again"} /\ UNCHANGED <<frames, there, rewritten>>
      /\ looked' \subseteq looked \union seen' /\ seen' \subseteq Files
    BY DEF CallStatus, StatusStep, Resting, WalkInv, WalkType
<1>2. TreeType /\ HeldAll /\ RevertInv /\ JobInv /\ start \in Dirs
    BY DEF TreeInv, WalkInv, WalkType
<1>3. job = "reverted" => pc = "done"
    BY <1>2 DEF JobInv
<1>4. job' = IF job = "none" THEN "none" ELSE "again"
    BY <1>1, <1>3 DEF CallStatus, StatusStep, Walk, Compare, Die, Push, Pop, Done, Resting
<1>5. TreeType' /\ HeldAll'
    BY <1>1, <1>2, <1>4 DEF TreeType, Jobs, HeldAll
<1>6. job' = "again" => \E d \in Dirs : rewritten' = Committed \cap FilesUnder(d)'
  <2>1. job # "none" => \E d \in Dirs : rewritten = Committed \cap FilesUnder(d)
    BY <1>1, <1>2 DEF JobInv, Restored
  <2>2. \A d : FilesUnder(d)' = FilesUnder(d)
    BY DEF FilesUnder
  <2> QED
    BY <1>1, <1>4, <2>1, <2>2
<1> QED
    BY <1>1, <1>2, <1>4, <1>5, <1>6 DEF TreeInv, CoverInv, RevertInv, JobInv, Restored

-----------------------------------------------------------------------------
LEMMA TreeNext ==
    WalkInv /\ WalkInv' /\ CallsInv /\ TreeInv /\ [Next]_vars => TreeInv'
<1> SUFFICES ASSUME WalkInv, WalkInv', CallsInv, TreeInv, [Next]_vars PROVE TreeInv'
    OBVIOUS
<1>1. CASE UNCHANGED vars
  <2>1. UNCHANGED <<broken, pc, start, stack>> /\ UNCHANGED tree
    BY <1>1 DEF vars, status
  <2> QED
    BY <2>1 DEF tree, TreeInv, TreeType, HeldAll, CoverInv, FramesCover, RevertInv,
                AheadOfRevert, JobInv, Restored, Unlooked, FilesUnder
<1>2. CASE TreeStep
    BY <1>2, DescendKeeps, RemoveFileKeeps, RevertFileKeeps, ReturnEarlyKeeps,
       DieOnLinkKeeps, WriteFileKeeps, ReturnKeeps, FilesRemovedKeeps, WalkDoneKeeps,
       AllWrittenKeeps
    DEF TreeStep
<1> QED
    BY <1>1, <1>2, StatusKeeps, BeginCleanKeeps, BeginRevertKeeps, RevertAgainKeeps DEF Next

LEMMA TreeStart == TreeInit => TreeInv
<1> SUFFICES ASSUME TreeInit PROVE TreeInv
    OBVIOUS
<1>1. /\ job = "none" /\ frames = <<>> /\ there = Entries \ {Root}
      /\ looked = {} /\ rewritten = {}
    BY DEF TreeInit
<1>2. TreeType /\ HeldAll
    BY <1>1, WithinOrder DEF TreeType, Jobs, HeldAll
<1> QED
    BY <1>1, <1>2 DEF TreeInv, CoverInv, RevertInv, JobInv, Restored

LEMMA TreeInvImplies == CallsInv /\ TreeInv => WorkTreeSound
<1> SUFFICES ASSUME CallsInv, TreeInv PROVE WorkTreeSound
    OBVIOUS
<1>1. TreeType /\ HeldAll /\ JobInv
    BY DEF TreeInv
<1>2. Held
  <2> SUFFICES ASSUME NEW e \in there, Parent[e] # Root PROVE Parent[e] \in there
    BY DEF Held
  <2>1. e \in Entries \ {Root} /\ Parent[e] \in Dirs
    BY <1>1, TreeAssumption DEF TreeType
  <2>2. <<Parent[e], e>> \in Within
    BY <2>1, TreeAssumption DEF Children
  <2> QED
    BY <1>1, <2>1, <2>2 DEF HeldAll
<1>3. RemovedWereSeen
    BY <1>1 DEF RemovedWereSeen, JobInv, CallsInv, Unlooked
<1> QED
    BY <1>1, <1>2, <1>3 DEF WorkTreeSound, JobInv

\* Both hold of every state of the commands.
THEOREM TreeInvariant == Spec => [](CallsInv /\ TreeInv)
BY WalkInvariant, WalkInit, WalkNext, CallsInit, CallsNext, TreeStart, TreeNext, PTL DEF Spec

\* head, checkout and revert do to the work tree what their commands say,
\* unless a link is in the way; revert does it for its first directory, and a
\* further one crashes it before it has touched any file there.
THEOREM CheckoutIsSound == Spec => []WorkTreeSound
BY TreeInvariant, TreeInvImplies, PTL


=============================================================================

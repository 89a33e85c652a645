---------------------------- MODULE CompareProofs ----------------------------
(***************************************************************************)
(* What holds of LineDelta for files of any length and any lines, and of   *)
(* every comparison, for files and lists of any length.                    *)
(***************************************************************************)
EXTENDS Compare, SequenceLemmas

-----------------------------------------------------------------------------
(* The delta of two files *)

\* Cells filled before the one in row r0 and column c0.
Filled(r0, c0) == {x \in (1 .. n) \X (1 .. m) : x[1] < r0 \/ (x[1] = r0 /\ x[2] < c0)}

DeltaType ==
    /\ old \in Seq(Line) /\ new \in Seq(Line)
    /\ phase \in {"idle", "fill", "trace", "result"}
    /\ i \in Nat /\ j \in Nat
    /\ table \in [Cells -> Arrow \union {"unset"}]
    /\ diff \in Seq(DiffLine)
    /\ common \subseteq (1 .. n) \X (1 .. m)

FillInv ==
    phase = "fill" =>
        /\ i \in 1 .. n + 1 /\ j \in 1 .. m + 1
        /\ i = n + 1 => j = 1
        /\ \A x \in Filled(i, j) : table[x] \in Arrow
        /\ TiltsAreEqual
        /\ diff = <<>> /\ common = {}

TraceInv ==
    phase \in {"trace", "result"} =>
        /\ i \in 0 .. n /\ j \in 0 .. m
        /\ \A x \in (1 .. n) \X (1 .. m) : table[x] \in Arrow
        /\ TiltsAreEqual
        /\ ListedTexts /\ EveryLineOnce /\ CommonInOrder

\* The inductive invariant: what is filled is right while the table is filled,
\* and the listing is right as far as it goes while it is traced.
DeltaInv == DeltaType /\ FillInv /\ TraceInv

-----------------------------------------------------------------------------
\* A line put in front of the list.
LEMMA Prepend ==
    ASSUME NEW x \in DiffLine, NEW s \in Seq(DiffLine)
    PROVE  /\ <<x>> \o s \in Seq(DiffLine)
           /\ DOMAIN (<<x>> \o s) = 1 .. Len(s) + 1
           /\ DOMAIN s = 1 .. Len(s)
           /\ Len(s) \in Nat
           /\ (<<x>> \o s)[1] = x
           /\ \A k \in 1 .. Len(s) : (<<x>> \o s)[k + 1] = s[k]
           /\ \A k \in 1 .. Len(s) + 1 : k # 1 => k - 1 \in 1 .. Len(s)
                                          /\ (<<x>> \o s)[k] = s[k - 1]
<1>1. <<x>> \in Seq(DiffLine) /\ Len(<<x>>) = 1 /\ <<x>>[1] = x
    OBVIOUS
<1>2. /\ <<x>> \o s \in Seq(DiffLine)
      /\ Len(<<x>> \o s) = 1 + Len(s)
      /\ \A k \in 1 .. 1 + Len(s) :
            (<<x>> \o s)[k] = IF k <= 1 THEN <<x>>[k] ELSE s[k - 1]
    BY <1>1, ConcatProperties, Zenon
<1>3. Len(s) \in Nat /\ DOMAIN s = 1 .. Len(s)
    BY LenProperties
<1>4. DOMAIN (<<x>> \o s) = 1 .. Len(s) + 1
    BY <1>2, <1>3, LenProperties
<1>5. (<<x>> \o s)[1] = x
    BY <1>1, <1>2, <1>3
<1>6. \A k \in 1 .. Len(s) : (<<x>> \o s)[k + 1] = s[k]
    BY <1>2, <1>3
<1>7. \A k \in 1 .. Len(s) + 1 :
            k # 1 => k - 1 \in 1 .. Len(s) /\ (<<x>> \o s)[k] = s[k - 1]
    BY <1>2, <1>3
<1>8. QED
    BY <1>2, <1>3, <1>4, <1>5, <1>6, <1>7

\* A line of one of the files, in front of those that are listed of it.
LEMMA ListGrows ==
    ASSUME diff \in Seq(DiffLine), ListedTexts,
           NEW x \in DiffLine,
           x.text = (IF x.sign = "-" THEN old ELSE new)[x.index],
           \A y \in Listed(x.sign) : x.index < y,
           diff' = <<x>> \o diff, old' = old, new' = new
    PROVE  /\ diff' \in Seq(DiffLine)
           /\ ListedTexts'
           /\ Listed(x.sign)' = Listed(x.sign) \union {x.index}
           /\ \A s \in {"+", "-"} : s # x.sign => Listed(s)' = Listed(s)
<1> DEFINE L == Len(diff)
<1>1. /\ diff' \in Seq(DiffLine)
      /\ DOMAIN diff' = 1 .. L + 1
      /\ DOMAIN diff = 1 .. L
      /\ L \in Nat
      /\ diff'[1] = x
      /\ \A k \in 1 .. L : diff'[k + 1] = diff[k]
      /\ \A k \in 1 .. L + 1 : k # 1 => k - 1 \in 1 .. L /\ diff'[k] = diff[k - 1]
  <2>1. diff' = <<x>> \o diff /\ diff \in Seq(DiffLine) /\ x \in DiffLine
    OBVIOUS
  <2>2. QED
    BY <2>1, Prepend
<1> HIDE DEF L
<1>2. ASSUME NEW s
      PROVE  Listed(s)' = Listed(s) \union (IF s = x.sign THEN {x.index} ELSE {})
  <2>1. ASSUME NEW y \in Listed(s)'
        PROVE  y \in Listed(s) \union (IF s = x.sign THEN {x.index} ELSE {})
    <3>1. PICK k \in DOMAIN diff' : diff'[k].sign = s /\ diff'[k].index = y
        BY <2>1 DEF Listed
    <3>2. CASE k = 1
        BY <3>1, <3>2, <1>1
    <3>3. CASE k # 1
        BY <3>1, <3>3, <1>1 DEF Listed
    <3>4. QED
        BY <3>2, <3>3
  <2>2. ASSUME NEW y \in Listed(s)
        PROVE  y \in Listed(s)'
    <3>1. PICK k \in DOMAIN diff : diff[k].sign = s /\ diff[k].index = y
        BY <2>2 DEF Listed
    <3>2. k + 1 \in DOMAIN diff' /\ diff'[k + 1] = diff[k]
        BY <3>1, <1>1
    <3>3. QED
        BY <3>1, <3>2 DEF Listed
  <2>3. s = x.sign => x.index \in Listed(s)'
    <3>1. 1 \in DOMAIN diff'
        BY <1>1
    <3>2. QED
        BY <3>1, <1>1 DEF Listed
  <2>4. QED
    BY <2>1, <2>2, <2>3
<1>3. \A k \in DOMAIN diff' :
          diff'[k].text = (IF diff'[k].sign = "-" THEN old' ELSE new')[diff'[k].index]
  <2>1. SUFFICES ASSUME NEW k \in DOMAIN diff'
                 PROVE  diff'[k].text =
                            (IF diff'[k].sign = "-" THEN old ELSE new)[diff'[k].index]
    OBVIOUS
  <2>2. CASE k = 1
    BY <2>2, <1>1
  <2>3. CASE k # 1
    <3>1. k - 1 \in DOMAIN diff /\ diff'[k] = diff[k - 1]
        BY <2>1, <2>3, <1>1
    <3>2. QED
        BY <3>1 DEF ListedTexts
  <2>4. QED
    BY <2>2, <2>3
<1>4. \A k, l \in DOMAIN diff' :
          k < l /\ diff'[k].sign = diff'[l].sign => diff'[k].index < diff'[l].index
  <2>1. SUFFICES ASSUME NEW k \in DOMAIN diff', NEW l \in DOMAIN diff',
                        k < l, diff'[k].sign = diff'[l].sign
                 PROVE  diff'[k].index < diff'[l].index
    OBVIOUS
  <2>2. k \in Nat /\ l \in Nat /\ l # 1
    BY <2>1, <1>1
  <2>3. l - 1 \in DOMAIN diff /\ diff'[l] = diff[l - 1]
    BY <2>1, <2>2, <1>1
  <2>4. CASE k = 1
    <3>1. diff[l - 1].index \in Listed(x.sign)
        BY <2>1, <2>3, <2>4, <1>1 DEF Listed
    <3>2. QED
        BY <3>1, <2>3, <2>4, <1>1
  <2>5. CASE k # 1
    <3>1. k - 1 \in DOMAIN diff /\ diff'[k] = diff[k - 1] /\ k - 1 < l - 1
        BY <2>1, <2>2, <2>5, <1>1
    <3>2. QED
        BY <3>1, <2>1, <2>3 DEF ListedTexts
  <2>6. QED
    BY <2>4, <2>5
<1>5. ListedTexts'
    BY <1>3, <1>4 DEF ListedTexts
<1>6. QED
    BY <1>1, <1>2, <1>5

-----------------------------------------------------------------------------
(* The invariant *)

LEMMA InitInv == DeltaInit => DeltaInv
<1> SUFFICES ASSUME DeltaInit
             PROVE  DeltaInv
    OBVIOUS
<1>1. n = 0 /\ m = 0 /\ Cells = {<<0, 0>>}
    BY DEF DeltaInit, n, m, Cells
<1>2. DeltaType
    BY <1>1 DEF DeltaInit, DeltaType
<1>3. QED
    BY <1>2 DEF DeltaInit, DeltaInv, FillInv, TraceInv

\* Every step keeps the invariant.
LEMMA StartInv == ASSUME DeltaInv, Begin PROVE DeltaInv'
<1>1. old' \in Seq(Line) /\ new' \in Seq(Line) /\ Start(old', new')
    BY DEF Begin
<1>2. Len(old') \in Nat /\ Len(new') \in Nat
    BY <1>1, LenProperties
<1>3. \A x \in Cells' : table'[x] = "unset"
    BY <1>1 DEF Start, Cells, n, m
<1>4. DeltaType'
    BY <1>1, <1>2 DEF DeltaType, Start, Cells, n, m
<1>5. TiltsAreEqual'
    BY <1>2, <1>3 DEF TiltsAreEqual, Cells, n, m
<1>6. Filled(i, j)' = {}
    BY <1>1, <1>2 DEF Filled, Start, n, m
<1>7. FillInv'
    BY <1>1, <1>2, <1>5, <1>6 DEF FillInv, Start, n, m
<1>8. TraceInv'
    BY <1>1 DEF TraceInv, Start
<1>9. QED
    BY <1>4, <1>7, <1>8 DEF DeltaInv

LEMMA FillInvStep ==
    ASSUME DeltaInv, FillCell \/ NextRow \/ FillDone
    PROVE  DeltaInv'
<1> USE DEF DeltaInv, DeltaType
<1>1. n \in Nat /\ m \in Nat
    BY LenProperties DEF n, m
<1>2. CASE FillCell
  <2>1. /\ phase = "fill" /\ i \in 1 .. n /\ j \in 1 .. m
        /\ table' = [table EXCEPT ![<<i, j>>] = Cell.arrow]
        /\ i' = i /\ j' = j + 1 /\ phase' = "fill"
        /\ old' = old /\ new' = new /\ diff' = diff /\ common' = common
    BY <1>1, <1>2 DEF FillCell, FillInv
  <2>2. n' = n /\ m' = m /\ Cells' = Cells
    BY <2>1 DEF n, m, Cells
  <2>3. <<i, j>> \in Cells
    BY <1>1, <2>1 DEF Cells
  <2>4. Cell.arrow \in Arrow /\ (Cell.arrow = "tilt" => old[i] = new[j])
    BY DEF Cell, Arrow
  <2>5. table'[<<i, j>>] = Cell.arrow /\ \A x \in Cells : x # <<i, j>> => table'[x] = table[x]
    BY <2>1, <2>3
  <2>6. DeltaType'
    <3>1. table' \in [Cells -> Arrow \union {"unset"}]
        BY <2>1, <2>3, <2>4
    <3>2. i' \in Nat /\ j' \in Nat
        BY <1>1, <2>1
    <3>3. QED
        BY <2>1, <2>2, <3>1, <3>2
  <2>7. \A x \in Filled(i, j)' : table'[x] \in Arrow
    <3>1. SUFFICES ASSUME NEW x \in Filled(i, j)'
                   PROVE  table'[x] \in Arrow
        OBVIOUS
    <3>2. x \in Cells /\ (x = <<i, j>> \/ x \in Filled(i, j))
        BY <1>1, <2>1, <2>2 DEF Filled, Cells
    <3>3. QED
        BY <2>1, <2>4, <2>5, <3>2 DEF FillInv
  <2>8. TiltsAreEqual'
    <3>1. SUFFICES ASSUME NEW r \in 1 .. n, NEW c \in 1 .. m, table'[<<r, c>>] = "tilt"
                   PROVE  old[r] = new[c]
        BY <2>1, <2>2 DEF TiltsAreEqual
    <3>2. <<r, c>> \in Cells
        BY <1>1 DEF Cells
    <3>3. CASE <<r, c>> = <<i, j>>
        BY <2>4, <2>5, <3>1, <3>3
    <3>4. CASE <<r, c>> # <<i, j>>
        BY <2>1, <2>5, <3>1, <3>2, <3>4 DEF FillInv, TiltsAreEqual
    <3>5. QED
        BY <3>3, <3>4
  <2>9. FillInv'
    BY <1>1, <2>1, <2>2, <2>7, <2>8 DEF FillInv
  <2>10. QED
    BY <2>1, <2>6, <2>9 DEF TraceInv
<1>3. CASE NextRow
  <2>1. /\ phase = "fill" /\ i \in 1 .. n /\ j = m + 1
        /\ i' = i + 1 /\ j' = 1 /\ phase' = "fill"
        /\ UNCHANGED <<old, new, table, diff, common>>
    BY <1>1, <1>3 DEF NextRow, FillInv
  <2>2. n' = n /\ m' = m /\ Cells' = Cells
    BY <2>1 DEF n, m, Cells
  <2>3. DeltaType'
    BY <1>1, <2>1, <2>2
  <2>4. Filled(i, j)' = Filled(i, j)
    BY <1>1, <2>1, <2>2 DEF Filled
  <2>5. TiltsAreEqual'
    BY <2>1, <2>2 DEF FillInv, TiltsAreEqual
  <2>6. FillInv'
    BY <1>1, <2>1, <2>2, <2>4, <2>5 DEF FillInv
  <2>7. QED
    BY <2>1, <2>3, <2>6 DEF TraceInv
<1>4. CASE FillDone
  <2>1. /\ phase = "fill" /\ i = n + 1 /\ j = 1
        /\ i' = n /\ j' = m /\ phase' = "trace"
        /\ UNCHANGED <<old, new, table, diff, common>>
    BY <1>1, <1>4 DEF FillDone, FillInv
  <2>2. n' = n /\ m' = m /\ Cells' = Cells
    BY <2>1 DEF n, m, Cells
  <2>3. DeltaType'
    BY <1>1, <2>1, <2>2
  <2>4. (1 .. n) \X (1 .. m) = Filled(i, j)
    BY <1>1, <2>1 DEF Filled
  <2>5. TiltsAreEqual'
    BY <2>1, <2>2 DEF FillInv, TiltsAreEqual
  <2>6. diff = <<>> /\ common = {} /\ DOMAIN diff = {}
    BY <2>1 DEF FillInv
  <2>7. ListedTexts' /\ CommonInOrder'
    BY <2>1, <2>6 DEF ListedTexts, CommonInOrder, InOrder
  <2>8. EveryLineOnce'
    BY <1>1, <2>1, <2>2, <2>6 DEF EveryLineOnce, Listed
  <2>9. TraceInv'
    BY <1>1, <2>1, <2>2, <2>4, <2>5, <2>7, <2>8 DEF TraceInv, FillInv
  <2>10. QED
    BY <2>1, <2>3, <2>9 DEF FillInv
<1>5. QED
    BY <1>2, <1>3, <1>4

LEMMA TraceInvStep ==
    ASSUME DeltaInv, TraceUp \/ TraceLeft \/ TraceTilt \/ TraceDone
    PROVE  DeltaInv'
<1> USE DEF DeltaInv, DeltaType
<1>1. n \in Nat /\ m \in Nat /\ DOMAIN old = 1 .. n /\ DOMAIN new = 1 .. m
    BY LenProperties DEF n, m
<1>2. phase = "trace" /\ TraceInv
    BY DEF TraceUp, TraceLeft, TraceTilt, TraceDone, Tracing
<1>3. i \in 0 .. n /\ j \in 0 .. m /\ ListedTexts /\ EveryLineOnce /\ CommonInOrder
    BY <1>2 DEF TraceInv
<1>4. UNCHANGED <<old, new, table>> /\ n' = n /\ m' = m /\ Cells' = Cells
    BY DEF TraceUp, TraceLeft, TraceTilt, TraceDone, n, m, Cells
<1>5. /\ TiltsAreEqual'
      /\ \A x \in (1 .. n) \X (1 .. m) : table'[x] \in Arrow
    BY <1>2, <1>4 DEF TraceInv, TiltsAreEqual
<1>6. CASE TraceUp
  <2> DEFINE x == [sign |-> "-", index |-> i, text |-> old[i]]
  <2>1. /\ i \in 1 .. n /\ i' = i - 1 /\ j' = j /\ phase' = "trace"
        /\ diff' = <<x>> \o diff /\ common' = common
    BY <1>1, <1>2, <1>3, <1>6 DEF TraceUp, Tracing
  <2>2. x \in DiffLine
    BY <1>1, <2>1 DEF DiffLine
  <2>3. \A y \in Listed("-") : i < y
    BY <1>1, <1>3 DEF EveryLineOnce
  <2>4. x.sign = "-" /\ x.index = i /\ x.text = old[i]
    OBVIOUS
  <2> HIDE DEF x
  <2>5. /\ diff' \in Seq(DiffLine)
        /\ ListedTexts'
        /\ Listed("-")' = Listed("-") \union {i}
        /\ Listed("+")' = Listed("+")
    BY <1>3, <1>4, <2>1, <2>2, <2>3, <2>4, ListGrows
  <2>6. EveryLineOnce'
    <3>1. i \notin {p[1] : p \in common}
        BY <1>1, <1>3, <2>1 DEF EveryLineOnce
    <3>2. (i' + 1) .. n = ((i + 1) .. n) \union {i}
        BY <1>1, <2>1
    <3>3. QED
        BY <1>3, <1>4, <2>1, <2>5, <3>1, <3>2 DEF EveryLineOnce
  <2>7. CommonInOrder'
    BY <1>3, <1>4, <2>1 DEF CommonInOrder, InOrder
  <2>8. i' \in 0 .. n' /\ j' \in 0 .. m' /\ i' \in Nat /\ j' \in Nat
    BY <1>1, <1>3, <1>4, <2>1
  <2>9. QED
    BY <1>4, <1>5, <2>1, <2>5, <2>6, <2>7, <2>8 DEF TraceInv, FillInv
<1>7. CASE TraceLeft
  <2> DEFINE x == [sign |-> "+", index |-> j, text |-> new[j]]
  <2>1. /\ j \in 1 .. m /\ j' = j - 1 /\ i' = i /\ phase' = "trace"
        /\ diff' = <<x>> \o diff /\ common' = common
    BY <1>1, <1>2, <1>3, <1>7 DEF TraceLeft, Tracing
  <2>2. x \in DiffLine
    BY <1>1, <2>1 DEF DiffLine
  <2>3. \A y \in Listed("+") : j < y
    BY <1>1, <1>3 DEF EveryLineOnce
  <2>4. x.sign = "+" /\ x.index = j /\ x.text = new[j]
    OBVIOUS
  <2> HIDE DEF x
  <2>5. /\ diff' \in Seq(DiffLine)
        /\ ListedTexts'
        /\ Listed("+")' = Listed("+") \union {j}
        /\ Listed("-")' = Listed("-")
    BY <1>3, <1>4, <2>1, <2>2, <2>3, <2>4, ListGrows
  <2>6. EveryLineOnce'
    <3>1. j \notin {p[2] : p \in common}
        BY <1>1, <1>3, <2>1 DEF EveryLineOnce
    <3>2. (j' + 1) .. m = ((j + 1) .. m) \union {j}
        BY <1>1, <2>1
    <3>3. QED
        BY <1>3, <1>4, <2>1, <2>5, <3>1, <3>2 DEF EveryLineOnce
  <2>7. CommonInOrder'
    BY <1>3, <1>4, <2>1 DEF CommonInOrder, InOrder
  <2>8. i' \in 0 .. n' /\ j' \in 0 .. m' /\ i' \in Nat /\ j' \in Nat
    BY <1>1, <1>3, <1>4, <2>1
  <2>9. QED
    BY <1>4, <1>5, <2>1, <2>5, <2>6, <2>7, <2>8 DEF TraceInv, FillInv
<1>8. CASE TraceTilt
  <2>1. /\ i \in 1 .. n /\ i' = i - 1 /\ j \in 1 .. m /\ j' = j - 1 /\ phase' = "trace"
        /\ table[<<i, j>>] = "tilt"
        /\ diff' = diff /\ common' = common \union {<<i, j>>}
    BY <1>1, <1>2, <1>3, <1>8 DEF TraceTilt, Tracing
  <2>2. common' \subseteq (1 .. n) \X (1 .. m)
    BY <2>1
  <2>3. ListedTexts' /\ Listed("-")' = Listed("-") /\ Listed("+")' = Listed("+")
    BY <1>3, <1>4, <2>1 DEF ListedTexts, Listed
  <2>4. \A p \in common : i < p[1] /\ j < p[2] /\ p[1] \in Nat /\ p[2] \in Nat
    <3>1. SUFFICES ASSUME NEW p \in common
                   PROVE  i < p[1] /\ j < p[2] /\ p[1] \in Nat /\ p[2] \in Nat
        OBVIOUS
    <3>2. p[1] \in (i + 1) .. n /\ p[2] \in (j + 1) .. m
        BY <1>3 DEF EveryLineOnce
    <3>3. QED
        BY <1>1, <1>3, <3>2
  <2>5. /\ {p[1] : p \in common'} = {p[1] : p \in common} \union {i}
        /\ {p[2] : p \in common'} = {p[2] : p \in common} \union {j}
    BY <2>1
  <2>6. i \notin Listed("-") /\ j \notin Listed("+")
    BY <1>1, <1>3 DEF EveryLineOnce
  <2>7. /\ (i' + 1) .. n = ((i + 1) .. n) \union {i}
        /\ (j' + 1) .. m = ((j + 1) .. m) \union {j}
    BY <1>1, <2>1
  <2>8. EveryLineOnce'
    <3> DEFINE O == {p[1] : p \in common}
               A == {p[2] : p \in common}
               O1 == {p[1] : p \in common'}
               A1 == {p[2] : p \in common'}
               D == Listed("-")
               I == Listed("+")
    <3>1. /\ D \intersect O = {} /\ D \union O = (i + 1) .. n /\ i \notin D
          /\ I \intersect A = {} /\ I \union A = (j + 1) .. m /\ j \notin I
        BY <1>3, <2>6 DEF EveryLineOnce
    <3>2. O1 = O \union {i} /\ A1 = A \union {j}
        BY <2>5
    <3>3. /\ (i' + 1) .. n = ((i + 1) .. n) \union {i}
          /\ (j' + 1) .. m = ((j + 1) .. m) \union {j}
        BY <2>7
    <3>4. EveryLineOnce' <=>
              /\ D \intersect O1 = {} /\ D \union O1 = (i' + 1) .. n
              /\ I \intersect A1 = {} /\ I \union A1 = (j' + 1) .. m
        BY <1>4, <2>3 DEF EveryLineOnce
    <3> HIDE DEF O, A, O1, A1, D, I
    <3>5. QED
        BY <3>1, <3>2, <3>3, <3>4
  <2>9. old[i] = new[j]
    BY <1>2, <2>1 DEF TraceInv, TiltsAreEqual
  <2>10. \A p \in common' : old[p[1]] = new[p[2]]
    BY <1>3, <2>1, <2>9 DEF CommonInOrder, InOrder
  <2>11. \A p, q \in common' : p[1] < q[1] <=> p[2] < q[2]
    <3>1. SUFFICES ASSUME NEW p \in common', NEW q \in common'
                   PROVE  p[1] < q[1] <=> p[2] < q[2]
        OBVIOUS
    <3>2. CASE p \in common /\ q \in common
        BY <1>3, <3>2 DEF CommonInOrder, InOrder
    <3>3. CASE p = <<i, j>> /\ q \in common
        BY <2>1, <2>4, <3>3
    <3>4. CASE p \in common /\ q = <<i, j>>
        BY <1>1, <2>1, <2>4, <3>4
    <3>5. CASE p = <<i, j>> /\ q = <<i, j>>
        BY <1>1, <2>1, <3>5
    <3>6. QED
        BY <2>1, <3>2, <3>3, <3>4, <3>5
  <2>12. CommonInOrder'
    BY <1>4, <2>10, <2>11 DEF CommonInOrder, InOrder
  <2>13. i' \in 0 .. n' /\ j' \in 0 .. m' /\ i' \in Nat /\ j' \in Nat
    BY <1>1, <1>4, <2>1
  <2>14. QED
    BY <1>4, <1>5, <2>1, <2>2, <2>3, <2>8, <2>12, <2>13 DEF TraceInv, FillInv
<1>9. CASE TraceDone
  <2>1. phase' = "result" /\ UNCHANGED <<i, j, diff, common>>
    BY <1>9 DEF TraceDone
  <2>2. ListedTexts' /\ EveryLineOnce' /\ CommonInOrder'
    <3>1. Listed("-")' = Listed("-") /\ Listed("+")' = Listed("+")
        BY <2>1 DEF Listed
    <3>2. ListedTexts' /\ CommonInOrder'
        BY <1>3, <1>4, <2>1 DEF ListedTexts, CommonInOrder, InOrder
    <3>3. EveryLineOnce'
        BY <1>3, <1>4, <2>1, <3>1 DEF EveryLineOnce
    <3>4. QED
        BY <3>2, <3>3
  <2>3. QED
    BY <1>3, <1>4, <1>5, <2>1, <2>2 DEF TraceInv, FillInv
<1>10. QED
    BY <1>6, <1>7, <1>8, <1>9

LEMMA ReleaseInv == ASSUME DeltaInv, Release PROVE DeltaInv'
<1>1. n' = 0 /\ m' = 0 /\ Cells' = {<<0, 0>>}
    BY DEF Release, n, m, Cells
<1>2. DeltaType'
    BY <1>1 DEF Release, DeltaType
<1>3. QED
    BY <1>2 DEF Release, DeltaInv, FillInv, TraceInv

LEMMA StepInv == ASSUME DeltaInv, [DeltaNext]_delta PROVE DeltaInv'
<1>1. CASE UNCHANGED delta
  <2>1. UNCHANGED <<old, new, phase, i, j, table, diff, common>>
    BY <1>1 DEF delta
  <2>2. /\ n' = n /\ m' = m /\ Cells' = Cells /\ Filled(i, j)' = Filled(i, j)
        /\ Listed("-")' = Listed("-") /\ Listed("+")' = Listed("+")
    BY <2>1 DEF n, m, Cells, Filled, Listed
  <2>3. DeltaType'
    BY <2>1, <2>2 DEF DeltaInv, DeltaType
  <2>4. TiltsAreEqual' = TiltsAreEqual
    BY <2>1, <2>2 DEF TiltsAreEqual
  <2>5. ListedTexts' = ListedTexts /\ CommonInOrder' = CommonInOrder
    BY <2>1 DEF ListedTexts, CommonInOrder, InOrder
  <2>6. EveryLineOnce' = EveryLineOnce
    BY <2>1, <2>2 DEF EveryLineOnce
  <2>7. FillInv'
    BY <2>1, <2>2, <2>4 DEF DeltaInv, FillInv
  <2>8. TraceInv'
    BY <2>1, <2>2, <2>4, <2>5, <2>6 DEF DeltaInv, TraceInv
  <2>9. QED
    BY <2>3, <2>7, <2>8 DEF DeltaInv
<1>2. CASE DeltaNext
    BY <1>2, StartInv, FillInvStep, TraceInvStep, ReleaseInv DEF DeltaNext, Compute
<1>3. QED
    BY <1>1, <1>2

\* The table is written up to the current cell, and what the trace has passed
\* was listed or is common, once and in order (delta_basic_comparison_m).
THEOREM DeltaInvariant == DeltaSpec => []DeltaInv
<1>1. QED
    BY InitInv, StepInv, PTL DEF DeltaSpec

\* The trace reads no arrow that was not written and stays in the table, for
\* files of any length.
THEOREM TraceReadsWritten == DeltaSpec => []ReadsWrittenCells
<1>1. DeltaInv => ReadsWrittenCells
  <2>1. SUFFICES ASSUME DeltaInv, phase = "trace"
                 PROVE  /\ i \in 0 .. n /\ j \in 0 .. m
                        /\ Tracing => table[<<i, j>>] \in Arrow
    BY DEF ReadsWrittenCells
  <2>2. n \in Nat /\ m \in Nat
    BY <2>1, LenProperties DEF DeltaInv, DeltaType, n, m
  <2>3. QED
    BY <2>1, <2>2 DEF DeltaInv, TraceInv, Tracing
<1>2. QED
    BY <1>1, DeltaInvariant, PTL

\* What the comparison lists turns the end of the old file into that of the
\* new one, for files of any length.
THEOREM ListingIsEditScript == DeltaSpec => []EditScript
<1>1. DeltaInv => EditScript
    BY DEF DeltaInv, TraceInv, EditScript
<1>2. QED
    BY <1>1, DeltaInvariant, PTL

-----------------------------------------------------------------------------
(***************************************************************************)
(* Longest common subsequences.  One of the first a lines of o and the     *)
(* first b lines of w is a set of pairs of positions.                      *)
(***************************************************************************)
CommonUpTo(o, w, a, b) ==
    {P \in SUBSET ((1 .. a) \X (1 .. b)) : (\A p \in P : o[p[1]] = w[p[2]]) /\ InOrder(P)}

Longest(o, w, a, b, k) ==
    /\ k \in Nat
    /\ \E P \in CommonUpTo(o, w, a, b) : Cardinality(P) = k
    /\ \A P \in CommonUpTo(o, w, a, b) : Cardinality(P) <= k

\* They are finite.
LEMMA CommonFinite ==
    ASSUME NEW o, NEW w, NEW a \in Nat, NEW b \in Nat, NEW P \in CommonUpTo(o, w, a, b)
    PROVE  IsFiniteSet(P) /\ Cardinality(P) \in Nat
<1>1. IsFiniteSet(1 .. a) /\ IsFiniteSet(1 .. b)
    BY FS_Interval
<1>2. IsFiniteSet((1 .. a) \X (1 .. b))
    BY <1>1, FS_Product
<1>3. P \in SUBSET ((1 .. a) \X (1 .. b))
    BY DEF CommonUpTo
<1>4. IsFiniteSet(P)
    BY <1>2, <1>3, FS_Subset
<1>5. QED
    BY <1>4, FS_CardinalityType

\* Only one pair of a common subsequence has the last line of either file.
LEMMA OneAtTheEnd ==
    ASSUME NEW o, NEW w, NEW a \in Nat, NEW b \in Nat, NEW P \in CommonUpTo(o, w, a, b),
           NEW p \in P, NEW q \in P, p[1] = a \/ p[2] = b, q[1] = a \/ q[2] = b
    PROVE  p = q
<1>1. /\ p \in (1 .. a) \X (1 .. b) /\ q \in (1 .. a) \X (1 .. b)
      /\ p[1] < q[1] <=> p[2] < q[2]
      /\ q[1] < p[1] <=> q[2] < p[2]
    BY DEF CommonUpTo, InOrder
<1>2. p[1] = q[1] /\ p[2] = q[2]
    BY <1>1
<1>3. QED
    BY <1>1, <1>2

\* Without it, a common subsequence is one of the lines before.
LEMMA WithoutTheEnd ==
    ASSUME NEW o, NEW w, NEW a \in Nat \ {0}, NEW b \in Nat \ {0},
           NEW P \in CommonUpTo(o, w, a, b), NEW p \in P, p[1] = a \/ p[2] = b
    PROVE  /\ P \ {p} \in CommonUpTo(o, w, a - 1, b - 1)
           /\ Cardinality(P) = Cardinality(P \ {p}) + 1
<1>1. \A q \in P \ {p} : q \in (1 .. a - 1) \X (1 .. b - 1)
  <2>1. SUFFICES ASSUME NEW q \in P \ {p}
                 PROVE  q \in (1 .. a - 1) \X (1 .. b - 1)
    OBVIOUS
  <2>2. q[1] # a /\ q[2] # b
    BY OneAtTheEnd
  <2>3. q \in (1 .. a) \X (1 .. b)
    BY DEF CommonUpTo
  <2>4. QED
    BY <2>2, <2>3
<1>2. (\A q \in P \ {p} : o[q[1]] = w[q[2]]) /\ InOrder(P \ {p})
    BY DEF CommonUpTo, InOrder
<1>3. P \ {p} \in CommonUpTo(o, w, a - 1, b - 1)
    BY <1>1, <1>2 DEF CommonUpTo
<1>4. IsFiniteSet(P) /\ Cardinality(P) \in Nat
    BY CommonFinite
<1>5. Cardinality(P \ {p}) = Cardinality(P) - 1
    BY <1>4, FS_RemoveElement
<1>6. QED
    BY <1>3, <1>4, <1>5

\* With it, it is at most one line longer.
LEMMA OneMore ==
    ASSUME NEW o, NEW w, NEW a \in Nat \ {0}, NEW b \in Nat \ {0}, NEW k,
           Longest(o, w, a - 1, b - 1, k),
           NEW P \in CommonUpTo(o, w, a, b), NEW p \in P, p[1] = a \/ p[2] = b
    PROVE  Cardinality(P) \in Nat /\ Cardinality(P) <= k + 1
<1> DEFINE Q == P \ {p}
<1>1. Q \in CommonUpTo(o, w, a - 1, b - 1) /\ Cardinality(P) = Cardinality(Q) + 1
    BY WithoutTheEnd
<1> HIDE DEF Q
<1>2. Cardinality(Q) \in Nat
  <2>1. a - 1 \in Nat /\ b - 1 \in Nat
    OBVIOUS
  <2>2. QED
    BY <1>1, <2>1, CommonFinite
<1>3. Cardinality(Q) <= k /\ k \in Nat
    BY <1>1 DEF Longest
<1>4. QED
    BY <1>1, <1>2, <1>3

\* One that does not have the last line of a file is one without that line.
LEMMA NotAtTheEnd ==
    ASSUME NEW o, NEW w, NEW a \in Nat \ {0}, NEW b \in Nat \ {0},
           NEW P \in CommonUpTo(o, w, a, b)
    PROVE  /\ (\A p \in P : p[1] # a) => P \in CommonUpTo(o, w, a - 1, b)
           /\ (\A p \in P : p[2] # b) => P \in CommonUpTo(o, w, a, b - 1)
<1>1. P \subseteq (1 .. a) \X (1 .. b) /\ (\A p \in P : o[p[1]] = w[p[2]]) /\ InOrder(P)
    BY DEF CommonUpTo
<1>2. ASSUME \A p \in P : p[1] # a
      PROVE  P \subseteq (1 .. a - 1) \X (1 .. b)
    BY <1>1, <1>2
<1>3. ASSUME \A p \in P : p[2] # b
      PROVE  P \subseteq (1 .. a) \X (1 .. b - 1)
    BY <1>1, <1>3
<1>4. QED
    BY <1>1, <1>2, <1>3 DEF CommonUpTo

\* More lines have the common subsequences of fewer.
LEMMA MoreLines ==
    ASSUME NEW o, NEW w, NEW a \in Nat, NEW b \in Nat, NEW c \in Nat, NEW d \in Nat,
           a <= c, b <= d
    PROVE  CommonUpTo(o, w, a, b) \subseteq CommonUpTo(o, w, c, d)
<1>1. (1 .. a) \X (1 .. b) \subseteq (1 .. c) \X (1 .. d)
    OBVIOUS
<1>2. QED
    BY <1>1 DEF CommonUpTo

\* There is one greatest length.
LEMMA LongestIsOne ==
    ASSUME NEW o, NEW w, NEW a, NEW b, NEW k, NEW l,
           Longest(o, w, a, b, k), Longest(o, w, a, b, l)
    PROVE  k = l
BY DEF Longest

\* Of no lines it is zero.
LEMMA LongestOfNone ==
    ASSUME NEW o, NEW w, NEW a \in Nat, NEW b \in Nat, a = 0 \/ b = 0
    PROVE  Longest(o, w, a, b, 0)
<1>1. (1 .. a) \X (1 .. b) = {}
    OBVIOUS
<1>2. {} \in CommonUpTo(o, w, a, b) /\ \A P \in CommonUpTo(o, w, a, b) : P = {}
    BY <1>1 DEF CommonUpTo, InOrder
<1>3. QED
    BY <1>2, FS_EmptySet DEF Longest

\* Two equal lines at the end belong to a longest common subsequence.
LEMMA LongestTilt ==
    ASSUME NEW o, NEW w, NEW a \in Nat \ {0}, NEW b \in Nat \ {0}, NEW k,
           o[a] = w[b], Longest(o, w, a - 1, b - 1, k)
    PROVE  Longest(o, w, a, b, k + 1)
<1>1. a - 1 \in Nat /\ b - 1 \in Nat /\ k \in Nat
    BY DEF Longest
<1>2. \E P \in CommonUpTo(o, w, a, b) : Cardinality(P) = k + 1
  <2>1. PICK P \in CommonUpTo(o, w, a - 1, b - 1) : Cardinality(P) = k
    BY DEF Longest
  <2>2. /\ P \subseteq (1 .. a - 1) \X (1 .. b - 1)
        /\ \A p \in P : o[p[1]] = w[p[2]]
        /\ \A p, q \in P : p[1] < q[1] <=> p[2] < q[2]
    BY DEF CommonUpTo, InOrder
  <2> DEFINE Q == P \union {<<a, b>>}
  <2>3. Q \subseteq (1 .. a) \X (1 .. b)
    BY <2>2
  <2>4. \A p \in Q : o[p[1]] = w[p[2]]
    BY <2>2
  <2>5. InOrder(Q)
    <3>1. \A p \in P : p[1] \in Nat /\ p[2] \in Nat /\ p[1] < a /\ p[2] < b
        BY <2>2
    <3>2. SUFFICES ASSUME NEW p \in Q, NEW q \in Q
                   PROVE  p[1] < q[1] <=> p[2] < q[2]
        BY DEF InOrder
    <3>3. CASE p \in P /\ q \in P
        BY <2>2, <3>3
    <3>4. CASE p \in P /\ q = <<a, b>>
        BY <3>1, <3>4
    <3>5. CASE p = <<a, b>> /\ q \in P
        BY <3>1, <3>5
    <3>6. CASE p = <<a, b>> /\ q = <<a, b>>
        BY <3>6
    <3>7. QED
        BY <3>3, <3>4, <3>5, <3>6
  <2>6. Q \in CommonUpTo(o, w, a, b)
    BY <2>3, <2>4, <2>5 DEF CommonUpTo
  <2>7. IsFiniteSet(P) /\ <<a, b>> \notin P
    BY <1>1, <2>2, CommonFinite
  <2>8. Cardinality(Q) = k + 1
    BY <2>1, <2>7, FS_AddElement
  <2>9. QED
    BY <2>6, <2>8
<1>3. ASSUME NEW P \in CommonUpTo(o, w, a, b)
      PROVE  Cardinality(P) <= k + 1
  <2>1. CASE \E p \in P : p[1] = a \/ p[2] = b
    <3>1. PICK p \in P : p[1] = a \/ p[2] = b
        BY <2>1
    <3>2. QED
        BY <3>1, OneMore
  <2>2. CASE \A p \in P : p[1] # a /\ p[2] # b
    <3>1. P \subseteq (1 .. a - 1) \X (1 .. b - 1)
        BY <2>2 DEF CommonUpTo
    <3>2. P \in CommonUpTo(o, w, a - 1, b - 1)
        BY <3>1 DEF CommonUpTo
    <3>3. QED
        BY <1>1, <3>2, CommonFinite DEF Longest
  <2>3. QED
    BY <2>1, <2>2
<1>4. QED
    BY <1>1, <1>2, <1>3 DEF Longest

\* The length to the left, if it is greater than the one diagonally above.
LEMMA LongestLeft ==
    ASSUME NEW o, NEW w, NEW a \in Nat \ {0}, NEW b \in Nat \ {0}, NEW k, NEW s,
           o[a] # w[b], Longest(o, w, a - 1, b - 1, k), Longest(o, w, a, b - 1, s), k < s
    PROVE  Longest(o, w, a, b, s)
<1>1. a - 1 \in Nat /\ b - 1 \in Nat /\ k \in Nat /\ s \in Nat
    BY DEF Longest
<1>2. \E P \in CommonUpTo(o, w, a, b) : Cardinality(P) = s
  <2>1. CommonUpTo(o, w, a, b - 1) \subseteq CommonUpTo(o, w, a, b)
    BY <1>1, MoreLines
  <2>2. QED
    BY <2>1 DEF Longest
<1>3. ASSUME NEW P \in CommonUpTo(o, w, a, b)
      PROVE  Cardinality(P) <= s
  <2>1. CASE \E p \in P : p[2] = b
    <3>1. PICK p \in P : p[1] = a \/ p[2] = b
        BY <2>1
    <3>2. Cardinality(P) \in Nat /\ Cardinality(P) <= k + 1
        BY <3>1, OneMore
    <3>3. QED
        BY <1>1, <3>2
  <2>2. CASE \A p \in P : p[2] # b
    BY <2>2, NotAtTheEnd DEF Longest
  <2>3. QED
    BY <2>1, <2>2
<1>4. QED
    BY <1>1, <1>2, <1>3 DEF Longest

\* The length above, if the one to the left is not greater than the one
\* diagonally above.
LEMMA LongestUp ==
    ASSUME NEW o, NEW w, NEW a \in Nat \ {0}, NEW b \in Nat \ {0}, NEW k, NEW s, NEW u,
           o[a] # w[b], Longest(o, w, a - 1, b - 1, k), Longest(o, w, a, b - 1, s),
           Longest(o, w, a - 1, b, u), ~(k < s)
    PROVE  Longest(o, w, a, b, u)
<1>1. a - 1 \in Nat /\ b - 1 \in Nat /\ k \in Nat /\ s \in Nat /\ u \in Nat
    BY DEF Longest
<1>2. \E P \in CommonUpTo(o, w, a, b) : Cardinality(P) = u
  <2>1. CommonUpTo(o, w, a - 1, b) \subseteq CommonUpTo(o, w, a, b)
    BY <1>1, MoreLines
  <2>2. QED
    BY <2>1 DEF Longest
<1>3. k <= u
  <2>1. CommonUpTo(o, w, a - 1, b - 1) \subseteq CommonUpTo(o, w, a - 1, b)
    BY <1>1, MoreLines
  <2>2. QED
    BY <2>1 DEF Longest
<1>4. ASSUME NEW P \in CommonUpTo(o, w, a, b)
      PROVE  Cardinality(P) <= u
  <2>1. CASE \E p \in P : p[1] = a
    <3>1. PICK p \in P : p[1] = a
        BY <2>1
    <3>2. \A q \in P : q[2] # b
      <4>1. SUFFICES ASSUME NEW q \in P, q[2] = b
                     PROVE  FALSE
        OBVIOUS
      <4>2. p = q
        BY <3>1, <4>1, OneAtTheEnd
      <4>3. QED
        BY <3>1, <4>1, <4>2 DEF CommonUpTo
    <3>3. P \in CommonUpTo(o, w, a, b - 1)
        BY <3>2, NotAtTheEnd
    <3>4. Cardinality(P) <= s /\ Cardinality(P) \in Nat
        BY <3>3, CommonFinite DEF Longest
    <3>5. QED
        BY <1>1, <1>3, <3>4
  <2>2. CASE \A p \in P : p[1] # a
    BY <2>2, NotAtTheEnd DEF Longest
  <2>3. QED
    BY <2>1, <2>2
<1>5. QED
    BY <1>1, <1>2, <1>4 DEF Longest

-----------------------------------------------------------------------------
(* The lengths *)

\* An arrow leads to the lengths that its cell was made from.
ArrowFits(o, w, arrow, r, c) ==
    /\ arrow = "up" => \E k : Longest(o, w, r, c, k) /\ Longest(o, w, r - 1, c, k)
    /\ arrow = "left" => \E k : Longest(o, w, r, c, k) /\ Longest(o, w, r, c - 1, k)
    /\ arrow = "tilt" => \E k : Longest(o, w, r, c, k + 1) /\ Longest(o, w, r - 1, c - 1, k)

LengthType ==
    /\ prev \in Nat /\ sol \in Nat
    /\ vsol \in [0 .. m -> Nat] /\ vprev = vsol

\* Of the row in which a cell is filled, the cells before it are known, and
\* of the row above that one and those after it.
RowLengths ==
    /\ Longest(old, new, i - 1, j - 1, prev)
    /\ Longest(old, new, i, j - 1, sol)
    /\ \A c \in 1 .. m :
            Longest(old, new, IF c < j THEN i ELSE i - 1, c, vsol[c])
    /\ vsol[0] = 0

\* What was found common and what may still be found are as many as any
\* common subsequence has.
LengthInv ==
    /\ LengthType
    /\ phase = "fill" =>
            /\ RowLengths
            /\ \A x \in Filled(i, j) : ArrowFits(old, new, table[x], x[1], x[2])
    /\ phase \in {"trace", "result"} =>
            /\ \A x \in (1 .. n) \X (1 .. m) : ArrowFits(old, new, table[x], x[1], x[2])
            /\ Longest(old, new, n, m, vsol[m])
            /\ \E k : /\ Longest(old, new, i, j, k)
                      /\ Longest(old, new, n, m, k + Cardinality(common))
    /\ phase = "result" => i = 0 \/ j = 0

LEMMA LengthInit == DeltaInit => LengthInv
BY DEF DeltaInit, LengthInv, LengthType, m

LEMMA LengthStart == ASSUME Begin PROVE LengthInv'
<1>1. old' \in Seq(Line) /\ new' \in Seq(Line) /\ Start(old', new')
    BY DEF Begin
<1>2. n' \in Nat /\ m' \in Nat /\ m' = Len(new')
    BY <1>1, LenProperties DEF n, m
<1>3. /\ i' = 1 /\ j' = 1 /\ prev' = 0 /\ sol' = 0 /\ phase' = "fill"
      /\ vsol' = [c \in 0 .. m' |-> 0] /\ vprev' = vsol'
    BY <1>1, <1>2 DEF Start
<1>4. LengthType'
    BY <1>2, <1>3 DEF LengthType
<1>5. Longest(old', new', 0, 0, 0) /\ Longest(old', new', 1, 0, 0)
    BY LongestOfNone
<1>6. \A c \in 1 .. m' : Longest(old', new', 0, c, 0)
    BY <1>2, LongestOfNone
<1>7. RowLengths'
    BY <1>2, <1>3, <1>5, <1>6 DEF RowLengths
<1>8. Filled(i, j)' = {}
    BY <1>2, <1>3 DEF Filled
<1>9. QED
    BY <1>3, <1>4, <1>7, <1>8 DEF LengthInv

\* The length and the arrow of a cell are right.
LEMMA CellFits ==
    ASSUME DeltaInv, LengthInv, FillCell
    PROVE  /\ Longest(old, new, i, j, Cell.len)
           /\ ArrowFits(old, new, Cell.arrow, i, j)
<1>1. n \in Nat /\ m \in Nat
    BY LenProperties DEF n, m, DeltaInv, DeltaType
<1>2. phase = "fill" /\ i \in 1 .. n /\ j \in 1 .. m
    BY <1>1 DEF FillCell, DeltaInv, FillInv
<1>3. i \in Nat \ {0} /\ j \in Nat \ {0}
    BY <1>1, <1>2
<1>4. /\ Longest(old, new, i - 1, j - 1, prev)
      /\ Longest(old, new, i, j - 1, sol)
      /\ Longest(old, new, i - 1, j, vsol[j])
      /\ vprev = vsol
    BY <1>1, <1>2 DEF LengthInv, LengthType, RowLengths
<1>5. CASE old[i] = new[j]
  <2>1. Longest(old, new, i, j, prev + 1)
    BY <1>3, <1>4, <1>5, LongestTilt
  <2>2. Cell.len = prev + 1 /\ Cell.arrow = "tilt"
    BY <1>5 DEF Cell
  <2>3. QED
    BY <1>4, <2>1, <2>2 DEF ArrowFits
<1>6. CASE old[i] # new[j] /\ prev < sol
  <2>1. Longest(old, new, i, j, sol)
    BY <1>3, <1>4, <1>6, LongestLeft
  <2>2. Cell.len = sol /\ Cell.arrow = "left"
    BY <1>6 DEF Cell
  <2>3. QED
    BY <1>4, <2>1, <2>2 DEF ArrowFits
<1>7. CASE old[i] # new[j] /\ ~(prev < sol)
  <2>1. Longest(old, new, i, j, vsol[j])
    BY <1>3, <1>4, <1>7, LongestUp
  <2>2. Cell.len = vsol[j] /\ Cell.arrow = "up"
    BY <1>4, <1>7 DEF Cell
  <2>3. QED
    BY <1>4, <2>1, <2>2 DEF ArrowFits
<1>8. QED
    BY <1>5, <1>6, <1>7

LEMMA LengthFill ==
    ASSUME DeltaInv, LengthInv, FillCell \/ NextRow \/ FillDone
    PROVE  LengthInv'
<1>1. n \in Nat /\ m \in Nat
    BY LenProperties DEF n, m, DeltaInv, DeltaType
<1>2. /\ phase = "fill" /\ i \in 1 .. n + 1 /\ j \in 1 .. m + 1
      /\ i = n + 1 => j = 1
    BY DEF FillCell, NextRow, FillDone, DeltaInv, FillInv
<1>3. LengthType /\ RowLengths
    BY <1>2 DEF LengthInv
<1>4. \A x \in Filled(i, j) : ArrowFits(old, new, table[x], x[1], x[2])
    BY <1>2 DEF LengthInv
<1>5. UNCHANGED <<old, new>> /\ n' = n /\ m' = m
    BY DEF FillCell, NextRow, FillDone, n, m
<1>6. CASE FillCell
  <2> DEFINE len == Cell.len
             arrow == Cell.arrow
  <2>1. /\ i \in 1 .. n /\ j \in 1 .. m
        /\ vsol' = [vsol EXCEPT ![j] = len] /\ vprev' = [vprev EXCEPT ![j] = len]
        /\ table' = [table EXCEPT ![<<i, j>>] = arrow]
        /\ prev' = vprev[j] /\ sol' = len
        /\ i' = i /\ j' = j + 1 /\ phase' = "fill"
    BY <1>1, <1>2, <1>6 DEF FillCell
  <2>2. Longest(old, new, i, j, len) /\ ArrowFits(old, new, arrow, i, j)
    BY <1>6, CellFits
  <2> HIDE DEF len, arrow
  <2>3. len \in Nat
    BY <2>2 DEF Longest
  <2>4. /\ vsol \in [0 .. m -> Nat] /\ vprev = vsol
        /\ vsol'[j] = len /\ \A c \in 0 .. m : c # j => vsol'[c] = vsol[c]
    BY <1>1, <1>3, <2>1 DEF LengthType
  <2>5. LengthType'
    BY <1>1, <1>3, <1>5, <2>1, <2>3, <2>4 DEF LengthType
  <2>6. Longest(old, new, i - 1, j, vsol[j])
    BY <1>1, <1>3, <2>1 DEF RowLengths
  <2>7. ASSUME NEW c \in 1 .. m
        PROVE  Longest(old, new, IF c < j + 1 THEN i ELSE i - 1, c, vsol'[c])
    <3>1. CASE c < j
      <4>1. c < j + 1 /\ vsol'[c] = vsol[c]
        BY <1>1, <2>1, <2>4, <3>1
      <4>2. QED
        BY <1>3, <3>1, <4>1 DEF RowLengths
    <3>2. CASE c = j
      <4>1. c < j + 1 /\ vsol'[c] = len
        BY <1>1, <2>1, <2>4, <3>2
      <4>2. QED
        BY <2>2, <3>2, <4>1
    <3>3. CASE c > j
      <4>1. ~(c < j + 1) /\ ~(c < j) /\ vsol'[c] = vsol[c]
        BY <1>1, <2>1, <2>4, <3>3
      <4>2. QED
        BY <1>3, <4>1 DEF RowLengths
    <3>4. QED
        BY <1>1, <2>1, <3>1, <3>2, <3>3
  <2>8. RowLengths'
    <3>1. j' - 1 = j /\ vsol'[0] = 0
        BY <1>1, <1>3, <2>1, <2>4 DEF RowLengths
    <3>2. QED
        BY <1>5, <2>1, <2>2, <2>4, <2>6, <2>7, <3>1 DEF RowLengths
  <2>9. \A x \in Filled(i, j)' : ArrowFits(old, new, table'[x], x[1], x[2])
    <3>1. SUFFICES ASSUME NEW x \in Filled(i, j)'
                   PROVE  ArrowFits(old, new, table'[x], x[1], x[2])
        OBVIOUS
    <3>2. /\ x \in Cells /\ <<i, j>> \in Cells /\ table \in [Cells -> Arrow \union {"unset"}]
          /\ x = <<i, j>> \/ x \in Filled(i, j)
        BY <1>1, <1>5, <2>1 DEF Filled, Cells, DeltaInv, DeltaType
    <3>3. CASE x = <<i, j>>
        BY <2>1, <2>2, <3>2, <3>3
    <3>4. CASE x # <<i, j>>
        BY <1>4, <2>1, <3>2, <3>4
    <3>5. QED
        BY <3>3, <3>4
  <2>10. QED
    BY <1>5, <2>1, <2>5, <2>8, <2>9 DEF LengthInv
<1>7. CASE NextRow
  <2>1. /\ i \in 1 .. n /\ j = m + 1
        /\ i' = i + 1 /\ j' = 1 /\ phase' = "fill"
        /\ prev' = vprev[0] /\ sol' = vsol[0]
        /\ UNCHANGED <<vprev, vsol, table>>
    BY <1>1, <1>2, <1>7 DEF NextRow
  <2>2. LengthType' /\ prev' = 0 /\ sol' = 0
    BY <1>1, <1>3, <1>5, <2>1 DEF LengthType, RowLengths
  <2>3. Longest(old, new, i, 0, 0) /\ Longest(old, new, i + 1, 0, 0)
    BY <1>1, <2>1, LongestOfNone
  <2>4. ASSUME NEW c \in 1 .. m
        PROVE  Longest(old, new, IF c < 1 THEN i + 1 ELSE i, c, vsol[c])
    <3>1. ~(c < 1) /\ c < j
        BY <1>1, <2>1
    <3>2. QED
        BY <1>3, <3>1 DEF RowLengths
  <2>5. RowLengths'
    <3>1. i' - 1 = i /\ j' - 1 = 0 /\ vsol'[0] = 0
        BY <1>1, <1>3, <2>1 DEF RowLengths
    <3>2. QED
        BY <1>5, <2>1, <2>2, <2>3, <2>4, <3>1 DEF RowLengths
  <2>6. Filled(i, j)' = Filled(i, j)
    BY <1>1, <1>5, <2>1 DEF Filled
  <2>7. QED
    BY <1>4, <1>5, <2>1, <2>2, <2>5, <2>6 DEF LengthInv
<1>8. CASE FillDone
  <2>1. /\ i = n + 1 /\ j = 1 /\ i' = n /\ j' = m /\ phase' = "trace"
        /\ UNCHANGED <<prev, sol, vprev, vsol, table, common>>
    BY <1>1, <1>2, <1>8 DEF FillDone
  <2>2. LengthType'
    BY <1>3, <1>5, <2>1 DEF LengthType
  <2>3. (1 .. n) \X (1 .. m) = Filled(i, j)
    BY <1>1, <2>1 DEF Filled
  <2>4. Longest(old, new, n, m, vsol[m])
    <3>1. CASE m = 0
        BY <1>1, <1>3, <3>1, LongestOfNone DEF RowLengths
    <3>2. CASE m # 0
      <4>1. m \in 1 .. m /\ ~(m < j) /\ i - 1 = n
        BY <1>1, <2>1, <3>2
      <4>2. QED
        BY <1>3, <4>1 DEF RowLengths
    <3>3. QED
        BY <3>1, <3>2
  <2>5. common = {} /\ Cardinality(common) = 0
    BY <1>2, FS_EmptySet DEF DeltaInv, FillInv
  <2>6. vsol[m] + Cardinality(common) = vsol[m]
    BY <1>1, <1>3, <2>5 DEF LengthType
  <2>7. QED
    BY <1>4, <1>5, <2>1, <2>2, <2>3, <2>4, <2>6 DEF LengthInv
<1>9. QED
    BY <1>6, <1>7, <1>8

LEMMA LengthTrace ==
    ASSUME DeltaInv, LengthInv, TraceUp \/ TraceLeft \/ TraceTilt \/ TraceDone
    PROVE  LengthInv'
<1>1. n \in Nat /\ m \in Nat
    BY LenProperties DEF n, m, DeltaInv, DeltaType
<1>2. /\ UNCHANGED <<old, new, table, prev, sol, vprev, vsol>> /\ n' = n /\ m' = m
      /\ phase = "trace" /\ phase' \in {"trace", "result"}
    BY DEF TraceUp, TraceLeft, TraceTilt, TraceDone, Tracing, n, m
<1>3. /\ i \in 0 .. n /\ j \in 0 .. m /\ EveryLineOnce
      /\ common \subseteq (1 .. n) \X (1 .. m)
    BY <1>2 DEF DeltaInv, DeltaType, TraceInv
<1>4. /\ \A x \in (1 .. n) \X (1 .. m) : ArrowFits(old, new, table[x], x[1], x[2])
      /\ Longest(old, new, n, m, vsol[m])
    BY <1>2 DEF LengthInv
<1>5. PICK k : /\ Longest(old, new, i, j, k)
               /\ Longest(old, new, n, m, k + Cardinality(common))
    BY <1>2 DEF LengthInv
<1>6. LengthType'
    BY <1>2 DEF LengthInv, LengthType
<1>7. IsFiniteSet(common) /\ Cardinality(common) \in Nat
  <2>1. IsFiniteSet(1 .. n) /\ IsFiniteSet(1 .. m)
    BY <1>1, FS_Interval
  <2>2. IsFiniteSet((1 .. n) \X (1 .. m))
    BY <2>1, FS_Product
  <2>3. IsFiniteSet(common)
    BY <1>3, <2>2, FS_Subset
  <2>4. QED
    BY <2>3, FS_CardinalityType
<1>8. \E l : /\ Longest(old, new, i', j', l)
             /\ Longest(old, new, n, m, l + Cardinality(common'))
  <2>1. Tracing => ArrowFits(old, new, table[<<i, j>>], i, j)
    <3>1. SUFFICES ASSUME Tracing
                   PROVE  <<i, j>> \in (1 .. n) \X (1 .. m)
        BY <1>4
    <3>2. QED
        BY <1>1, <1>3, <3>1 DEF Tracing
  <2>2. CASE TraceUp
    <3>1. i' = i - 1 /\ j' = j /\ common' = common /\ ArrowFits(old, new, "up", i, j)
        BY <2>1, <2>2 DEF TraceUp
    <3>2. PICK l : Longest(old, new, i, j, l) /\ Longest(old, new, i - 1, j, l)
        BY <3>1 DEF ArrowFits
    <3>3. l = k
        BY <1>5, <3>2, LongestIsOne
    <3>4. QED
        BY <1>5, <3>1, <3>2, <3>3
  <2>3. CASE TraceLeft
    <3>1. i' = i /\ j' = j - 1 /\ common' = common /\ ArrowFits(old, new, "left", i, j)
        BY <2>1, <2>3 DEF TraceLeft
    <3>2. PICK l : Longest(old, new, i, j, l) /\ Longest(old, new, i, j - 1, l)
        BY <3>1 DEF ArrowFits
    <3>3. l = k
        BY <1>5, <3>2, LongestIsOne
    <3>4. QED
        BY <1>5, <3>1, <3>2, <3>3
  <2>4. CASE TraceTilt
    <3>1. /\ i' = i - 1 /\ j' = j - 1 /\ common' = common \union {<<i, j>>}
          /\ ArrowFits(old, new, "tilt", i, j)
        BY <2>1, <2>4 DEF TraceTilt
    <3>2. PICK l : Longest(old, new, i, j, l + 1) /\ Longest(old, new, i - 1, j - 1, l)
        BY <3>1 DEF ArrowFits
    <3>3. l + 1 = k /\ l \in Nat
        BY <1>5, <3>2, LongestIsOne DEF Longest
    <3>4. <<i, j>> \notin common
        BY <1>1, <1>3 DEF EveryLineOnce
    <3>5. Cardinality(common') = Cardinality(common) + 1
        BY <1>7, <3>1, <3>4, FS_AddElement
    <3>6. l + Cardinality(common') = k + Cardinality(common)
        BY <1>7, <3>3, <3>5
    <3>7. QED
        BY <1>5, <3>1, <3>2, <3>6
  <2>5. CASE TraceDone
    BY <1>5, <2>5 DEF TraceDone
  <2>6. QED
    BY <2>2, <2>3, <2>4, <2>5
<1>9. phase' = "result" => i' = 0 \/ j' = 0
    BY <1>2 DEF TraceUp, TraceLeft, TraceTilt, TraceDone
<1>10. QED
    BY <1>2, <1>4, <1>6, <1>8, <1>9 DEF LengthInv

LEMMA LengthRelease == ASSUME Release PROVE LengthInv'
BY DEF Release, LengthInv, LengthType, m

LEMMA LengthStep == ASSUME DeltaInv, LengthInv, [DeltaNext]_delta PROVE LengthInv'
<1>1. CASE UNCHANGED delta
  <2>1. UNCHANGED <<old, new, phase, i, j, prev, sol, vprev, vsol, table, common>>
    BY <1>1 DEF delta
  <2>2. n' = n /\ m' = m /\ Filled(i, j)' = Filled(i, j)
    BY <2>1 DEF n, m, Filled
  <2>3. LengthType' = LengthType /\ RowLengths' = RowLengths
    BY <2>1, <2>2 DEF LengthType, RowLengths
  <2>4. QED
    BY <2>1, <2>2, <2>3 DEF LengthInv
<1>2. CASE DeltaNext
    BY <1>2, LengthStart, LengthFill, LengthTrace, LengthRelease DEF DeltaNext, Compute
<1>3. QED
    BY <1>1, <1>2

\* The two rows of lengths hold the longest that the arrows lead to
\* (delta.c:131).
THEOREM LengthInvariant == DeltaSpec => []LengthInv
<1>1. DeltaInv /\ LengthInv /\ [DeltaNext]_delta => LengthInv'
    BY LengthStep
<1>2. QED
    BY <1>1, LengthInit, DeltaInvariant, PTL DEF DeltaSpec

\* The comparison lists no line that need not be listed: what it finds common
\* is a longest common subsequence, for files of any length.
THEOREM CommonIsLongest == DeltaSpec => []LongestCommon
<1>1. DeltaInv /\ LengthInv => LongestCommon
  <2>1. SUFFICES ASSUME DeltaInv, LengthInv, phase = "result"
                 PROVE  /\ Cardinality(common) = vsol[m]
                        /\ \A pairs \in SUBSET Equal :
                              InOrder(pairs) => Cardinality(pairs) <= Cardinality(common)
    BY DEF LongestCommon
  <2>2. n \in Nat /\ m \in Nat /\ i \in 0 .. n /\ j \in 0 .. m /\ (i = 0 \/ j = 0)
    BY <2>1, LenProperties DEF n, m, DeltaInv, DeltaType, TraceInv, LengthInv
  <2>3. PICK k : /\ Longest(old, new, i, j, k)
                 /\ Longest(old, new, n, m, k + Cardinality(common))
    BY <2>1 DEF LengthInv
  <2>4. Longest(old, new, i, j, 0)
    BY <2>2, LongestOfNone
  <2>5. k = 0
    BY <2>3, <2>4, LongestIsOne
  <2>6. k + Cardinality(common) = vsol[m] /\ vsol[m] \in Nat
    BY <2>1, <2>2, <2>3, LongestIsOne DEF LengthInv, LengthType
  <2>7. Cardinality(common) \in Nat
    <3>1. common \in CommonUpTo(old, new, n, m)
        BY <2>1 DEF DeltaInv, DeltaType, TraceInv, CommonInOrder, CommonUpTo
    <3>2. QED
        BY <2>2, <3>1, CommonFinite
  <2>8. Cardinality(common) = vsol[m] /\ Longest(old, new, n, m, Cardinality(common))
    BY <2>3, <2>5, <2>6, <2>7
  <2>9. \A pairs \in SUBSET Equal : InOrder(pairs) => pairs \in CommonUpTo(old, new, n, m)
    BY DEF Equal, CommonUpTo
  <2>10. QED
    BY <2>8, <2>9 DEF Longest
<1>2. QED
    BY <1>1, DeltaInvariant, LengthInvariant, PTL

-----------------------------------------------------------------------------
(* Files of which little is listed *)

\* As long as nothing is listed, the lines the trace has been through are the
\* same in both files; if one deleted line is, they are but for this line.
EndsInv ==
    phase \in {"trace", "result"} =>
        /\ diff = <<>> =>
              /\ n - i = m - j
              /\ \A t \in 1 .. m - j : new[j + t] = old[i + t]
        /\ Len(diff) = 1 /\ diff[1].sign = "-" =>
              /\ diff[1].index \in (i + 1) .. n
              /\ n - i - 1 = m - j
              /\ \A t \in 1 .. m - j :
                    new[j + t] = old[IF i + t < diff[1].index THEN i + t ELSE i + t + 1]

LEMMA EndsTrace ==
    ASSUME DeltaInv, EndsInv, TraceUp \/ TraceLeft \/ TraceTilt \/ TraceDone
    PROVE  EndsInv'
<1>1. n \in Nat /\ m \in Nat /\ Len(diff) \in Nat /\ diff \in Seq(DiffLine)
    BY LenProperties DEF n, m, DeltaInv, DeltaType
<1>2. /\ UNCHANGED <<old, new>> /\ n' = n /\ m' = m
      /\ phase = "trace" /\ i \in 0 .. n /\ j \in 0 .. m
    BY DEF TraceUp, TraceLeft, TraceTilt, TraceDone, Tracing, n, m, DeltaInv, TraceInv
<1>3. /\ diff = <<>> =>
              /\ n - i = m - j
              /\ \A t \in 1 .. m - j : new[j + t] = old[i + t]
      /\ Len(diff) = 1 /\ diff[1].sign = "-" =>
              /\ diff[1].index \in (i + 1) .. n
              /\ n - i - 1 = m - j
              /\ \A t \in 1 .. m - j :
                    new[j + t] = old[IF i + t < diff[1].index THEN i + t ELSE i + t + 1]
    BY <1>2 DEF EndsInv
<1>4. CASE TraceUp
  <2> DEFINE x == [sign |-> "-", index |-> i, text |-> old[i]]
  <2>1. /\ i \in 1 .. n /\ i' = i - 1 /\ j' = j /\ diff' = <<x>> \o diff
    BY <1>1, <1>2, <1>4 DEF TraceUp, Tracing
  <2>2. x \in DiffLine
    BY <1>1, <1>2, <2>1, ElementOfSeq DEF DiffLine, DeltaInv, DeltaType, n
  <2>3. x.index = i
    OBVIOUS
  <2> HIDE DEF x
  <2>4. /\ diff' \in Seq(DiffLine) /\ DOMAIN diff' = 1 .. Len(diff) + 1 /\ diff'[1] = x
    BY <1>1, <2>1, <2>2, Prepend
  <2>5. Len(diff') = Len(diff) + 1
    BY <1>1, <2>4, LenProperties
  <2>6. diff' # <<>>
    BY <1>1, <2>5
  <2>7. ASSUME Len(diff') = 1
        PROVE  /\ diff'[1].index \in (i' + 1) .. n
               /\ n - i' - 1 = m - j'
               /\ \A t \in 1 .. m - j' :
                    new[j' + t] = old[IF i' + t < diff'[1].index THEN i' + t ELSE i' + t + 1]
    <3>0. Len(diff) \in Nat /\ Len(diff) + 1 = 1
        BY <1>1, <2>5, <2>7, LenProperties
    <3>01. Len(diff) = 0
        BY <3>0
    <3>1. diff = <<>>
        BY <1>1, <3>01, EmptySeq
    <3>2. n - i = m - j /\ \A t \in 1 .. m - j : new[j + t] = old[i + t]
        BY <1>3, <3>1
    <3>3. diff'[1].index = i
        BY <2>3, <2>4
    <3>4. \A t \in 1 .. m - j : ~(i' + t < i) /\ i' + t + 1 = i + t
        BY <1>1, <1>2, <2>1
    <3>5. \A t \in 1 .. m - j' :
              new[j' + t] = old[IF i' + t < diff'[1].index THEN i' + t ELSE i' + t + 1]
        BY <2>1, <3>2, <3>3, <3>4
    <3>6. diff'[1].index \in (i' + 1) .. n /\ n - i' - 1 = m - j'
        BY <1>1, <1>2, <2>1, <3>2, <3>3
    <3>7. QED
        BY <3>5, <3>6
  <2>8. QED
    BY <1>2, <2>6, <2>7 DEF EndsInv
<1>5. CASE TraceLeft
  <2> DEFINE x == [sign |-> "+", index |-> j, text |-> new[j]]
  <2>1. /\ j \in 1 .. m /\ diff' = <<x>> \o diff
    BY <1>1, <1>2, <1>5 DEF TraceLeft, Tracing
  <2>2. x \in DiffLine
    BY <1>1, <1>2, <2>1, ElementOfSeq DEF DiffLine, DeltaInv, DeltaType, m
  <2>3. x.sign = "+"
    OBVIOUS
  <2> HIDE DEF x
  <2>4. /\ diff' \in Seq(DiffLine) /\ DOMAIN diff' = 1 .. Len(diff) + 1 /\ diff'[1] = x
    BY <1>1, <2>1, <2>2, Prepend
  <2>5. diff' # <<>> /\ diff'[1].sign # "-"
    BY <1>1, <2>3, <2>4
  <2>6. QED
    BY <2>5 DEF EndsInv
<1>6. CASE TraceTilt
  <2>1. /\ i \in 1 .. n /\ i' = i - 1 /\ j \in 1 .. m /\ j' = j - 1 /\ diff' = diff
        /\ table[<<i, j>>] = "tilt"
    BY <1>1, <1>2, <1>6 DEF TraceTilt, Tracing
  <2>2. old[i] = new[j]
    BY <1>2, <2>1 DEF DeltaInv, TraceInv, TiltsAreEqual
  <2> DEFINE Before(t) == t - 1 \in 1 .. m - j /\ j' + t = j + (t - 1) /\ i' + t = i + (t - 1)
  <2>3. \A t \in 1 .. m - j' : t # 1 => Before(t)
    <3>1. n \in Nat /\ m \in Nat
        BY <1>1
    <3>2. /\ i \in 1 .. n /\ i' = i - 1
          /\ j \in 1 .. m /\ j' = j - 1
        BY <2>1
    <3>3. QED
        BY <3>1, <3>2
  <2>4. ASSUME diff = <<>>
        PROVE  /\ n - i' = m - j'
               /\ \A t \in 1 .. m - j' : new[j' + t] = old[i' + t]
    <3>1. n - i = m - j /\ \A t \in 1 .. m - j : new[j + t] = old[i + t]
        BY <1>3, <2>4
    <3>2. ASSUME NEW t \in 1 .. m - j'
          PROVE  new[j' + t] = old[i' + t]
      <4>1. CASE t = 1
        BY <1>1, <1>2, <2>1, <2>2, <4>1
      <4>2. CASE t # 1
        <5>1. t - 1 \in 1 .. m - j /\ j' + t = j + (t - 1) /\ i' + t = i + (t - 1)
            BY <2>3, <4>2
        <5>2. QED
            BY <3>1, <5>1
      <4>3. QED
        BY <4>1, <4>2
    <3>3. QED
        BY <1>1, <1>2, <2>1, <3>1, <3>2
  <2>5. ASSUME Len(diff) = 1, diff[1].sign = "-"
        PROVE  /\ diff[1].index \in (i' + 1) .. n
               /\ n - i' - 1 = m - j'
               /\ \A t \in 1 .. m - j' :
                    new[j' + t] = old[IF i' + t < diff[1].index THEN i' + t ELSE i' + t + 1]
    <3> DEFINE d == diff[1].index
    <3>1. /\ d \in (i + 1) .. n
          /\ n - i - 1 = m - j
          /\ \A t \in 1 .. m - j :
                new[j + t] = old[IF i + t < d THEN i + t ELSE i + t + 1]
        BY <1>3, <2>5
    <3> HIDE DEF d
    <3>2. ASSUME NEW t \in 1 .. m - j'
          PROVE  new[j' + t] = old[IF i' + t < d THEN i' + t ELSE i' + t + 1]
      <4>1. CASE t = 1
        <5>1. n \in Nat /\ m \in Nat
            BY <1>1
        <5>2. i \in 1 .. n /\ i' = i - 1 /\ j \in 1 .. m /\ j' = j - 1 /\ d \in (i + 1) .. n
            BY <2>1, <3>1
        <5>3. i' + t = i /\ j' + t = j /\ i < d
            BY <4>1, <5>1, <5>2
        <5>4. QED
            BY <2>2, <5>3
      <4>2. CASE t # 1
        <5>1. t - 1 \in 1 .. m - j /\ j' + t = j + (t - 1) /\ i' + t = i + (t - 1)
            BY <2>3, <4>2
        <5>2. QED
            BY <3>1, <5>1
      <4>3. QED
        BY <4>1, <4>2
    <3>3. d \in (i' + 1) .. n /\ n - i' - 1 = m - j'
        BY <1>1, <1>2, <2>1, <3>1
    <3>4. QED
        BY <3>2, <3>3 DEF d
  <2>6. QED
    BY <1>2, <2>1, <2>4, <2>5 DEF EndsInv
<1>7. CASE TraceDone
    BY <1>2, <1>3, <1>7 DEF TraceDone, EndsInv
<1>8. QED
    BY <1>4, <1>5, <1>6, <1>7

LEMMA EndsStep == ASSUME DeltaInv, EndsInv, [DeltaNext]_delta PROVE EndsInv'
<1>1. CASE UNCHANGED delta
    BY <1>1 DEF delta, EndsInv, n, m
<1>2. CASE Begin \/ FillCell \/ NextRow \/ Release
  <2>1. phase' \notin {"trace", "result"}
    BY <1>2 DEF Begin, Start, FillCell, NextRow, Release
  <2>2. QED
    BY <2>1 DEF EndsInv
<1>3. CASE FillDone
  <2>1. phase = "fill" /\ i' = n /\ j' = m /\ UNCHANGED <<old, new, diff>>
    BY <1>3 DEF FillDone
  <2>2. n \in Nat /\ m \in Nat /\ n' = n /\ m' = m /\ diff = <<>>
    BY <2>1, LenProperties DEF n, m, DeltaInv, DeltaType, FillInv
  <2>3. n' - i' = 0 /\ m' - j' = 0 /\ diff' = <<>> /\ Len(diff') # 1
    BY <2>1, <2>2
  <2>4. QED
    BY <2>3 DEF EndsInv
<1>4. CASE TraceUp \/ TraceLeft \/ TraceTilt \/ TraceDone
    BY <1>4, EndsTrace
<1>5. QED
    BY <1>1, <1>2, <1>3, <1>4 DEF DeltaNext, Compute

\* A comparison that lists nothing, or one deleted line, has found the ends of
\* the files to be the same, but for this line.
THEOREM LittleListed == DeltaSpec => []EndsInv
<1>1. DeltaInit => EndsInv
    BY DEF DeltaInit, EndsInv
<1>2. DeltaInv /\ EndsInv /\ [DeltaNext]_delta => EndsInv'
    BY EndsStep
<1>3. QED
    BY <1>1, <1>2, DeltaInvariant, PTL DEF DeltaSpec

-----------------------------------------------------------------------------
(* Comparisons *)

\* The two contents that are compared.
OldText == IF Commits THEN case.first[at].text ELSE HeadText(second[at].path)
NewText == IF Commits THEN second[partner].text ELSE second[at].text

\* The lists are those of the comparison, but for flags of the second one.
ListsInv ==
    /\ case \in Cases
    /\ second \in Seq(Row) /\ Len(second) = Len(case.second)
    /\ \A k \in DOMAIN second :
            second[k].path = case.second[k].path /\ second[k].text = case.second[k].text
    /\ at \in Nat \ {0} /\ partner \in Nat
    /\ step \in {"next", "delta", "report", "rest", "done"}
    /\ step = "rest" => Commits

\* While two files are compared, they are the two that the walk is at.
PairInv ==
    /\ step \in {"delta", "report"} =>
            /\ Commits => /\ at \in DOMAIN case.first
                          /\ partner \in Found(case.first[at].path)
            /\ WorkTree => /\ at \in DOMAIN second /\ second[at].flag # "GONE"
                           /\ Tracked(second[at].path) # {}
    /\ step = "delta" =>
            /\ phase \in {"fill", "trace", "result"}
            /\ \E b \in BOOLEAN : old = LinesAt(OldText, SplitInPlace(OldText, b))
            /\ \E b \in BOOLEAN : new = LinesAt(NewText, SplitInPlace(NewText, b))
    /\ step = "report" => OldText = NewText
    /\ step # "delta" => phase = "idle" /\ diff = <<>>

WalkInv == ListsInv /\ PairInv

-----------------------------------------------------------------------------
(* Lists *)

\* The lists of a comparison, and its kind.
LEMMA CaseLists ==
    ASSUME case \in Cases
    PROVE  /\ case.first \in Seq(Row) /\ Once(case.first)
           /\ case.second \in Seq(Row) /\ Once(case.second)
           /\ case.minimal \in BOOLEAN
           /\ Commits <=> ~WorkTree
           /\ DOMAIN case.first = 1 .. Len(case.first) /\ Len(case.first) \in Nat
           /\ DOMAIN case.second = 1 .. Len(case.second) /\ Len(case.second) \in Nat
           /\ \A k \in DOMAIN case.first : case.first[k] \in Row
           /\ \A k \in DOMAIN case.second : case.second[k] \in Row
<1>1. /\ case.first \in Seq(Row) /\ Once(case.first)
      /\ case.second \in Seq(Row) /\ Once(case.second)
      /\ case.minimal \in BOOLEAN
      /\ case.kind \in {"commits", "files"}
    BY CompareAssumption
<1>2. Commits <=> ~WorkTree
    BY <1>1 DEF Commits, WorkTree
<1>3. QED
    BY <1>1, <1>2, LenProperties, ElementOfSeq

\* The second list, whose flags change.
LEMMA SecondList ==
    ASSUME ListsInv
    PROVE  /\ DOMAIN second = 1 .. Len(second) /\ Len(second) \in Nat
           /\ DOMAIN second = DOMAIN case.second
           /\ \A k \in DOMAIN second : second[k] \in Row
           /\ Once(second)
<1>1. second \in Seq(Row) /\ case.second \in Seq(Row) /\ Once(case.second)
    BY CaseLists DEF ListsInv
<1>2. /\ DOMAIN second = 1 .. Len(second) /\ Len(second) \in Nat
      /\ DOMAIN case.second = 1 .. Len(case.second)
      /\ \A k \in DOMAIN second : second[k] \in Row
    BY <1>1, LenProperties, ElementOfSeq
<1>3. DOMAIN second = DOMAIN case.second
    BY <1>2 DEF ListsInv
<1>4. Once(second)
    BY <1>1, <1>3 DEF ListsInv, Once
<1>5. QED
    BY <1>2, <1>3, <1>4

\* A name is found in one place of either list.
LEMMA FoundInOnePlace ==
    ASSUME ListsInv, NEW name
    PROVE  /\ \A k, l \in Found(name) : k = l
           /\ Found(name) \subseteq DOMAIN second
           /\ \A k, l \in Tracked(name) : k = l
           /\ Tracked(name) \subseteq DOMAIN case.first
BY SecondList, CaseLists DEF ListsInv, Found, Tracked, Once

\* The content that HEAD has of a file.
LEMMA HeadTextIsAFile ==
    ASSUME ListsInv, NEW name, NEW k \in Tracked(name)
    PROVE  HeadText(name) = case.first[k].text /\ HeadText(name) \in Files
<1>1. (CHOOSE l \in Tracked(name) : TRUE) = k
    BY FoundInOnePlace
<1>2. case.first[k] \in Row
    BY CaseLists, FoundInOnePlace DEF ListsInv
<1>3. QED
    BY <1>1, <1>2 DEF HeadText, Row

-----------------------------------------------------------------------------
(* The walk, and the comparison of two files within it *)

LEMMA WalkInit == Init => WalkInv
<1> SUFFICES ASSUME Init
             PROVE  WalkInv
    OBVIOUS
<1>1. case \in Cases /\ second = case.second /\ second \in Seq(Row)
    BY CaseLists DEF Init
<1>2. ListsInv
    BY <1>1 DEF Init, ListsInv
<1>3. PairInv
    BY DEF Init, PairInv, DeltaInit
<1>4. QED
    BY <1>2, <1>3 DEF WalkInv

\* Two contents are taken to be compared.
LEMMA PrepareFits ==
    ASSUME NEW a \in Files, NEW b \in Files, Prepare(a, b), phase = "idle", diff = <<>>
    PROVE  /\ step' \in {"delta", "report"}
           /\ step' = "report" => a = b /\ phase' = "idle" /\ diff' = <<>>
           /\ step' = "delta" =>
                /\ phase' = "fill"
                /\ \E x \in BOOLEAN : old' = LinesAt(a, SplitInPlace(a, x))
                /\ \E x \in BOOLEAN : new' = LinesAt(b, SplitInPlace(b, x))
           /\ [Begin]_delta
<1>1. PICK nl \in [1 .. 2 -> BOOLEAN] :
          LET ma == SplitInPlace(a, nl[1])
              mb == SplitInPlace(b, nl[2])
          IN  IF Len(ma) = Len(mb) /\ a = b
              THEN step' = "report" /\ UNCHANGED delta
              ELSE step' = "delta" /\ Start(LinesAt(a, ma), LinesAt(b, mb))
    BY DEF Prepare
<1>2. nl[1] \in BOOLEAN /\ nl[2] \in BOOLEAN
    OBVIOUS
<1> DEFINE o == LinesAt(a, SplitInPlace(a, nl[1]))
           w == LinesAt(b, SplitInPlace(b, nl[2]))
<1>3. \/ a = b /\ step' = "report" /\ UNCHANGED delta
      \/ step' = "delta" /\ Start(o, w)
    BY <1>1
<1>4. o \in Seq(Line) /\ w \in Seq(Line)
    BY <1>2, CompareAssumption
<1>5. /\ \E x \in BOOLEAN : o = LinesAt(a, SplitInPlace(a, x))
      /\ \E x \in BOOLEAN : w = LinesAt(b, SplitInPlace(b, x))
    BY <1>2
<1> HIDE DEF o, w
<1>6. CASE a = b /\ step' = "report" /\ UNCHANGED delta
    BY <1>6 DEF delta
<1>7. CASE step' = "delta" /\ Start(o, w)
  <2>1. old' = o /\ new' = w /\ phase' = "fill"
    BY <1>7 DEF Start
  <2>2. Begin
    BY <1>4, <1>7, <2>1 DEF Begin
  <2>3. QED
    BY <1>5, <1>7, <2>1, <2>2
<1>8. QED
    BY <1>3, <1>6, <1>7

\* The result is taken.
LEMMA TakenFits ==
    ASSUME PairInv, Ready, Taken, step' # "delta"
    PROVE  phase' = "idle" /\ diff' = <<>> /\ [Release]_delta
<1>1. CASE step = "report"
    BY <1>1 DEF Taken, PairInv, delta
<1>2. CASE step # "report"
    BY <1>2 DEF Taken, Release, Ready
<1>3. QED
    BY <1>1, <1>2

\* A step that leaves the lists alone and is not in the comparison of files.
LEMMA StillWalk ==
    ASSUME WalkInv, case' = case, second' = second, at' \in Nat \ {0}, partner' \in Nat,
           step' \in {"next", "rest", "done"}, step' = "rest" => Commits,
           phase' = "idle", diff' = <<>>
    PROVE  WalkInv'
<1>1. ListsInv'
    BY DEF WalkInv, ListsInv, Commits
<1>2. PairInv'
    BY DEF PairInv
<1>3. QED
    BY <1>1, <1>2 DEF WalkInv

\* A step of the comparison of two files.
LEMMA DeltaStepFits ==
    ASSUME WalkInv, DeltaStep
    PROVE  WalkInv' /\ Compute
<1>1. /\ step = "delta" /\ Compute
      /\ UNCHANGED <<case, second, at, step, partner>>
    BY DEF DeltaStep, walk
<1>2. UNCHANGED <<old, new>> /\ phase' \in {"fill", "trace", "result"}
    BY <1>1 DEF Compute, FillCell, NextRow, FillDone, TraceUp, TraceLeft, TraceTilt,
                TraceDone, Tracing
<1>3. ListsInv'
    BY <1>1 DEF WalkInv, ListsInv, Commits
<1>4. /\ OldText' = OldText /\ NewText' = NewText
      /\ \A name : Found(name)' = Found(name) /\ Tracked(name)' = Tracked(name)
      /\ Commits' = Commits /\ WorkTree' = WorkTree
    BY <1>1 DEF OldText, NewText, Commits, WorkTree, HeadText, Found, Tracked
<1>5. PairInv'
    BY <1>1, <1>2, <1>4 DEF WalkInv, PairInv
<1>6. QED
    BY <1>1, <1>3, <1>5 DEF WalkInv

\* A file of both commits is looked up: it is at one place of the second list.
LEMMA CommonFileFits ==
    ASSUME WalkInv, CommonFile
    PROVE  /\ WalkInv' /\ [Begin]_delta
           /\ at \in DOMAIN case.first
           /\ partner' \in Found(case.first[at].path)
           /\ Found(case.first[at].path) = {partner'}
           /\ second' = [second EXCEPT ![partner'].flag = "NEW"]
           /\ partner' \in DOMAIN second
<1> DEFINE name == case.first[at].path
<1>1. /\ Commits /\ step = "next" /\ at <= Len(case.first)
      /\ Found(name) # {}
      /\ partner' = CHOOSE k \in Found(name) : \A l \in Found(name) : k <= l
      /\ second' = [second EXCEPT ![partner'].flag = "NEW"]
      /\ Prepare(case.first[at].text, second[partner'].text)
      /\ case' = case /\ at' = at
    BY DEF CommonFile, Walking, DeltaFlag
<1>2. ListsInv /\ PairInv /\ phase = "idle" /\ diff = <<>>
    BY <1>1 DEF WalkInv, PairInv
<1>3. at \in DOMAIN case.first /\ case.first[at] \in Row
    BY <1>1, <1>2, CaseLists DEF ListsInv
<1>4. PICK k \in Found(name) : TRUE
    BY <1>1
<1>5. k \in DOMAIN second /\ k \in Nat /\ \A l \in Found(name) : l = k
    BY <1>2, <1>4, FoundInOnePlace, SecondList
<1>6. partner' = k
  <2>1. k \in Found(name) /\ \A l \in Found(name) : k <= l
    BY <1>4, <1>5
  <2>2. partner' \in Found(name)
    BY <1>1, <2>1
  <2>3. QED
    BY <1>5, <2>2
<1>7. second[k] \in Row /\ second \in Seq(Row)
    BY <1>2, <1>5, SecondList DEF ListsInv
<1>8. [second[k] EXCEPT !.flag = "NEW"] \in Row
    BY <1>7 DEF Row
<1>9. /\ second' = [second EXCEPT ![k] = [second[k] EXCEPT !.flag = "NEW"]]
      /\ DOMAIN second' = DOMAIN second
      /\ second'[k] = [second[k] EXCEPT !.flag = "NEW"]
      /\ \A l \in DOMAIN second : l # k => second'[l] = second[l]
    BY <1>1, <1>5, <1>6, <1>7
<1>10. second' \in Seq(Row) /\ Len(second') = Len(second)
    BY <1>5, <1>7, <1>8, <1>9, ExceptSeq, SecondList, <1>2
<1>11. /\ \A l \in DOMAIN second :
              second'[l].path = second[l].path /\ second'[l].text = second[l].text
       /\ second'[k].flag = "NEW"
    <2>1. second'[k].path = second[k].path /\ second'[k].text = second[k].text
          /\ second'[k].flag = "NEW"
        BY <1>7, <1>9 DEF Row
    <2>2. QED
        BY <1>9, <2>1
<1>12. ListsInv'
  <2>1. step' \in {"delta", "report"}
    BY <1>1 DEF Prepare
  <2>2. partner' \in Nat
    BY <1>5, <1>6
  <2>3. \A l \in DOMAIN second' :
            second'[l].path = case'.second[l].path /\ second'[l].text = case'.second[l].text
    BY <1>1, <1>2, <1>9, <1>11 DEF ListsInv
  <2>4. /\ case' \in Cases /\ Len(second') = Len(case'.second)
        /\ at' \in Nat \ {0}
        /\ step' # "rest"
    BY <1>1, <1>2, <1>10, <2>1 DEF ListsInv
  <2>5. QED
    BY <1>10, <2>1, <2>2, <2>3, <2>4 DEF ListsInv
<1>13. /\ step' \in {"delta", "report"}
       /\ step' = "report" =>
            /\ case.first[at].text = second[k].text
            /\ phase' = "idle" /\ diff' = <<>>
       /\ step' = "delta" =>
            /\ phase' = "fill"
            /\ \E x \in BOOLEAN :
                 old' = LinesAt(case.first[at].text, SplitInPlace(case.first[at].text, x))
            /\ \E x \in BOOLEAN :
                 new' = LinesAt(second[k].text, SplitInPlace(second[k].text, x))
       /\ [Begin]_delta
  <2>1. case.first[at].text \in Files /\ second[k].text \in Files
    BY <1>3, <1>7 DEF Row
  <2>2. Prepare(case.first[at].text, second[k].text)
    BY <1>1, <1>6
  <2>3. QED
    BY <1>2, <2>1, <2>2, PrepareFits
<1>14. /\ Commits' /\ ~WorkTree'
       /\ OldText' = case.first[at].text /\ NewText' = second[k].text
    BY <1>1, <1>5, <1>6, <1>11 DEF OldText, NewText, Commits, WorkTree
<1>15. partner' \in Found(case.first[at].path)'
  <2>1. /\ k \in DOMAIN second' /\ second'[k].path = second[k].path
        /\ second'[k].flag = "NEW" /\ second[k].path = name
    BY <1>4, <1>5, <1>9, <1>11 DEF Found
  <2>2. case' = case /\ at' = at
    BY <1>1
  <2>3. QED
    BY <1>6, <2>1, <2>2 DEF Found
<1>16. PairInv'
    BY <1>1, <1>3, <1>13, <1>14, <1>15 DEF PairInv
<1>17. QED
    BY <1>1, <1>3, <1>4, <1>5, <1>6, <1>12, <1>13, <1>16 DEF WalkInv

\* A file of the work tree is compared with that of HEAD.
LEMMA CheckFileFits ==
    ASSUME WalkInv, CheckFile
    PROVE  WalkInv' /\ [Begin]_delta
<1> DEFINE name == second[at].path
<1>1. /\ WorkTree /\ step = "next" /\ at <= Len(second)
      /\ Tracked(name) # {} /\ second[at].flag # "GONE"
      /\ Prepare(HeadText(name), second[at].text)
      /\ UNCHANGED <<case, second, at, partner>>
    BY DEF CheckFile, Checking
<1>2. ListsInv /\ phase = "idle" /\ diff = <<>> /\ ~Commits
    BY <1>1, CaseLists DEF WalkInv, PairInv, ListsInv
<1>3. at \in DOMAIN second /\ second[at] \in Row
    BY <1>1, <1>2, SecondList DEF ListsInv
<1>4. HeadText(name) \in Files /\ second[at].text \in Files
    BY <1>1, <1>2, <1>3, HeadTextIsAFile DEF Row
<1>5. /\ step' \in {"delta", "report"}
      /\ step' = "report" =>
            HeadText(name) = second[at].text /\ phase' = "idle" /\ diff' = <<>>
      /\ step' = "delta" =>
            /\ phase' = "fill"
            /\ \E x \in BOOLEAN :
                 old' = LinesAt(HeadText(name), SplitInPlace(HeadText(name), x))
            /\ \E x \in BOOLEAN :
                 new' = LinesAt(second[at].text, SplitInPlace(second[at].text, x))
      /\ [Begin]_delta
    BY <1>1, <1>2, <1>4, PrepareFits
<1>6. /\ ~Commits' /\ WorkTree'
      /\ OldText' = HeadText(name) /\ NewText' = second[at].text
      /\ Tracked(name)' = Tracked(name)
    BY <1>1, <1>2 DEF OldText, NewText, Commits, WorkTree, HeadText, Tracked
<1>7. ListsInv'
    BY <1>1, <1>2, <1>5 DEF ListsInv
<1>8. PairInv'
    BY <1>1, <1>3, <1>5, <1>6 DEF PairInv
<1>9. QED
    BY <1>5, <1>7, <1>8 DEF WalkInv

\* Every step keeps the invariant, and is one of the comparison of two files
\* or leaves that alone.
LEMMA WalkStep ==
    ASSUME WalkInv, [Next]_vars
    PROVE  WalkInv' /\ [DeltaNext]_delta
<1>1. at + 1 \in Nat \ {0} /\ 0 \in Nat /\ 1 \in Nat \ {0} /\ at \in Nat \ {0} /\ partner \in Nat
    BY DEF WalkInv, ListsInv
<1>2. step # "delta" => phase = "idle" /\ diff = <<>>
    BY DEF WalkInv, PairInv
<1>3. CASE DeltaStep
    BY <1>3, DeltaStepFits DEF DeltaNext
<1>4. CASE CommonFile
    BY <1>4, CommonFileFits DEF DeltaNext
<1>5. CASE CheckFile
    BY <1>5, CheckFileFits DEF DeltaNext
<1>6. CASE ReportCounts \/ ReportLines \/ ReportFile
  <2>1. /\ Ready /\ Taken /\ GoOn /\ UNCHANGED <<case, second>>
    BY <1>6 DEF ReportCounts, ReportLines, ReportFile
  <2>2. step' = "next" /\ at' = at + 1 /\ partner' = 0
    BY <2>1 DEF GoOn
  <2>3. phase' = "idle" /\ diff' = <<>> /\ [Release]_delta
    BY <2>1, <2>2, TakenFits DEF WalkInv
  <2>4. WalkInv'
    BY <1>1, <2>1, <2>2, <2>3, StillWalk
  <2>5. QED
    BY <2>3, <2>4 DEF DeltaNext
<1>7. CASE EmptyCommit \/ FirstOnly \/ FirstDone \/ RestSkipped \/ RestListed \/ RestDone
           \/ Untracked \/ GoneFile \/ FilesDone
  <2>1. /\ UNCHANGED <<delta, case, second>>
        /\ step # "delta" /\ step' \in {"next", "rest", "done"}
        /\ step' = "rest" => Commits
        /\ at' \in {at, at + 1, 1} /\ partner' \in {partner, 0}
    BY <1>7 DEF EmptyCommit, FirstOnly, FirstDone, RestSkipped, RestListed, RestDone,
                Untracked, GoneFile, FilesDone, GoOn, Walking, Checking, WalkInv, ListsInv
  <2>2. phase' = "idle" /\ diff' = <<>>
    BY <1>2, <2>1 DEF delta
  <2>3. WalkInv'
    BY <1>1, <2>1, <2>2, StillWalk
  <2>4. QED
    BY <2>1, <2>3
<1>8. CASE UNCHANGED vars
  <2>1. UNCHANGED <<delta, case, second, at, step, partner>>
        /\ UNCHANGED <<old, new, phase, diff>>
    BY <1>8 DEF vars, walk, delta
  <2>2. /\ OldText' = OldText /\ NewText' = NewText
        /\ \A name : Found(name)' = Found(name) /\ Tracked(name)' = Tracked(name)
        /\ Commits' = Commits /\ WorkTree' = WorkTree
    BY <2>1 DEF OldText, NewText, Commits, WorkTree, HeadText, Found, Tracked
  <2>3. ListsInv'
    BY <2>1, <2>2 DEF WalkInv, ListsInv
  <2>4. PairInv'
    BY <2>1, <2>2 DEF WalkInv, PairInv
  <2>5. QED
    BY <2>1, <2>3, <2>4 DEF WalkInv
<1>9. QED
    BY <1>3, <1>4, <1>5, <1>6, <1>7, <1>8 DEF Next

\* The walk over the lists only compares two files of one path, and compares
\* them from their first lines (do_commit_delta, check_entry).
THEOREM WalkInvariant == Spec => []WalkInv
BY WalkInit, WalkStep, PTL DEF Spec

\* Within every comparison the lines of two files are compared as LineDelta
\* says: each pair begins with the lines of its files, and its result is
\* released before the next pair begins.
THEOREM ComparesByDelta == Spec => DeltaSpec
<1>1. Init => DeltaInit
    BY DEF Init
<1>2. WalkInv /\ [Next]_vars => [DeltaNext]_delta
    BY WalkStep
<1>3. QED
    BY <1>1, <1>2, WalkInvariant, PTL DEF Spec, DeltaSpec

\* So what a comparison lists of two files is the shortest edit script of
\* their ends, and follows only arrows that were written.
THEOREM FilesAreCompared == Spec => [](ReadsWrittenCells /\ EditScript /\ LongestCommon)
BY ComparesByDelta, TraceReadsWritten, ListingIsEditScript, CommonIsLongest, PTL

-----------------------------------------------------------------------------
(* Output *)

Numbers == Nat \union {CountLines(file) : file \in Files}

\* What can be printed.
Titles == [piece : {"title"}, names : SUBSET Paths]
Piece == Titles
    \union [piece : {"stat"}, insertions : Numbers, deletions : Numbers]
    \union [piece : {"lines"}, of : Paths, lines : Seq(DiffLine)]
    \union [piece : {"whole"}, of : Paths, lines : Files]
    \union [piece : {"additions"}, of : Paths, number : Numbers]

OutputType ==
    /\ carried \in Seq(DiffLine)
    /\ out \in Seq(Titles) /\ printed \in Seq(Piece)

Members(list) == {list[k] : k \in DOMAIN list}

\* The names in the titles of some output.
Names(list) == UNION {t.names : t \in {t \in Members(list) : t.piece = "title"}}

\* What is in a list that two lists are appended to.
LEMMA ConcatMembers ==
    ASSUME NEW S, NEW s \in Seq(S), NEW t \in Seq(S)
    PROVE  /\ s \o t \in Seq(S)
           /\ Members(s \o t) = Members(s) \union Members(t)
<1> DEFINE u == s \o t
<1>1. /\ u \in Seq(S) /\ Len(u) = Len(s) + Len(t)
      /\ \A k \in 1 .. Len(s) + Len(t) : u[k] = IF k <= Len(s) THEN s[k] ELSE t[k - Len(s)]
    BY ConcatProperties, Zenon
<1>2. /\ DOMAIN s = 1 .. Len(s) /\ DOMAIN t = 1 .. Len(t) /\ DOMAIN u = 1 .. Len(u)
      /\ Len(s) \in Nat /\ Len(t) \in Nat
    BY <1>1, LenProperties
<1> HIDE DEF u
<1>3. ASSUME NEW k \in DOMAIN u
      PROVE  u[k] \in {s[l] : l \in DOMAIN s} \union {t[l] : l \in DOMAIN t}
  <2>1. CASE k <= Len(s)
    BY <1>1, <1>2, <1>3, <2>1
  <2>2. CASE ~(k <= Len(s))
    <3>1. k - Len(s) \in DOMAIN t /\ u[k] = t[k - Len(s)]
        BY <1>1, <1>2, <1>3, <2>2
    <3>2. QED
        BY <3>1
  <2>3. QED
    BY <2>1, <2>2
<1>4. ASSUME NEW k \in DOMAIN s
      PROVE  s[k] \in {u[l] : l \in DOMAIN u}
  <2>1. k \in DOMAIN u /\ u[k] = s[k]
    BY <1>1, <1>2, <1>4
  <2>2. QED
    BY <2>1
<1>5. ASSUME NEW k \in DOMAIN t
      PROVE  t[k] \in {u[l] : l \in DOMAIN u}
  <2>1. k + Len(s) \in DOMAIN u /\ u[k + Len(s)] = t[k]
    BY <1>1, <1>2, <1>5
  <2>2. QED
    BY <2>1
<1>6. QED
  <2>1. {u[k] : k \in DOMAIN u} = {s[k] : k \in DOMAIN s} \union {t[k] : k \in DOMAIN t}
    BY <1>3, <1>4, <1>5
  <2>2. QED
    BY <1>1, <2>1 DEF u, Members

\* So are its names.
LEMMA NamesOfConcat ==
    ASSUME NEW s \in Seq(Piece), NEW t \in Seq(Piece)
    PROVE  s \o t \in Seq(Piece) /\ Names(s \o t) = Names(s) \union Names(t)
<1>1. s \o t \in Seq(Piece) /\ Members(s \o t) = Members(s) \union Members(t)
    BY ConcatMembers, Zenon
<1>2. QED
    BY <1>1 DEF Names

LEMMA NamesOfFew ==
    /\ Names(<<>>) = {}
    /\ \A x : Names(<<x>>) = IF x.piece = "title" THEN x.names ELSE {}
<1>1. Names(<<>>) = {}
    BY DEF Names, Members
<1>2. ASSUME NEW x
      PROVE  Names(<<x>>) = IF x.piece = "title" THEN x.names ELSE {}
  <2>1. Members(<<x>>) = {x}
    BY DEF Members
  <2>2. Names(<<x>>) = UNION {t.names : t \in {t \in {x} : t.piece = "title"}}
    BY <2>1 DEF Names
  <2>3. CASE x.piece = "title"
    <3>1. {t \in {x} : t.piece = "title"} = {x}
        BY <2>3
    <3>2. {t.names : t \in {x}} = {x.names} /\ UNION {x.names} = x.names
        OBVIOUS
    <3>3. QED
        BY <2>2, <2>3, <3>1, <3>2
  <2>4. CASE x.piece # "title"
    <3>1. {t \in {x} : t.piece = "title"} = {}
        BY <2>4
    <3>2. QED
        BY <2>2, <2>4, <3>1
  <2>5. QED
    BY <2>3, <2>4
<1>3. QED
    BY <1>1, <1>2

\* Pieces of output, and the names in their titles.
LEMMA TitlePiece ==
    ASSUME NEW p \in Paths \union {NoPath}, NEW q \in Paths \union {NoPath}
    PROVE  /\ Title(p, q) \in Titles /\ Title(p, q) \in Piece
           /\ Names(<<Title(p, q)>>) = {p, q} \ {NoPath}
<1>1. Title(p, q) \in Titles /\ Title(p, q) \in Piece
    BY DEF Title, Titles, Piece
<1>2. Title(p, q).piece = "title" /\ Title(p, q).names = {p, q} \ {NoPath}
    BY DEF Title
<1>3. QED
    BY <1>1, <1>2, NamesOfFew

LEMMA OtherPieces ==
    /\ \A x, y \in Numbers :
            Stat(x, y) \in Piece /\ Names(<<Stat(x, y)>>) = {}
    /\ \A p \in Paths, lines \in Seq(DiffLine) :
            Listing(p, lines) \in Piece /\ Names(<<Listing(p, lines)>>) = {}
    /\ \A p \in Paths, file \in Files :
            /\ Whole(p, file) \in Piece /\ Names(<<Whole(p, file)>>) = {}
            /\ Additions(p, CountLines(file)) \in Piece
            /\ Names(<<Additions(p, CountLines(file))>>) = {}
<1>1. ASSUME NEW x \in Numbers, NEW y \in Numbers
      PROVE  Stat(x, y) \in Piece /\ Stat(x, y).piece # "title"
    BY DEF Stat, Piece
<1>2. ASSUME NEW p \in Paths, NEW lines \in Seq(DiffLine)
      PROVE  Listing(p, lines) \in Piece /\ Listing(p, lines).piece # "title"
    BY DEF Listing, Piece
<1>3. ASSUME NEW p \in Paths, NEW file \in Files
      PROVE  /\ Whole(p, file) \in Piece /\ Whole(p, file).piece # "title"
             /\ Additions(p, CountLines(file)) \in Piece
             /\ Additions(p, CountLines(file)).piece # "title"
    BY DEF Whole, Additions, Piece, Numbers
<1>4. QED
    BY <1>1, <1>2, <1>3, NamesOfFew

LEMMA TitlesArePieces == \A s \in Seq(Titles) : s \in Seq(Piece)
<1>1. Titles \subseteq Piece
    BY DEF Piece
<1>2. QED
    BY <1>1, SeqMonotonic

\* The counters of a result are numbers.
LEMMA CountersAreNumbers ==
    ASSUME DeltaInv
    PROVE  Insertions \in Nat /\ Deletions \in Nat
<1>1. DOMAIN diff = 1 .. Len(diff) /\ Len(diff) \in Nat
    BY LenProperties DEF DeltaInv, DeltaType
<1>2. IsFiniteSet(DOMAIN diff)
    BY <1>1, FS_Interval
<1>3. ASSUME NEW sign
      PROVE  Count(sign) \in Nat
  <2>1. {k \in DOMAIN diff : diff[k].sign = sign} \in SUBSET DOMAIN diff
    OBVIOUS
  <2>2. QED
    BY <1>2, <2>1, FS_Subset, FS_CardinalityType DEF Count
<1>4. QED
    BY <1>3 DEF Insertions, Deletions

\* A report of a pair of files: the titles collected, then perhaps a piece.
ReportPiece ==
    {<<Stat(Insertions, Deletions)>>} \union {<<Listing(case.first[at].path, diff \o carried)>>}

LEMMA ReportOutput ==
    ASSUME WalkInv, DeltaInv, OutputType, ReportCounts \/ ReportLines
    PROVE  /\ out' = <<>>
           /\ printed' \in Seq(Piece) /\ Names(printed') = Names(printed) \union Names(out)
           /\ carried' \in Seq(DiffLine)
<1>1. /\ Commits /\ step \in {"delta", "report"} /\ out' = <<>>
      /\ \E piece \in {<<>>} \union ReportPiece : printed' = printed \o out \o piece
    BY DEF ReportCounts, ReportLines, Ready, ReportPiece
<1>2. case.first[at] \in Row
    BY <1>1, CaseLists DEF WalkInv, PairInv, ListsInv
<1>3. diff \o carried \in Seq(DiffLine)
    BY ConcatProperties DEF DeltaInv, DeltaType, OutputType
<1>4. \A piece \in {<<>>} \union ReportPiece : piece \in Seq(Piece) /\ Names(piece) = {}
  <2>1. /\ Stat(Insertions, Deletions) \in Piece
        /\ Names(<<Stat(Insertions, Deletions)>>) = {}
    BY CountersAreNumbers, OtherPieces DEF Numbers
  <2>2. /\ Listing(case.first[at].path, diff \o carried) \in Piece
        /\ Names(<<Listing(case.first[at].path, diff \o carried)>>) = {}
    BY <1>2, <1>3, OtherPieces DEF Row
  <2>3. <<>> \in Seq(Piece) /\ Names(<<>>) = {}
    BY EmptySeq, NamesOfFew
  <2> DEFINE x == Stat(Insertions, Deletions)
             y == Listing(case.first[at].path, diff \o carried)
  <2>4. ReportPiece = {<<x>>, <<y>>}
    BY DEF ReportPiece
  <2>5. x \in Piece /\ y \in Piece /\ Names(<<x>>) = {} /\ Names(<<y>>) = {}
    BY <2>1, <2>2
  <2> HIDE DEF x, y
  <2>6. <<x>> \in Seq(Piece) /\ <<y>> \in Seq(Piece)
    BY <2>5
  <2>7. QED
    BY <2>3, <2>4, <2>5, <2>6
<1>5. PICK piece \in Seq(Piece) : Names(piece) = {} /\ printed' = (printed \o out) \o piece
    BY <1>1, <1>4
<1>6. /\ printed \o out \in Seq(Piece)
      /\ Names(printed \o out) = Names(printed) \union Names(out)
    BY NamesOfConcat, TitlesArePieces DEF OutputType
<1>7. printed' \in Seq(Piece) /\ Names(printed') = Names(printed) \union Names(out)
  <2> DEFINE po == printed \o out
  <2>1. po \in Seq(Piece) /\ Names(po) = Names(printed) \union Names(out)
    BY <1>6
  <2>2. printed' = po \o piece
    BY <1>5
  <2> HIDE DEF po
  <2>3. po \o piece \in Seq(Piece) /\ Names(po \o piece) = Names(po) \union Names(piece)
    BY <2>1, NamesOfConcat
  <2>4. QED
    BY <1>5, <2>1, <2>2, <2>3
<1>8. carried' \in Seq(DiffLine)
    BY <1>3, EmptySeq DEF ReportCounts, ReportLines, OutputType
<1>9. QED
    BY <1>1, <1>7, <1>8

LEMMA NamesOfAppend ==
    ASSUME NEW s \in Seq(Piece), NEW x \in Piece
    PROVE  /\ Append(s, x) \in Seq(Piece)
           /\ Names(Append(s, x)) = Names(s) \union Names(<<x>>)
<1>1. <<x>> \in Seq(Piece) /\ Append(s, x) = s \o <<x>>
    OBVIOUS
<1>2. s \o <<x>> \in Seq(Piece) /\ Names(s \o <<x>>) = Names(s) \union Names(<<x>>)
    BY <1>1, NamesOfConcat
<1>3. QED
    BY <1>1, <1>2

LEMMA NamesOfTwo ==
    ASSUME NEW x \in Piece, NEW y \in Piece
    PROVE  <<x, y>> \in Seq(Piece) /\ Names(<<x, y>>) = Names(<<x>>) \union Names(<<y>>)
<1>1. Members(<<x, y>>) = {x, y} /\ Members(<<x>>) = {x} /\ Members(<<y>>) = {y}
  <2> DEFINE s == <<x, y>>
  <2>1. DOMAIN s = {1, 2}
    OBVIOUS
  <2>2. s[1] = x /\ s[2] = y
    OBVIOUS
  <2> HIDE DEF s
  <2>3. Members(s) = {x, y}
    BY <2>1, <2>2, Zenon DEF Members
  <2>4. Members(<<x>>) = {x}
    BY DEF Members
  <2>5. Members(<<y>>) = {y}
    BY DEF Members
  <2>6. QED
    BY <2>3, <2>4, <2>5 DEF s
<1>2. Names(<<x, y>>) = Names(<<x>>) \union Names(<<y>>)
    BY <1>1 DEF Names
<1>3. <<x, y>> \in Seq(Piece)
    OBVIOUS
<1>4. QED
    BY <1>2, <1>3

\* A title is added to those that wait.
LEMMA TitleWaits ==
    ASSUME OutputType, NEW p \in Paths, NEW q \in Paths \union {NoPath},
           out' = Append(out, Title(p, q))
    PROVE  /\ out' \in Seq(Titles)
           /\ Names(out') = Names(out) \union ({p, q} \ {NoPath})
<1>1. Title(p, q) \in Titles /\ Title(p, q) \in Piece
      /\ Names(<<Title(p, q)>>) = {p, q} \ {NoPath}
    BY TitlePiece
<1>2. out \in Seq(Titles) /\ out \in Seq(Piece)
    BY TitlesArePieces DEF OutputType
<1>3. Names(out') = Names(out) \union ({p, q} \ {NoPath})
    BY <1>1, <1>2, NamesOfAppend
<1>4. out' \in Seq(Titles)
    BY <1>1, <1>2
<1>5. QED
    BY <1>3, <1>4

LEMMA CommonFileOutput ==
    ASSUME WalkInv, OutputType, CommonFile
    PROVE  /\ OutputType'
           /\ Names(printed') = Names(printed)
           /\ Names(out') = Names(out) \union {case.first[at].path}
<1> DEFINE name == case.first[at].path
<1>1. /\ out' = Append(out, Title(name, name))
      /\ UNCHANGED <<carried, printed>>
    BY DEF CommonFile, result
<1>2. name \in Paths /\ name # NoPath
  <2>1. at \in DOMAIN case.first
    BY CommonFileFits
  <2>2. QED
    BY <2>1, CaseLists, CompareAssumption DEF WalkInv, ListsInv, Row
<1> HIDE DEF name
<1>3. out' \in Seq(Titles) /\ Names(out') = Names(out) \union {name}
    BY <1>1, <1>2, TitleWaits
<1>4. QED
    BY <1>1, <1>3 DEF OutputType, name

LEMMA FirstOnlyOutput ==
    ASSUME WalkInv, OutputType, FirstOnly
    PROVE  /\ OutputType'
           /\ Names(printed') = Names(printed)
           /\ Names(out') = Names(out) \union {case.first[at].path}
<1> DEFINE name == case.first[at].path
           file == case.first[at].text
<1>1. /\ at <= Len(case.first)
      /\ out' = Append(out, Title(name, NoPath))
      /\ printed' = Append(printed, Whole(name, file))
      /\ carried' = carried
    BY DEF FirstOnly, Walking, result
<1>2. name \in Paths /\ name # NoPath /\ file \in Files
  <2>1. at \in DOMAIN case.first
    BY <1>1, CaseLists DEF WalkInv, ListsInv
  <2>2. QED
    BY <2>1, CaseLists, CompareAssumption DEF WalkInv, ListsInv, Row
<1> HIDE DEF name, file
<1>3. out' \in Seq(Titles) /\ Names(out') = Names(out) \union {name}
    BY <1>1, <1>2, TitleWaits
<1>4. Whole(name, file) \in Piece /\ Names(<<Whole(name, file)>>) = {}
    BY <1>2, OtherPieces
<1>5. printed' \in Seq(Piece) /\ Names(printed') = Names(printed)
    BY <1>1, <1>4, NamesOfAppend DEF OutputType
<1>6. QED
    BY <1>1, <1>3, <1>5 DEF OutputType, name

LEMMA RestListedOutput ==
    ASSUME WalkInv, OutputType, RestListed
    PROVE  /\ OutputType'
           /\ Names(printed') = Names(printed) \union Names(out) \union {second[at].path}
           /\ Names(out') = {}
<1> DEFINE name == second[at].path
           file == second[at].text
           x == Title(NoPath, name)
           y == IF case.minimal THEN Whole(name, file) ELSE Additions(name, CountLines(file))
<1>1. /\ at <= Len(second)
      /\ printed' = printed \o out \o <<x, y>>
      /\ out' = <<>> /\ carried' = carried
    BY DEF RestListed, result
<1>2. name \in Paths /\ name # NoPath /\ file \in Files
  <2>1. at \in DOMAIN second
    BY <1>1, SecondList DEF WalkInv, ListsInv
  <2>2. QED
    BY <2>1, SecondList, CompareAssumption DEF WalkInv, Row
<1>3. x \in Piece /\ Names(<<x>>) = {name}
    BY <1>2, TitlePiece
<1>4. y \in Piece /\ Names(<<y>>) = {}
    BY <1>2, OtherPieces
<1>5. printed \in Seq(Piece) /\ out \in Seq(Piece)
    BY TitlesArePieces DEF OutputType
<1> HIDE DEF x, y, name
<1>6. /\ printed \o out \in Seq(Piece)
      /\ Names(printed \o out) = Names(printed) \union Names(out)
    BY <1>5, NamesOfConcat
<1>7. /\ <<x, y>> \in Seq(Piece) /\ Names(<<x, y>>) = {name}
    BY <1>3, <1>4, NamesOfTwo
<1> DEFINE po == printed \o out
           xy == <<x, y>>
<1>8. po \in Seq(Piece) /\ xy \in Seq(Piece) /\ printed' = po \o xy
    BY <1>1, <1>6, <1>7
<1> HIDE DEF po, xy
<1>9. po \o xy \in Seq(Piece) /\ Names(po \o xy) = Names(po) \union Names(xy)
    BY <1>8, NamesOfConcat
<1>10. Names(po) = Names(printed) \union Names(out) /\ Names(xy) = {name}
    BY <1>6, <1>7 DEF po, xy
<1>11. printed' \in Seq(Piece)
       /\ Names(printed') = Names(printed) \union Names(out) \union {name}
    BY <1>8, <1>9, <1>10
<1>12. <<>> \in Seq(Titles) /\ Names(<<>>) = {}
    BY EmptySeq, NamesOfFew
<1>13. QED
    BY <1>1, <1>11, <1>12 DEF OutputType, name

LEMMA GoneFileOutput ==
    ASSUME WalkInv, OutputType, GoneFile
    PROVE  OutputType' /\ Names(printed') = Names(printed)
<1> DEFINE name == second[at].path
           file == HeadText(name)
           x == IF case.minimal THEN Stat(0, CountLines(file)) ELSE Whole(name, file)
<1>1. /\ at <= Len(second) /\ Tracked(name) # {}
      /\ printed' = Append(printed, x)
      /\ UNCHANGED <<carried, out>>
    BY DEF GoneFile, Checking
<1>2. name \in Paths /\ file \in Files
  <2>1. at \in DOMAIN second
    BY <1>1, SecondList DEF WalkInv, ListsInv
  <2>2. file \in Files
    BY <1>1, HeadTextIsAFile DEF WalkInv
  <2>3. QED
    BY <2>1, <2>2, SecondList DEF WalkInv, Row
<1>3. 0 \in Numbers /\ CountLines(file) \in Numbers
    BY <1>2 DEF Numbers
<1> HIDE DEF name, file
<1>4. x \in Piece /\ Names(<<x>>) = {}
    BY <1>2, <1>3, OtherPieces
<1> HIDE DEF x
<1>5. printed' \in Seq(Piece) /\ Names(printed') = Names(printed)
    BY <1>1, <1>4, NamesOfAppend DEF OutputType
<1>6. QED
    BY <1>1, <1>5 DEF OutputType

LEMMA ReportFileOutput ==
    ASSUME WalkInv, DeltaInv, OutputType, ReportFile
    PROVE  /\ OutputType'
           /\ Names(printed') = Names(printed) \union
                                    (IF WorthSaying THEN {second[at].path} ELSE {})
<1> DEFINE name == second[at].path
           x == Title(name, name)
           y == IF case.minimal THEN Stat(Insertions, Deletions) ELSE Listing(name, diff)
<1>1. /\ WorkTree /\ step \in {"delta", "report"}
      /\ printed' = IF WorthSaying THEN printed \o <<x, y>> ELSE printed
      /\ UNCHANGED <<carried, out>>
    BY DEF ReportFile, Ready
<1>2. name \in Paths /\ name # NoPath
  <2>1. at \in DOMAIN second
    BY <1>1 DEF WalkInv, PairInv
  <2>2. QED
    BY <2>1, SecondList, CompareAssumption DEF WalkInv, Row
<1>3. Insertions \in Numbers /\ Deletions \in Numbers /\ diff \in Seq(DiffLine)
    BY CountersAreNumbers DEF Numbers, DeltaInv, DeltaType
<1> HIDE DEF name
<1>4. x \in Piece /\ Names(<<x>>) = {name}
    BY <1>2, TitlePiece
<1>5. y \in Piece /\ Names(<<y>>) = {}
    BY <1>2, <1>3, OtherPieces
<1> HIDE DEF x, y
<1>6. /\ <<x, y>> \in Seq(Piece) /\ Names(<<x, y>>) = {name}
    BY <1>4, <1>5, NamesOfTwo
<1> DEFINE xy == <<x, y>>
<1>7. xy \in Seq(Piece) /\ Names(xy) = {name} /\ printed \in Seq(Piece)
      /\ printed' = IF WorthSaying THEN printed \o xy ELSE printed
    BY <1>1, <1>6 DEF OutputType
<1> HIDE DEF xy
<1>8. printed \o xy \in Seq(Piece) /\ Names(printed \o xy) = Names(printed) \union Names(xy)
    BY <1>7, NamesOfConcat
<1>9. /\ printed' \in Seq(Piece)
      /\ Names(printed') = Names(printed) \union (IF WorthSaying THEN {name} ELSE {})
    BY <1>7, <1>8
<1>10. QED
    BY <1>1, <1>9 DEF OutputType, name

\* Other steps print nothing.
Silent ==
    \/ DeltaStep \/ EmptyCommit \/ FirstDone \/ RestSkipped \/ RestDone
    \/ Untracked \/ CheckFile \/ FilesDone \/ UNCHANGED vars

LEMMA SilentOutput == ASSUME Silent PROVE UNCHANGED <<result, out, printed>>
BY DEF Silent, DeltaStep, EmptyCommit, FirstDone, RestSkipped, RestDone, Untracked,
       CheckFile, FilesDone, vars, output

LEMMA Steps ==
    [Next]_vars => \/ Silent \/ CommonFile \/ FirstOnly \/ ReportCounts \/ ReportLines
                   \/ RestListed \/ GoneFile \/ ReportFile
BY DEF Next, Silent

LEMMA OutputInit == Init => OutputType
BY EmptySeq DEF Init, OutputType

LEMMA OutputStep ==
    ASSUME WalkInv, DeltaInv, OutputType, [Next]_vars
    PROVE  OutputType'
<1>1. CASE Silent
    BY <1>1, SilentOutput DEF OutputType, result
<1>2. CASE CommonFile
    BY <1>2, CommonFileOutput
<1>3. CASE FirstOnly
    BY <1>3, FirstOnlyOutput
<1>4. CASE ReportCounts \/ ReportLines
    BY <1>4, ReportOutput, EmptySeq DEF OutputType
<1>5. CASE RestListed
    BY <1>5, RestListedOutput
<1>6. CASE GoneFile
    BY <1>6, GoneFileOutput
<1>7. CASE ReportFile
    BY <1>7, ReportFileOutput
<1>8. QED
    BY <1>1, <1>2, <1>3, <1>4, <1>5, <1>6, <1>7, Steps

LEMMA DeltaInvHolds == Spec => []DeltaInv
BY ComparesByDelta, DeltaInvariant, PTL

\* What is in the shared result and on the screen are titles, lines of files
\* and names, whatever was compared.
THEOREM OutputInvariant == Spec => []OutputType
<1>1. WalkInv /\ DeltaInv /\ OutputType /\ [Next]_vars => OutputType'
    BY OutputStep
<1>2. QED
    BY <1>1, OutputInit, WalkInvariant, DeltaInvHolds, PTL DEF Spec

-----------------------------------------------------------------------------
(* Which files are named *)

\* Entries of the first commit that were looked up in the second one.
Passed ==
    IF step = "next" THEN 1 .. at - 1
    ELSE IF step \in {"delta", "report"} THEN 1 .. at
    ELSE DOMAIN case.first

LooksUp(l, k) ==
    case.first[l].path = case.second[k].path /\ case.second[k].flag # "DELETED"

\* The flag of an entry is NEW once it was looked up, and before as it was.
FlagInv ==
    Commits =>
        /\ step \in {"next", "delta", "report"} => at <= Len(case.first) + 1
        /\ \A k \in DOMAIN second :
                second[k].flag =
                    IF \E l \in Passed \intersect DOMAIN case.first : LooksUp(l, k)
                    THEN "NEW" ELSE case.second[k].flag

\* Looking names up does not change what is found.
FirstFound(name) ==
    {k \in DOMAIN case.second :
        case.second[k].path = name /\ case.second[k].flag # "DELETED"}

LEMMA FoundAtFirst ==
    ListsInv /\ FlagInv /\ Commits => \A name : Found(name) = FirstFound(name)
<1> SUFFICES ASSUME ListsInv, FlagInv, Commits, NEW name
             PROVE  Found(name) = FirstFound(name)
    OBVIOUS
<1>1. DOMAIN second = DOMAIN case.second
    BY SecondList
<1>2. \A k \in DOMAIN second :
          /\ second[k].path = case.second[k].path
          /\ second[k].flag # "DELETED" <=> case.second[k].flag # "DELETED"
    BY DEF ListsInv, FlagInv, LooksUp
<1>3. QED
    BY <1>1, <1>2 DEF Found, FirstFound

LEMMA RemovedKept ==
    ASSUME ListsInv, FlagInv, ListsInv', FlagInv', Commits, case' = case
    PROVE  Removed' = Removed
<1>1. Commits'
    BY DEF Commits
<1>2. \A name : Found(name) = FirstFound(name)
    BY FoundAtFirst
<1>3. (ListsInv /\ FlagInv /\ Commits => \A name : Found(name) = FirstFound(name))'
    BY FoundAtFirst, PTL
<1>4. \A name : FirstFound(name)' = FirstFound(name)
    BY DEF FirstFound
<1>5. \A name : Found(name)' = Found(name)
    BY <1>1, <1>2, <1>3, <1>4
<1>6. QED
    BY <1>5 DEF Removed

LEMMA FlagInit == Init => FlagInv
<1> SUFFICES ASSUME Init, Commits
             PROVE  FlagInv
    BY DEF FlagInv
<1>1. Len(case.first) \in Nat
    BY CaseLists DEF Init
<1>2. at = 1 /\ step = "next" /\ second = case.second
    BY DEF Init
<1>3. Passed = {}
    BY <1>2 DEF Passed
<1>4. QED
    BY <1>1, <1>2, <1>3 DEF FlagInv

LEMMA FlagStep ==
    ASSUME WalkInv, FlagInv, [Next]_vars
    PROVE  FlagInv'
<1>1. ListsInv /\ at \in Nat \ {0}
    BY DEF WalkInv, ListsInv
<1>2. DOMAIN case.first = 1 .. Len(case.first) /\ Len(case.first) \in Nat
    BY <1>1, CaseLists DEF ListsInv
<1>3. CASE CommonFile
  <2>1. /\ at \in DOMAIN case.first
        /\ partner' \in DOMAIN second
        /\ Found(case.first[at].path) = {partner'}
        /\ second' = [second EXCEPT ![partner'].flag = "NEW"]
    BY <1>3, CommonFileFits
  <2>2. /\ Commits /\ case' = case /\ at' = at /\ step = "next" /\ step' \in {"delta", "report"}
    BY <1>3 DEF CommonFile, Prepare, Walking
  <2>3. Passed = 1 .. at - 1 /\ Passed' = 1 .. at
    BY <2>2 DEF Passed
  <2>4. Passed' \intersect DOMAIN case'.first
            = (Passed \intersect DOMAIN case.first) \union {at}
    BY <1>1, <1>2, <2>1, <2>2, <2>3
  <2>5. \A k \in DOMAIN second : LooksUp(at, k) <=> k = partner'
    <3>1. {k \in DOMAIN case.second : LooksUp(at, k)} = {partner'}
        BY <1>1, <2>1, <2>2, FoundAtFirst DEF LooksUp, FirstFound
    <3>2. DOMAIN second = DOMAIN case.second
        BY <1>1, SecondList
    <3>3. QED
        BY <3>1, <3>2
  <2>6. \A l, k : LooksUp(l, k)' = LooksUp(l, k)
    BY <2>2 DEF LooksUp
  <2>7. ASSUME NEW k \in DOMAIN second
        PROVE  second'[k].flag =
                    IF \E l \in Passed' \intersect DOMAIN case'.first : LooksUp(l, k)'
                    THEN "NEW" ELSE case'.second[k].flag
    <3>1. CASE k = partner'
      <4>1. second[k] \in Row
        BY <1>1, <2>7, SecondList
      <4>2. second'[k].flag = "NEW"
        BY <2>1, <3>1, <4>1 DEF Row
      <4>3. \E l \in Passed' \intersect DOMAIN case'.first : LooksUp(l, k)'
        BY <2>4, <2>5, <2>6, <2>7, <3>1
      <4>4. QED
        BY <4>2, <4>3
    <3>2. CASE k # partner'
      <4>1. second'[k] = second[k]
        BY <2>1, <2>7, <3>2
      <4>2. (\E l \in Passed' \intersect DOMAIN case'.first : LooksUp(l, k)')
                <=> (\E l \in Passed \intersect DOMAIN case.first : LooksUp(l, k))
        BY <2>4, <2>5, <2>6, <2>7, <3>2
      <4>3. QED
        BY <2>2, <2>7, <4>1, <4>2 DEF FlagInv
    <3>3. QED
        BY <3>1, <3>2
  <2>8. DOMAIN second' = DOMAIN second /\ at' <= Len(case'.first) + 1
    BY <1>1, <1>2, <2>1, <2>2
  <2>9. QED
    BY <2>7, <2>8 DEF FlagInv
<1>4. CASE UNCHANGED <<case, second>> /\ Commits /\ ~CommonFile
  <2>1. \A l, k : LooksUp(l, k)' = LooksUp(l, k)
    BY <1>4 DEF LooksUp
  <2> DEFINE P == Passed \intersect DOMAIN case.first
  <2>2. SUFFICES /\ step' \in {"next", "delta", "report"} => at' <= Len(case.first) + 1
                 /\ \A k \in DOMAIN second :
                        (\E l \in Passed' \intersect DOMAIN case.first : LooksUp(l, k))
                            <=> (\E l \in P : LooksUp(l, k))
    BY <1>4, <2>1 DEF FlagInv
  <2>3. CASE UNCHANGED <<at, step>>
    BY <1>4, <2>3 DEF FlagInv, Passed
  <2>4. CASE DeltaStep \/ UNCHANGED vars
    <3>1. UNCHANGED <<at, step>>
        BY <2>4 DEF DeltaStep, vars, walk
    <3>2. QED
        BY <2>3, <3>1
  <2>5. CASE EmptyCommit
    <3>1. step' = "done" /\ (case.first = <<>> \/ second = <<>>)
        BY <2>5 DEF EmptyCommit
    <3>2. DOMAIN case.first = {} \/ DOMAIN second = {}
        BY <3>1
    <3>3. QED
        BY <3>1, <3>2
  <2>6. CASE FirstOnly
    <3>1. /\ step = "next" /\ at <= Len(case.first) /\ Found(case.first[at].path) = {}
          /\ step' = "next" /\ at' = at + 1
        BY <2>6 DEF FirstOnly, Walking, GoOn
    <3>2. Passed' \intersect DOMAIN case.first = P \union {at}
        BY <1>1, <1>2, <3>1 DEF Passed
    <3>3. \A k \in DOMAIN second : ~LooksUp(at, k)
      <4>1. {k \in DOMAIN case.second : LooksUp(at, k)} = {}
        BY <1>1, <1>4, <3>1, FoundAtFirst DEF LooksUp, FirstFound
      <4>2. QED
        BY <1>1, <4>1, SecondList
    <3>4. at' <= Len(case.first) + 1
        BY <1>1, <1>2, <3>1
    <3>5. QED
        BY <3>2, <3>3, <3>4
  <2>7. CASE ReportCounts \/ ReportLines
    <3>1. step \in {"delta", "report"} /\ step' = "next" /\ at' = at + 1
        BY <2>7 DEF ReportCounts, ReportLines, Ready, GoOn
    <3>2. at \in DOMAIN case.first
        BY <1>4, <3>1 DEF WalkInv, PairInv
    <3>3. Passed' = Passed /\ at' <= Len(case.first) + 1
        BY <1>1, <1>2, <3>1, <3>2 DEF Passed
    <3>4. QED
        BY <3>3
  <2>8. CASE FirstDone
    <3>1. step = "next" /\ at > Len(case.first) /\ step' = "rest"
        BY <2>8 DEF FirstDone
    <3>2. Passed' = DOMAIN case.first
        BY <1>4, <3>1 DEF Passed
    <3>3. P = DOMAIN case.first
        BY <1>1, <1>2, <3>1 DEF Passed
    <3>4. QED
        BY <3>1, <3>2, <3>3
  <2>9. CASE RestSkipped \/ RestListed \/ RestDone
    <3>1. step = "rest" /\ step' \in {"rest", "done"}
        BY <2>9 DEF RestSkipped, RestListed, RestDone
    <3>2. Passed' = Passed
        BY <1>4, <3>1 DEF Passed
    <3>3. QED
        BY <3>1, <3>2
  <2>10. CASE Untracked \/ GoneFile \/ CheckFile \/ ReportFile \/ FilesDone
    <3>1. WorkTree
        BY <2>10 DEF Untracked, GoneFile, CheckFile, ReportFile, FilesDone, Checking
    <3>2. QED
        BY <1>1, <1>4, <3>1, CaseLists DEF ListsInv
  <2>11. QED
    BY <1>4, <2>4, <2>5, <2>6, <2>7, <2>8, <2>9, <2>10 DEF Next
<1>5. CASE ~Commits
  <2>1. case' = case
    BY DEF Next, DeltaStep, EmptyCommit, CommonFile, FirstOnly, ReportCounts, ReportLines,
           FirstDone, RestSkipped, RestListed, RestDone, Untracked, GoneFile, CheckFile,
           ReportFile, FilesDone, vars
  <2>2. QED
    BY <1>5, <2>1 DEF FlagInv, Commits
<1>6. CommonFile \/ UNCHANGED <<case, second>>
  BY DEF Next, DeltaStep, EmptyCommit, FirstOnly, ReportCounts, ReportLines,
         FirstDone, RestSkipped, RestListed, RestDone, Untracked, GoneFile, CheckFile,
         ReportFile, FilesDone, vars, walk
<1>7. QED
    BY <1>3, <1>4, <1>5, <1>6

\* An entry of the second list that was looked up has DELTA_FLAG, whose value
\* is that of NEW, and any other the flag it was read with (delta.c:594).
THEOREM FlagInvariant == Spec => []FlagInv
<1>1. WalkInv /\ FlagInv /\ [Next]_vars => FlagInv'
    BY FlagStep
<1>2. QED
    BY <1>1, FlagInit, WalkInvariant, PTL DEF Spec

PathsAt(L) == {case.first[l].path : l \in L}

\* The entries at the end of the first k that the second commit does not have.
Ending(k) == {l \in 1 .. k : l .. k \subseteq Removed}

LastTitles == Ending(Len(case.first))

\* Entries of the second commit that were listed at the end.
ListedAfter == {k \in DOMAIN second : k < at /\ second[k].flag # "NEW"}

\* The titles that wait are those of the files at the end of what was walked
\* that only the first commit has, and all others are printed.
NamesInv ==
    Commits =>
        /\ step \in {"next", "delta", "report"} =>
              /\ Names(printed) = PathsAt((1 .. at - 1) \ Ending(at - 1))
              /\ Names(out) = PathsAt(Ending(at - 1)) \union
                                  (IF step = "next" THEN {} ELSE {case.first[at].path})
        /\ step \in {"rest", "done"} /\ case.first # <<>> /\ second # <<>> =>
              /\ Names(printed) =
                    PathsAt(DOMAIN case.first \ (IF ListedAfter = {} THEN LastTitles ELSE {}))
                        \union {second[k].path : k \in ListedAfter}
              /\ Names(out) = IF ListedAfter = {} THEN PathsAt(LastTitles) ELSE {}
        /\ step = "done" /\ case.first # <<>> /\ second # <<>> => at > Len(second)

LEMMA EndingOfMore ==
    ASSUME NEW k \in Nat
    PROVE  /\ k + 1 \in Removed => Ending(k + 1) = Ending(k) \union {k + 1}
           /\ k + 1 \notin Removed => Ending(k + 1) = {}
           /\ Ending(k) \subseteq 1 .. k
           /\ Ending(0) = {}
<1>1. ASSUME k + 1 \in Removed
      PROVE  Ending(k + 1) = Ending(k) \union {k + 1}
  <2>1. ASSUME NEW l \in 1 .. k
        PROVE  l .. k + 1 = (l .. k) \union {k + 1}
    BY <2>1
  <2>2. \A l \in 1 .. k : l \in Ending(k + 1) <=> l \in Ending(k)
    BY <1>1, <2>1 DEF Ending
  <2>3. k + 1 \in Ending(k + 1)
    <3>1. (k + 1) .. (k + 1) = {k + 1} /\ k + 1 \in 1 .. k + 1
        OBVIOUS
    <3>2. QED
        BY <1>1, <3>1 DEF Ending
  <2>4. 1 .. k + 1 = (1 .. k) \union {k + 1}
    OBVIOUS
  <2>5. Ending(k + 1) \subseteq 1 .. k + 1 /\ Ending(k) \subseteq 1 .. k
    BY DEF Ending
  <2>6. QED
    BY <2>2, <2>3, <2>4, <2>5
<1>2. ASSUME k + 1 \notin Removed
      PROVE  Ending(k + 1) = {}
  <2>1. \A l \in 1 .. k + 1 : k + 1 \in l .. k + 1
    OBVIOUS
  <2>2. QED
    BY <1>2, <2>1 DEF Ending
<1>3. Ending(k) \subseteq 1 .. k /\ Ending(0) = {}
    BY DEF Ending
<1>4. QED
    BY <1>1, <1>2, <1>3

LEMMA NamesInit == Init => NamesInv
<1> SUFFICES ASSUME Init
             PROVE  NamesInv
    OBVIOUS
<1>1. at = 1 /\ step = "next" /\ out = <<>> /\ printed = <<>>
    BY DEF Init
<1>2. Names(out) = {} /\ Names(printed) = {}
    BY <1>1, NamesOfFew
<1>3. Ending(at - 1) = {} /\ 1 .. at - 1 = {}
    BY <1>1, EndingOfMore
<1>4. QED
    BY <1>1, <1>2, <1>3 DEF NamesInv, PathsAt

\* A step that moves on in the list of the first commit.
LEMMA NamesMoveOn ==
    ASSUME ListsInv, Commits', case' = case, Removed' = Removed,
           step' = "next", at' = at + 1,
           Names(printed') = PathsAt((1 .. at) \ Ending(at)),
           Names(out') = PathsAt(Ending(at))
    PROVE  NamesInv'
<1>1. at' - 1 = at
    BY DEF ListsInv
<1>2. \A k : Ending(k)' = Ending(k)
    BY DEF Ending
<1>3. \A L : PathsAt(L)' = PathsAt(L)
    BY DEF PathsAt
<1>4. Names(printed)' = Names(printed') /\ Names(out)' = Names(out')
    BY DEF Names, Members
<1>5. /\ Names(printed)' = PathsAt((1 .. at - 1) \ Ending(at - 1))'
      /\ Names(out)' = PathsAt(Ending(at - 1))'
    BY <1>1, <1>2, <1>3, <1>4
<1>6. QED
    BY <1>5 DEF NamesInv

LEMMA NamesStep ==
    ASSUME WalkInv, DeltaInv, OutputType, FlagInv, FlagInv', NamesInv, [Next]_vars
    PROVE  NamesInv'
<1>1. /\ ListsInv /\ ListsInv' /\ at \in Nat \ {0}
    BY WalkStep DEF WalkInv, ListsInv
<1>2. DOMAIN case.first = 1 .. Len(case.first) /\ Len(case.first) \in Nat
    BY <1>1, CaseLists DEF ListsInv
<1>3. case' = case /\ Commits' = Commits
    BY DEF Next, DeltaStep, EmptyCommit, CommonFile, FirstOnly, ReportCounts, ReportLines,
           FirstDone, RestSkipped, RestListed, RestDone, Untracked, GoneFile, CheckFile,
           ReportFile, FilesDone, vars, Commits
<1>4. SUFFICES ASSUME Commits
               PROVE  NamesInv'
    BY <1>3 DEF NamesInv
<1>5. Removed' = Removed
    BY <1>1, <1>3, <1>4, RemovedKept
<1>6. /\ \A k : Ending(k)' = Ending(k)
      /\ \A L : PathsAt(L)' = PathsAt(L)
      /\ LastTitles' = LastTitles
    BY <1>3, <1>5 DEF Ending, PathsAt, LastTitles
<1>7. \A k \in Nat :
            /\ k + 1 \in Removed => Ending(k + 1) = Ending(k) \union {k + 1}
            /\ k + 1 \notin Removed => Ending(k + 1) = {}
            /\ Ending(k) \subseteq 1 .. k
    BY EndingOfMore
<1>8. at - 1 \in Nat /\ (at - 1) + 1 = at /\ 1 .. at = (1 .. at - 1) \union {at}
    BY <1>1
<1>9. /\ at \in Removed => Ending(at) = Ending(at - 1) \union {at}
      /\ at \notin Removed => Ending(at) = {}
      /\ at \notin Ending(at - 1) /\ Ending(at - 1) \subseteq 1 .. at - 1
    BY <1>7, <1>8
<1>10. CASE DeltaStep \/ UNCHANGED vars
  <2>1. UNCHANGED <<second, at, step, out, printed>>
    BY <1>10 DEF DeltaStep, vars, walk, output
  <2>2. /\ ListedAfter' = ListedAfter
        /\ Names(printed)' = Names(printed) /\ Names(out)' = Names(out)
    BY <2>1 DEF ListedAfter, Names, Members
  <2>3. QED
    BY <1>3, <1>6, <2>1, <2>2 DEF NamesInv
<1>11. CASE EmptyCommit
  <2>1. /\ step' = "done" /\ (case'.first = <<>> \/ second' = <<>>)
    BY <1>3, <1>11 DEF EmptyCommit
  <2>2. QED
    BY <2>1 DEF NamesInv
<1>12. CASE CommonFile
  <2>1. /\ step = "next" /\ step' \in {"delta", "report"} /\ at' = at
    BY <1>12 DEF CommonFile, Walking, Prepare
  <2>2. /\ Names(printed') = Names(printed)
        /\ Names(out') = Names(out) \union {case.first[at].path}
    BY <1>12, CommonFileOutput
  <2>3. /\ Names(printed) = PathsAt((1 .. at - 1) \ Ending(at - 1))
        /\ Names(out) = PathsAt(Ending(at - 1))
    BY <1>4, <2>1 DEF NamesInv
  <2>4. Names(printed)' = Names(printed') /\ Names(out)' = Names(out')
    BY DEF Names, Members
  <2>5. QED
    BY <1>3, <1>6, <2>1, <2>2, <2>3, <2>4 DEF NamesInv
<1>13. CASE FirstOnly
  <2>1. /\ step = "next" /\ step' = "next" /\ at' = at + 1
        /\ at <= Len(case.first) /\ Found(case.first[at].path) = {}
    BY <1>13 DEF FirstOnly, Walking, GoOn
  <2>2. /\ Names(printed') = Names(printed)
        /\ Names(out') = Names(out) \union {case.first[at].path}
    BY <1>13, FirstOnlyOutput
  <2>3. /\ Names(printed) = PathsAt((1 .. at - 1) \ Ending(at - 1))
        /\ Names(out) = PathsAt(Ending(at - 1))
    BY <1>4, <2>1 DEF NamesInv
  <2>4. at \in Removed
    BY <1>1, <1>2, <2>1 DEF Removed
  <2>5. (1 .. at) \ Ending(at) = (1 .. at - 1) \ Ending(at - 1)
    BY <1>8, <1>9, <2>4
  <2>6. PathsAt(Ending(at)) = PathsAt(Ending(at - 1)) \union {case.first[at].path}
    BY <1>9, <2>4 DEF PathsAt
  <2>7. QED
    BY <1>1, <1>3, <1>4, <1>5, <2>1, <2>2, <2>3, <2>5, <2>6, NamesMoveOn
<1>14. CASE ReportCounts \/ ReportLines
  <2>1. step \in {"delta", "report"} /\ step' = "next" /\ at' = at + 1
    BY <1>14 DEF ReportCounts, ReportLines, Ready, GoOn
  <2>2. Names(printed') = Names(printed) \union Names(out) /\ out' = <<>>
    BY <1>14, ReportOutput
  <2>3. /\ Names(printed) = PathsAt((1 .. at - 1) \ Ending(at - 1))
        /\ Names(out) = PathsAt(Ending(at - 1)) \union {case.first[at].path}
    BY <1>4, <2>1 DEF NamesInv
  <2>4. at \notin Removed
    BY <1>4, <2>1 DEF WalkInv, PairInv, Removed
  <2>5. Ending(at) = {}
    BY <1>9, <2>4
  <2>6. 1 .. at = ((1 .. at - 1) \ Ending(at - 1)) \union Ending(at - 1) \union {at}
    BY <1>8, <1>9
  <2>7. PathsAt((1 .. at) \ Ending(at)) = Names(printed')
    BY <2>2, <2>3, <2>5, <2>6 DEF PathsAt
  <2>8. PathsAt(Ending(at)) = {} /\ Names(out') = {}
    BY <2>2, <2>5, NamesOfFew DEF PathsAt
  <2>9. QED
    BY <1>1, <1>3, <1>4, <1>5, <2>1, <2>7, <2>8, NamesMoveOn
<1>15. CASE FirstDone
  <2>1. /\ step = "next" /\ step' = "rest" /\ at' = 1 /\ at > Len(case.first)
        /\ UNCHANGED <<second, out, printed>>
    BY <1>15 DEF FirstDone, output
  <2>2. at - 1 = Len(case.first)
    BY <1>1, <1>2, <1>4, <2>1 DEF FlagInv
  <2>3. /\ Names(printed) = PathsAt(DOMAIN case.first \ LastTitles)
        /\ Names(out) = PathsAt(LastTitles)
    BY <1>2, <1>4, <2>1, <2>2 DEF NamesInv, LastTitles
  <2>4. ListedAfter' = {}
    BY <1>1, <2>1, SecondList DEF ListedAfter
  <2>5. Names(printed)' = Names(printed) /\ Names(out)' = Names(out)
    BY <2>1 DEF Names, Members
  <2>6. {second'[k].path : k \in ListedAfter'} = {}
    BY <2>4
  <2>7. QED
    BY <1>3, <1>6, <2>1, <2>3, <2>4, <2>5, <2>6 DEF NamesInv
<1>16. CASE RestSkipped \/ RestDone
  <2>1. /\ step = "rest" /\ step' \in {"rest", "done"}
        /\ step' = "done" => at' = at /\ at > Len(second)
        /\ \/ at' = at
           \/ at' = at + 1 /\ second[at].flag = "NEW"
        /\ UNCHANGED <<second, out, printed>>
    BY <1>16 DEF RestSkipped, RestDone, output, DeltaFlag
  <2>2. ListedAfter' = ListedAfter
    <3>1. DOMAIN second \subseteq Nat
        BY <1>1, SecondList
    <3>2. \A k \in DOMAIN second : k < at + 1 <=> k < at \/ k = at
        BY <1>1, <3>1
    <3>3. QED
        BY <2>1, <3>2 DEF ListedAfter
  <2>3. Names(printed)' = Names(printed) /\ Names(out)' = Names(out)
    BY <2>1 DEF Names, Members
  <2>4. QED
    BY <1>3, <1>6, <2>1, <2>2, <2>3 DEF NamesInv
<1>17. CASE RestListed
  <2>1. /\ step = "rest" /\ step' = "rest" /\ at' = at + 1
        /\ at <= Len(second) /\ second[at].flag # "NEW"
        /\ second' = second
    BY <1>17 DEF RestListed, DeltaFlag
  <2>2. /\ Names(printed') = Names(printed) \union Names(out) \union {second[at].path}
        /\ Names(out') = {}
    BY <1>17, RestListedOutput
  <2>3. DOMAIN second = 1 .. Len(second) /\ Len(second) \in Nat
    BY <1>1, SecondList
  <2>4. ListedAfter' = ListedAfter \union {at}
    <3>1. at \in DOMAIN second /\ \A k \in DOMAIN second : k < at + 1 <=> k < at \/ k = at
        BY <1>1, <2>1, <2>3
    <3>2. QED
        BY <2>1, <3>1 DEF ListedAfter
  <2>5. {second'[k].path : k \in ListedAfter'}
            = {second[k].path : k \in ListedAfter} \union {second[at].path}
    BY <2>1, <2>4
  <2>6. ASSUME case.first # <<>>, second # <<>>
        PROVE  Names(printed) \union Names(out)
                    = PathsAt(DOMAIN case.first) \union {second[k].path : k \in ListedAfter}
    <3>1. LastTitles \subseteq DOMAIN case.first
        BY <1>2, <1>7 DEF LastTitles
    <3>2. CASE ListedAfter = {}
      <4>1. /\ Names(printed) = PathsAt(DOMAIN case.first \ LastTitles)
                                    \union {second[k].path : k \in ListedAfter}
            /\ Names(out) = PathsAt(LastTitles)
        BY <1>4, <2>1, <2>6, <3>2 DEF NamesInv
      <4>2. PathsAt(DOMAIN case.first \ LastTitles) \union PathsAt(LastTitles)
                = PathsAt(DOMAIN case.first)
        BY <3>1 DEF PathsAt
      <4>3. QED
        BY <4>1, <4>2
    <3>3. CASE ListedAfter # {}
      <4>1. /\ Names(printed) = PathsAt(DOMAIN case.first \ {})
                                    \union {second[k].path : k \in ListedAfter}
            /\ Names(out) = {}
        BY <1>4, <2>1, <2>6, <3>3 DEF NamesInv
      <4>2. DOMAIN case.first \ {} = DOMAIN case.first
        OBVIOUS
      <4>3. QED
        BY <4>1, <4>2
    <3>4. QED
        BY <3>2, <3>3
  <2>7. Names(printed)' = Names(printed') /\ Names(out)' = Names(out')
    BY DEF Names, Members
  <2>8. /\ ListedAfter' # {} /\ DOMAIN case.first \ {} = DOMAIN case.first
    BY <2>4
  <2>9. QED
    BY <1>3, <1>6, <2>1, <2>2, <2>5, <2>6, <2>7, <2>8 DEF NamesInv
<1>18. CASE Untracked \/ GoneFile \/ CheckFile \/ ReportFile \/ FilesDone
  <2>1. WorkTree
    BY <1>18 DEF Untracked, GoneFile, CheckFile, ReportFile, FilesDone, Checking
  <2>2. QED
    BY <1>1, <1>4, <2>1, CaseLists DEF ListsInv
<1>19. QED
    BY <1>10, <1>11, <1>12, <1>13, <1>14, <1>15, <1>16, <1>17, <1>18 DEF Next

\* The names of the files behind the walk are printed, but those of the files
\* at its end that only the first commit has, which wait in the result.
THEOREM NamesInvariant == Spec => []NamesInv
<1>1. WalkInv /\ DeltaInv /\ OutputType /\ FlagInv /\ FlagInv' /\ NamesInv /\ [Next]_vars
        => NamesInv'
    BY NamesStep
<1>2. QED
    BY <1>1, NamesInit, WalkInvariant, DeltaInvHolds, OutputInvariant, FlagInvariant, PTL
       DEF Spec

\* Which files a comparison of two commits names: all of them, but for those
\* that only the second has with the flag NEW, and those at the end of the
\* first one's list that only it has, if nothing is printed after them.
THEOREM ComparisonNamesFiles == Spec => []FilesNamed
<1>1. ListsInv /\ FlagInv /\ NamesInv => FilesNamed
  <2> SUFFICES ASSUME ListsInv, FlagInv, NamesInv, Commits, step = "done",
                      case.first # <<>>, second # <<>>
               PROVE  LET AddedOld == {k \in Added : case.second[k].flag # "NEW"}
                          Trailing == {l \in Removed : l .. Len(case.first) \subseteq Removed}
                          Late == IF AddedOld = {} THEN Trailing ELSE {}
                      IN  Named = {case.first[l].path : l \in DOMAIN case.first \ Late}
                                      \union {case.second[k].path : k \in AddedOld}
    BY DEF FilesNamed
  <2> DEFINE AddedOld == {k \in Added : case.second[k].flag # "NEW"}
             Trailing == {l \in Removed : l .. Len(case.first) \subseteq Removed}
  <2>1. /\ DOMAIN case.first = 1 .. Len(case.first) /\ Len(case.first) \in Nat
        /\ DOMAIN second = DOMAIN case.second
        /\ DOMAIN second = 1 .. Len(second) /\ Len(second) \in Nat
    BY CaseLists, SecondList DEF ListsInv
  <2>2. Named = Names(printed)
    BY DEF Named, Names, Shown, Members
  <2>3. Trailing = LastTitles
    <3>1. Removed \subseteq DOMAIN case.first
        BY DEF Removed
    <3>2. \A l \in 1 .. Len(case.first) : l \in l .. Len(case.first)
        BY <2>1
    <3>3. QED
        BY <2>1, <3>1, <3>2 DEF LastTitles, Ending
  <2>4. AddedOld = ListedAfter
    <3>1. at > Len(second) /\ at \in Nat
        BY DEF NamesInv, ListsInv
    <3>2. ListedAfter = {k \in DOMAIN second : second[k].flag # "NEW"}
        BY <2>1, <3>1 DEF ListedAfter
    <3>3. Passed \intersect DOMAIN case.first = DOMAIN case.first
        BY DEF Passed
    <3>4. ASSUME NEW k \in DOMAIN second
          PROVE  second[k].flag # "NEW" <=>
                    /\ case.second[k].flag # "NEW"
                    /\ ~ \E l \in DOMAIN case.first : LooksUp(l, k)
        BY <3>3, <3>4 DEF FlagInv
    <3>5. Added = {k \in DOMAIN case.second : ~ \E l \in DOMAIN case.first : LooksUp(l, k)}
        BY DEF Added, LooksUp
    <3>6. QED
        BY <2>1, <3>2, <3>4, <3>5
  <2>5. {second[k].path : k \in ListedAfter} = {case.second[k].path : k \in ListedAfter}
    BY DEF ListsInv, ListedAfter
  <2>6. Names(printed) =
            PathsAt(DOMAIN case.first \ (IF ListedAfter = {} THEN LastTitles ELSE {}))
                \union {second[k].path : k \in ListedAfter}
    BY DEF NamesInv
  <2> HIDE DEF AddedOld, Trailing
  <2>7. Named = {case.first[l].path :
                    l \in DOMAIN case.first \ (IF AddedOld = {} THEN Trailing ELSE {})}
                  \union {case.second[k].path : k \in AddedOld}
    BY <2>2, <2>3, <2>4, <2>5, <2>6 DEF PathsAt
  <2>8. QED
    BY <2>7 DEF AddedOld, Trailing
<1>2. QED
    BY <1>1, WalkInvariant, FlagInvariant, NamesInvariant, PTL DEF WalkInv

-----------------------------------------------------------------------------
(* Which lines are shown *)

\* The lines a file is cut into are lines of it, whatever byte is in front.
LEMMA CutLines ==
    ASSUME NEW file, NEW b \in BOOLEAN
    PROVE  /\ file # <<>> \/ ~b => LinesAt(file, SplitInPlace(file, b)) = MostLinesOf(file)
           /\ file # <<>> \/ b => LinesAt(file, SplitInPlace(file, b)) = LinesOf(file)
           /\ LinesOf(<<>>) = <<>>
           /\ \A k \in DOMAIN LinesAt(file, SplitInPlace(file, b)) :
                /\ k \in DOMAIN MostLinesOf(file)
                /\ LinesAt(file, SplitInPlace(file, b))[k] = MostLinesOf(file)[k]
<1>1. file # <<>> \/ ~b => LinesAt(file, SplitInPlace(file, b)) = MostLinesOf(file)
    BY DEF MostLinesOf, SplitInPlace
<1>2. file # <<>> \/ b => LinesAt(file, SplitInPlace(file, b)) = LinesOf(file)
    BY DEF LinesOf, SplitInPlace
<1>3. LinesOf(<<>>) = <<>>
  <2>1. SplitInPlace(<<>>, TRUE) = <<0>>
    BY DEF SplitInPlace
  <2>2. Len(<<0>>) - 1 = 0
    OBVIOUS
  <2>3. LinesAt(<<>>, <<0>>) = <<>>
    BY <2>2 DEF LinesAt
  <2>4. QED
    BY <2>1, <2>3 DEF LinesOf
<1>4. CASE file = <<>> /\ b
  <2>1. LinesAt(file, SplitInPlace(file, b)) = <<>>
    BY <1>2, <1>3, <1>4
  <2>2. DOMAIN LinesAt(file, SplitInPlace(file, b)) = {}
    BY <2>1
  <2>3. QED
    BY <1>1, <1>2, <1>3, <2>2
<1>5. CASE ~(file = <<>> /\ b)
    BY <1>1, <1>2, <1>3, <1>5
<1>6. QED
    BY <1>4, <1>5

\* Lines that are shown are lines of the two files, each one once.
ShownOnce(shown, was, is) ==
    /\ \A x \in DOMAIN shown :
            LET file == IF shown[x].sign = "-" THEN was ELSE is
            IN  shown[x].index \in DOMAIN file /\ shown[x].text = file[shown[x].index]
    /\ \A x, y \in DOMAIN shown :
            <<shown[x].sign, shown[x].index>> = <<shown[y].sign, shown[y].index>> => x = y

LEMMA ResultShownOnce ==
    ASSUME WalkInv, DeltaInv, Ready
    PROVE  ShownOnce(diff, MostLinesOf(OldText), MostLinesOf(NewText))
<1>1. CASE step = "report"
  <2>1. DOMAIN diff = {}
    BY <1>1 DEF WalkInv, PairInv
  <2>2. QED
    BY <2>1 DEF ShownOnce
<1>2. CASE step # "report"
  <2>1. step = "delta" /\ phase = "result"
    BY <1>2 DEF Ready
  <2>2. PICK b \in BOOLEAN : old = LinesAt(OldText, SplitInPlace(OldText, b))
    BY <2>1 DEF WalkInv, PairInv
  <2>3. PICK c \in BOOLEAN : new = LinesAt(NewText, SplitInPlace(NewText, c))
    BY <2>1 DEF WalkInv, PairInv
  <2>4. ListedTexts /\ EveryLineOnce /\ i \in 0 .. n /\ j \in 0 .. m
    BY <2>1 DEF DeltaInv, TraceInv
  <2>5. /\ n \in Nat /\ m \in Nat /\ DOMAIN old = 1 .. n /\ DOMAIN new = 1 .. m
        /\ DOMAIN diff = 1 .. Len(diff) /\ Len(diff) \in Nat
    BY LenProperties DEF DeltaInv, DeltaType, n, m
  <2>6. \A x \in DOMAIN diff : diff[x] \in DiffLine
    BY ElementOfSeq, <2>5 DEF DeltaInv, DeltaType
  <2>7. ASSUME NEW x \in DOMAIN diff
        PROVE  LET file == IF diff[x].sign = "-" THEN MostLinesOf(OldText)
                           ELSE MostLinesOf(NewText)
               IN  diff[x].index \in DOMAIN file /\ diff[x].text = file[diff[x].index]
    <3>1. diff[x].sign \in {"+", "-"}
        BY <2>6, <2>7 DEF DiffLine
    <3>2. diff[x].index \in Listed(diff[x].sign)
        BY <2>7 DEF Listed
    <3>3. CASE diff[x].sign = "-"
      <4>1. diff[x].index \in (i + 1) .. n
        BY <2>4, <3>2, <3>3 DEF EveryLineOnce
      <4>2. diff[x].index \in DOMAIN old /\ diff[x].text = old[diff[x].index]
        BY <2>4, <2>5, <2>7, <3>3, <4>1 DEF ListedTexts
      <4>3. \A k \in DOMAIN old : k \in DOMAIN MostLinesOf(OldText)
                                    /\ old[k] = MostLinesOf(OldText)[k]
        BY <2>2, CutLines
      <4>4. QED
        BY <3>3, <4>2, <4>3
    <3>4. CASE diff[x].sign = "+"
      <4>1. diff[x].index \in (j + 1) .. m
        BY <2>4, <3>2, <3>4 DEF EveryLineOnce
      <4>2. diff[x].index \in DOMAIN new /\ diff[x].text = new[diff[x].index]
        BY <2>4, <2>5, <2>7, <3>4, <4>1 DEF ListedTexts
      <4>3. \A k \in DOMAIN new : k \in DOMAIN MostLinesOf(NewText)
                                    /\ new[k] = MostLinesOf(NewText)[k]
        BY <2>3, CutLines
      <4>4. QED
        BY <3>4, <4>2, <4>3
    <3>5. QED
        BY <3>1, <3>3, <3>4
  <2>8. ASSUME NEW x \in DOMAIN diff, NEW y \in DOMAIN diff,
               <<diff[x].sign, diff[x].index>> = <<diff[y].sign, diff[y].index>>
        PROVE  x = y
    <3>1. diff[x].sign = diff[y].sign /\ diff[x].index = diff[y].index
        BY <2>8
    <3>2. diff[x].index \in Nat /\ x \in Nat /\ y \in Nat
        BY <2>5, <2>6, <2>8 DEF DiffLine
    <3>3. ~(x < y) /\ ~(y < x)
        BY <2>4, <3>1, <3>2 DEF ListedTexts
    <3>4. QED
        BY <3>2, <3>3
  <2>9. QED
    BY <2>7, <2>8 DEF ShownOnce
<1>3. QED
    BY <1>1, <1>2

\* A section of a file, by the place of the file in the two lists.
OwnSection(x) ==
    /\ \E l \in DOMAIN case.first : case.first[l].path = x.of
    /\ \E k \in DOMAIN case.second : case.second[k].path = x.of
    /\ \A l \in DOMAIN case.first, k \in DOMAIN case.second :
            /\ case.first[l].path = x.of /\ case.second[k].path = x.of
            /\ Cardinality((1 .. l - 1) \ Removed) < 2
            => ShownOnce(x.lines, MostLinesOf(case.first[l].text),
                         MostLinesOf(case.second[k].text))

\* Nothing is carried over from the first file of both commits.
SectionInv ==
    /\ appended \in Nat
    /\ carried # <<>> => appended >= 2
    /\ Commits /\ ~case.minimal /\ step \in {"next", "delta", "report"} =>
            appended = Cardinality((1 .. at - 1) \ Removed)
    /\ \A x \in Members(printed) : x.piece = "lines" => OwnSection(x)

LEMMA SectionInit == Init => SectionInv
<1> SUFFICES ASSUME Init
             PROVE  SectionInv
    OBVIOUS
<1>1. appended = 0 /\ carried = <<>> /\ at = 1 /\ printed = <<>>
    BY DEF Init
<1>2. (1 .. at - 1) \ Removed = {} /\ Members(printed) = {}
    BY <1>1 DEF Members
<1>3. QED
    BY <1>1, <1>2, FS_EmptySet DEF SectionInv

\* The sections that a step prints.
NewSections ==
    (IF ReportLines /\ step = "delta"
     THEN {Listing(case.first[at].path, diff \o carried)} ELSE {})
    \union (IF ReportFile THEN {Listing(second[at].path, diff)} ELSE {})

LEMMA OnlyNewSections ==
    ASSUME WalkInv, DeltaInv, OutputType, OutputType', [Next]_vars,
           NEW x \in Members(printed'), x.piece = "lines"
    PROVE  x \in Members(printed) \union NewSections
<1>1. /\ printed \in Seq(Piece) /\ out \in Seq(Piece) /\ printed' \in Seq(Piece)
      /\ \A y \in Members(out) : y.piece = "title"
  <2>1. \A y \in Members(out) : y \in Titles
    BY ElementOfSeq, LenProperties DEF OutputType, Members
  <2>2. QED
    BY <2>1, TitlesArePieces DEF OutputType, Titles
<1>2. ASSUME NEW s \in Seq(Piece), NEW y
      PROVE  Members(Append(s, y)) \subseteq Members(s) \union {y}
    BY DEF Members
<1>3. ASSUME NEW s, NEW t \in Seq(Piece), NEW u, s = printed \o t \o u, s \in Seq(Piece),
             u \in Seq(Piece)
      PROVE  Members(s) = Members(printed) \union Members(t) \union Members(u)
  <2> DEFINE v == printed \o t
  <2>1. v \in Seq(Piece) /\ Members(v) = Members(printed) \union Members(t)
    BY <1>1, <1>3, ConcatMembers, Zenon
  <2>2. s = v \o u
    BY <1>3
  <2> HIDE DEF v
  <2>3. v \in Seq(Piece) /\ u \in Seq(Piece)
    BY <1>3, <2>1
  <2>4. Members(v \o u) = Members(v) \union Members(u)
    BY <2>3, ConcatMembers
  <2>5. QED
    BY <2>1, <2>2, <2>4
<1>4. CASE Silent
    BY <1>4, SilentOutput
<1>5. CASE CommonFile
    BY <1>5 DEF CommonFile
<1>6. CASE FirstOnly
  <2>1. /\ printed' = Append(printed, Whole(case.first[at].path, case.first[at].text))
    BY <1>6 DEF FirstOnly
  <2>2. Whole(case.first[at].path, case.first[at].text).piece # "lines"
    BY DEF Whole
  <2>3. QED
    BY <1>1, <1>2, <2>1, <2>2
<1>7. CASE ReportCounts
  <2> DEFINE u == IF diff = <<>> THEN <<>> ELSE <<Stat(Insertions, Deletions)>>
  <2>1. printed' = printed \o out \o u
    BY <1>7 DEF ReportCounts
  <2>2. u \in Seq(Piece) /\ \A y \in Members(u) : y.piece # "lines"
    <3>1. Stat(Insertions, Deletions) \in Piece
        BY CountersAreNumbers, OtherPieces DEF Numbers
    <3>2. Stat(Insertions, Deletions).piece # "lines"
        BY DEF Stat
    <3> DEFINE y == Stat(Insertions, Deletions)
    <3>3. y \in Piece /\ y.piece # "lines"
        BY <3>1, <3>2
    <3> HIDE DEF y
    <3>4. <<y>> \in Seq(Piece) /\ Members(<<y>>) = {y}
        BY <3>3 DEF Members
    <3>5. <<>> \in Seq(Piece) /\ Members(<<>>) = {}
        BY EmptySeq DEF Members
    <3>6. u = <<>> \/ u = <<y>>
        BY DEF y
    <3> HIDE DEF u
    <3>7. QED
        BY <3>3, <3>4, <3>5, <3>6
  <2> HIDE DEF u
  <2>3. Members(printed') = Members(printed) \union Members(out) \union Members(u)
    BY <1>1, <1>3, <2>1, <2>2
  <2>4. QED
    BY <1>1, <2>2, <2>3
<1>8. CASE ReportLines
  <2> DEFINE y == Listing(case.first[at].path, diff \o carried)
             u == IF step = "report" \/ totals'.ins + totals'.del = 0 THEN <<>> ELSE <<y>>
  <2>1. printed' = printed \o out \o u /\ step \in {"delta", "report"}
    BY <1>8 DEF ReportLines, Ready
  <2>2. y \in Piece
    <3>1. case.first[at] \in Row
        BY <1>8, <2>1, CaseLists DEF ReportLines, WalkInv, PairInv, ListsInv
    <3>2. diff \o carried \in Seq(DiffLine)
        BY ConcatProperties DEF DeltaInv, DeltaType, OutputType
    <3>3. QED
        BY <3>1, <3>2, OtherPieces DEF Row
  <2>3. y \in NewSections \/ u = <<>>
    BY <1>8, <2>1 DEF NewSections
  <2> HIDE DEF y
  <2>4. <<y>> \in Seq(Piece) /\ Members(<<y>>) = {y}
    BY <2>2 DEF Members
  <2>5. <<>> \in Seq(Piece) /\ Members(<<>>) = {}
    BY EmptySeq DEF Members
  <2>6. u = <<>> \/ u = <<y>>
    OBVIOUS
  <2> HIDE DEF u
  <2>7. u \in Seq(Piece)
    BY <2>4, <2>5, <2>6
  <2>8. printed' = printed \o out \o u
    BY <2>1
  <2>9. Members(printed') = Members(printed) \union Members(out) \union Members(u)
    BY <1>1, <1>3, <2>7, <2>8
  <2>10. QED
    BY <1>1, <2>3, <2>4, <2>5, <2>6, <2>9
<1>9. CASE RestListed
  <2> DEFINE y == Title(NoPath, second[at].path)
             z == IF case.minimal THEN Whole(second[at].path, second[at].text)
                  ELSE Additions(second[at].path, CountLines(second[at].text))
  <2>1. printed' = printed \o out \o <<y, z>> /\ at <= Len(second)
    BY <1>9 DEF RestListed
  <2>2. second[at] \in Row
    BY <2>1, SecondList DEF WalkInv, ListsInv
  <2>3. y \in Piece /\ z \in Piece
    BY <2>2, TitlePiece, OtherPieces DEF Row
  <2>4. y.piece # "lines" /\ z.piece # "lines"
    BY DEF Title, Whole, Additions
  <2> HIDE DEF y, z
  <2> DEFINE u == <<y, z>>
  <2>5. u \in Seq(Piece)
    BY <2>3
  <2>6. Members(u) \subseteq {y, z}
    BY DEF Members
  <2>7. printed' = printed \o out \o u
    BY <2>1
  <2> HIDE DEF u
  <2>8. Members(printed') = Members(printed) \union Members(out) \union Members(u)
    BY <1>1, <1>3, <2>5, <2>7
  <2>9. QED
    BY <1>1, <2>4, <2>6, <2>8
<1>10. CASE GoneFile
  <2> DEFINE lines == CountLines(HeadText(second[at].path))
             y == IF case.minimal THEN Stat(0, lines)
                  ELSE Whole(second[at].path, HeadText(second[at].path))
  <2>1. printed' = Append(printed, y)
    BY <1>10 DEF GoneFile
  <2>2. y.piece # "lines"
    BY DEF Stat, Whole
  <2>3. QED
    BY <1>1, <1>2, <2>1, <2>2
<1>11. CASE ReportFile
  <2> DEFINE y == Title(second[at].path, second[at].path)
             z == IF case.minimal THEN Stat(Insertions, Deletions)
                  ELSE Listing(second[at].path, diff)
             u == <<y, z>>
  <2>1. /\ printed' = printed \/ printed' = printed \o u
        /\ WorkTree /\ step \in {"delta", "report"}
    BY <1>11 DEF ReportFile, Ready
  <2>2. second[at] \in Row
    BY <2>1, SecondList DEF WalkInv, ListsInv, PairInv
  <2>3. y \in Piece /\ z \in Piece
    BY <2>2, TitlePiece, OtherPieces, CountersAreNumbers
       DEF Row, Numbers, DeltaInv, DeltaType
  <2>4. y.piece # "lines" /\ (z.piece = "lines" => z \in NewSections)
    BY <1>11 DEF Title, Stat, NewSections
  <2> HIDE DEF y, z
  <2>5. u \in Seq(Piece)
    BY <2>3
  <2>6. Members(u) \subseteq {y, z}
    BY DEF Members
  <2> HIDE DEF u
  <2>7. Members(printed \o u) = Members(printed) \union Members(u)
    BY <1>1, <2>5, ConcatMembers, Zenon
  <2>8. QED
    BY <2>1, <2>4, <2>6, <2>7
<1>12. QED
    BY <1>4, <1>5, <1>6, <1>7, <1>8, <1>9, <1>10, <1>11, Steps

LEMMA NewSectionsOwn ==
    ASSUME WalkInv, DeltaInv, SectionInv, NEW x \in NewSections
    PROVE  OwnSection(x)
<1>1. /\ ListsInv /\ Once(case.first) /\ Once(case.second)
      /\ DOMAIN second = DOMAIN case.second
    BY CaseLists, SecondList DEF WalkInv, ListsInv
<1>2. CASE ReportLines /\ step = "delta" /\ x = Listing(case.first[at].path, diff \o carried)
  <2>1. /\ Commits /\ ~case.minimal /\ Ready
        /\ x.of = case.first[at].path /\ x.lines = diff \o carried
    BY <1>2 DEF ReportLines, Listing
  <2>2. at \in DOMAIN case.first /\ partner \in Found(case.first[at].path)
    BY <1>2, <2>1 DEF WalkInv, PairInv
  <2>3. /\ partner \in DOMAIN case.second /\ case.second[partner].path = x.of
        /\ case.second[partner].text = NewText /\ case.first[at].text = OldText
    BY <1>1, <2>1, <2>2 DEF Found, ListsInv, NewText, OldText
  <2>4. ASSUME Cardinality((1 .. at - 1) \ Removed) < 2
        PROVE  ShownOnce(x.lines, MostLinesOf(OldText), MostLinesOf(NewText))
    <3>1. appended < 2 /\ appended \in Nat
        BY <1>2, <2>1, <2>4 DEF SectionInv
    <3>2. carried = <<>>
        BY <3>1 DEF SectionInv
    <3>3. diff \o carried = diff
        BY <3>2, ConcatEmptySeq DEF DeltaInv, DeltaType
    <3>4. QED
        BY <2>1, <3>3, ResultShownOnce
  <2>5. ASSUME NEW l \in DOMAIN case.first, NEW k \in DOMAIN case.second,
               case.first[l].path = x.of, case.second[k].path = x.of
        PROVE  l = at /\ k = partner
    BY <1>1, <2>1, <2>2, <2>3, <2>5 DEF Once
  <2>6. QED
    BY <2>1, <2>2, <2>3, <2>4, <2>5 DEF OwnSection
<1>3. CASE ReportFile /\ x = Listing(second[at].path, diff)
  <2>1. /\ WorkTree /\ Ready /\ step \in {"delta", "report"}
        /\ x.of = second[at].path /\ x.lines = diff
    BY <1>3 DEF ReportFile, Listing, Ready
  <2>2. at \in DOMAIN second /\ ~Commits
    BY <1>1, <2>1, CaseLists DEF WalkInv, PairInv, ListsInv
  <2>3. PICK l0 \in Tracked(second[at].path) : TRUE
    BY <2>1 DEF WalkInv, PairInv
  <2>4. /\ l0 \in DOMAIN case.first /\ case.first[l0].path = x.of
        /\ HeadText(second[at].path) = case.first[l0].text
    BY <1>1, <2>1, <2>3, HeadTextIsAFile DEF Tracked
  <2>5. /\ at \in DOMAIN case.second /\ case.second[at].path = x.of
        /\ case.second[at].text = NewText /\ case.first[l0].text = OldText
    BY <1>1, <2>1, <2>2, <2>4 DEF ListsInv, NewText, OldText
  <2>6. ShownOnce(x.lines, MostLinesOf(OldText), MostLinesOf(NewText))
    BY <2>1, ResultShownOnce
  <2>7. ASSUME NEW l \in DOMAIN case.first, NEW k \in DOMAIN case.second,
               case.first[l].path = x.of, case.second[k].path = x.of
        PROVE  l = l0 /\ k = at
    BY <1>1, <2>4, <2>5, <2>7 DEF Once
  <2>8. QED
    BY <2>4, <2>5, <2>6, <2>7 DEF OwnSection
<1>4. QED
    BY <1>2, <1>3 DEF NewSections

LEMMA SectionStep ==
    ASSUME WalkInv, DeltaInv, OutputType, OutputType', FlagInv, FlagInv', SectionInv,
           [Next]_vars
    PROVE  SectionInv'
<1>1. ListsInv /\ ListsInv' /\ at \in Nat \ {0} /\ (Commits <=> ~WorkTree)
    BY WalkStep, CaseLists DEF WalkInv, ListsInv
<1>2. case' = case /\ Commits' = Commits
    BY DEF Next, DeltaStep, EmptyCommit, CommonFile, FirstOnly, ReportCounts, ReportLines,
           FirstDone, RestSkipped, RestListed, RestDone, Untracked, GoneFile, CheckFile,
           ReportFile, FilesDone, vars, Commits
<1>3. Removed' = Removed
  <2>1. CASE Commits
    BY <1>1, <1>2, <2>1, RemovedKept
  <2>2. CASE WorkTree
    <3>1. second' = second
        BY <1>1, <2>2 DEF Next, DeltaStep, EmptyCommit, CommonFile, FirstOnly, ReportCounts,
           ReportLines, FirstDone, RestSkipped, RestListed, RestDone, Untracked, GoneFile,
           CheckFile, ReportFile, FilesDone, vars, walk
    <3>2. QED
        BY <1>2, <3>1 DEF Removed, Found
  <2>3. QED
    BY <1>1, <2>1, <2>2
<1>4. \A x : OwnSection(x)' = OwnSection(x)
    BY <1>2, <1>3 DEF OwnSection
<1>5. ASSUME NEW x \in Members(printed'), x.piece = "lines"
      PROVE  OwnSection(x)'
  <2>1. x \in Members(printed) \union NewSections
    BY <1>5, OnlyNewSections
  <2>2. OwnSection(x)
    BY <1>5, <2>1, NewSectionsOwn DEF SectionInv
  <2>3. QED
    BY <1>4, <2>2
<1>6. Members(printed)' = Members(printed')
    BY DEF Members
<1>7. SUFFICES /\ appended' \in Nat
               /\ carried' # <<>> => appended' >= 2
               /\ Commits /\ ~case.minimal /\ step' \in {"next", "delta", "report"} =>
                        appended' = Cardinality((1 .. at' - 1) \ Removed)
    BY <1>2, <1>3, <1>5, <1>6 DEF SectionInv
<1>8. CASE ReportLines
  <2>1. /\ Commits /\ ~case.minimal /\ step \in {"delta", "report"}
        /\ step' = "next" /\ at' = at + 1
        /\ carried' = (IF appended = 0 THEN <<>> ELSE diff \o carried)
        /\ appended' = appended + 1
    BY <1>8 DEF ReportLines, Ready, GoOn
  <2>2. appended \in Nat /\ appended = Cardinality((1 .. at - 1) \ Removed)
    BY <2>1 DEF SectionInv
  <2>3. at \notin Removed
    BY <2>1 DEF WalkInv, PairInv, Removed
  <2> DEFINE D == (1 .. at - 1) \ Removed
  <2>4. IsFiniteSet(D) /\ at \notin D
    <3>1. IsFiniteSet(1 .. at - 1)
        BY <1>1, FS_Interval
    <3>2. QED
        BY <1>1, <3>1, FS_Subset
  <2>5. (1 .. at' - 1) \ Removed = D \union {at}
    BY <1>1, <2>1, <2>3
  <2>6. Cardinality(D \union {at}) = Cardinality(D) + 1
    BY <2>4, FS_AddElement
  <2>7. appended' = Cardinality((1 .. at' - 1) \ Removed)
    BY <2>1, <2>2, <2>5, <2>6
  <2>8. appended' \in Nat /\ (carried' # <<>> => appended' >= 2)
    BY <2>1, <2>2
  <2>9. QED
    BY <2>7, <2>8
<1>9. CASE ~ReportLines
  <2>1. UNCHANGED <<carried, appended>>
    BY <1>9 DEF Next, DeltaStep, EmptyCommit, CommonFile, FirstOnly, ReportCounts,
           FirstDone, RestSkipped, RestListed, RestDone, Untracked, GoneFile,
           CheckFile, ReportFile, FilesDone, vars, result
  <2>2. ASSUME Commits, ~case.minimal, step' \in {"next", "delta", "report"}
        PROVE  appended = Cardinality((1 .. at' - 1) \ Removed)
    <3>1. CASE FirstOnly
      <4>1. /\ step = "next" /\ at' = at + 1
            /\ at <= Len(case.first) /\ Found(case.first[at].path) = {}
        BY <3>1 DEF FirstOnly, Walking, GoOn
      <4>2. at \in Removed
        BY <1>1, <4>1, CaseLists DEF Removed, ListsInv
      <4>3. (1 .. at' - 1) \ Removed = (1 .. at - 1) \ Removed
        BY <1>1, <4>1, <4>2
      <4>4. QED
        BY <2>2, <4>1, <4>3 DEF SectionInv
    <3>2. CASE ~FirstOnly
      <4>1. at' = at /\ step \in {"next", "delta", "report"}
        BY <1>1, <1>9, <2>2, <3>2 DEF Next, DeltaStep, EmptyCommit, CommonFile, ReportCounts,
           FirstDone, RestSkipped, RestListed, RestDone, Untracked, GoneFile,
           CheckFile, ReportFile, FilesDone, vars, walk, Walking, Checking
      <4>2. QED
        BY <2>2, <4>1 DEF SectionInv
    <3>3. QED
        BY <3>1, <3>2
  <2>3. QED
    BY <2>1, <2>2 DEF SectionInv
<1>10. QED
    BY <1>8, <1>9

\* The sections of the first two files in both commits show lines of these
\* files, and nothing is carried over before the second of them.
THEOREM SectionInvariant == Spec => []SectionInv
<1>1. WalkInv /\ DeltaInv /\ OutputType /\ OutputType' /\ FlagInv /\ FlagInv' /\ SectionInv
        /\ [Next]_vars => SectionInv'
    BY SectionStep
<1>2. QED
    BY <1>1, SectionInit, WalkInvariant, DeltaInvHolds, OutputInvariant, FlagInvariant, PTL
       DEF Spec

\* The section of a file shows lines of the two versions of this file, each
\* one once, if at most one file before it is in both commits.
THEOREM SectionsShowOwnLines == Spec => []OwnLines
<1>1. ListsInv /\ SectionInv => OwnLines
  <2> SUFFICES ASSUME ListsInv, SectionInv,
                      NEW k \in DOMAIN printed, printed[k].piece = "lines"
               PROVE  LET name == printed[k].of
                          place == CHOOSE l \in DOMAIN case.first : case.first[l].path = name
                          was == MostLinesOf(case.first[place].text)
                          is == MostLinesOf(second[CHOOSE l \in DOMAIN second :
                                                       second[l].path = name].text)
                      IN  Cardinality((1 .. place - 1) \ Removed) < 2 =>
                              ShownOnce(printed[k].lines, was, is)
    BY DEF OwnLines, ShownOnce
  <2> DEFINE name == printed[k].of
             place == CHOOSE l \in DOMAIN case.first : case.first[l].path = name
             other == CHOOSE l \in DOMAIN second : second[l].path = name
  <2>1. OwnSection(printed[k])
    BY DEF SectionInv, Members
  <2>2. place \in DOMAIN case.first /\ case.first[place].path = name
    BY <2>1 DEF OwnSection
  <2>3. DOMAIN second = DOMAIN case.second
    BY SecondList
  <2>4. \E l \in DOMAIN second : second[l].path = name
    BY <2>1, <2>3 DEF OwnSection, ListsInv
  <2>5. other \in DOMAIN second /\ second[other].path = name
    BY <2>4
  <2> HIDE DEF place, other
  <2>6. /\ other \in DOMAIN case.second /\ case.second[other].path = name
        /\ case.second[other].text = second[other].text
    BY <2>3, <2>5 DEF ListsInv
  <2>7. Cardinality((1 .. place - 1) \ Removed) < 2 =>
            ShownOnce(printed[k].lines, MostLinesOf(case.first[place].text),
                      MostLinesOf(second[other].text))
    BY <2>1, <2>2, <2>6 DEF OwnSection
  <2>8. QED
    BY <2>7 DEF place, other
<1>2. QED
    BY <1>1, WalkInvariant, SectionInvariant, PTL DEF WalkInv

-----------------------------------------------------------------------------
(* What is not reported *)

LEMMA SuffixByLines ==
    ASSUME NEW S, NEW s \in Seq(S), NEW t \in Seq(S), Len(s) <= Len(t),
           \A x \in 1 .. Len(s) : s[x] = t[Len(t) - Len(s) + x]
    PROVE  IsSuffix(s, t)
<1> DEFINE l == Len(s)
           k == Len(t)
           rs == Reverse(s)
           rt == Reverse(t)
<1>1. l \in Nat /\ k \in Nat /\ l <= k /\ DOMAIN s = 1 .. l /\ DOMAIN t = 1 .. k
    BY LenProperties
<1>2. /\ rs = [x \in 1 .. l |-> s[(l - x) + 1]]
      /\ rt = [x \in 1 .. k |-> t[(k - x) + 1]]
    BY DEF Reverse
<1>3. /\ \A x \in 1 .. l : s[(l - x) + 1] \in S
      /\ \A x \in 1 .. k : t[(k - x) + 1] \in S
    BY <1>1, ElementOfSeq
<1>4. ASSUME NEW x \in 1 .. l
      PROVE  s[(l - x) + 1] = t[(k - x) + 1]
  <2>1. (l - x) + 1 \in 1 .. l /\ (k - l) + ((l - x) + 1) = (k - x) + 1
    BY <1>1
  <2>2. s[(l - x) + 1] = t[(k - l) + ((l - x) + 1)]
    BY <2>1
  <2>3. QED
    BY <2>1, <2>2
<1> HIDE DEF l, k
<1>5. rs \in Seq(S) /\ rt \in Seq(S) /\ Len(rs) = l /\ Len(rt) = k
    BY <1>1, <1>2, <1>3, LenProperties
<1>6. \A x \in 1 .. l : rs[x] = rt[x]
    BY <1>1, <1>2, <1>4
<1> HIDE DEF rs, rt
<1>7. SubSeq(rs, 1, l) = SubSeq(rt, 1, l)
    BY <1>1, <1>5, <1>6
<1>8. IsPrefix(rs, rt)
    BY <1>1, <1>5, <1>7 DEF IsPrefix
<1>9. QED
    BY <1>8 DEF IsSuffix, rs, rt

\* Two lists of lines with the same lines from two places on, one of which
\* is the beginning.
LEMMA SameEnds ==
    ASSUME NEW S, NEW s \in Seq(S), NEW t \in Seq(S),
           NEW a \in 0 .. Len(s), NEW b \in 0 .. Len(t), a = 0 \/ b = 0,
           Len(s) - a = Len(t) - b,
           \A x \in 1 .. Len(t) - b : t[b + x] = s[a + x]
    PROVE  EndsAlike(s, t)
<1> DEFINE k == Len(s)
           l == Len(t)
<1>1. k \in Nat /\ l \in Nat /\ a \in 0 .. k /\ b \in 0 .. l /\ k - a = l - b
    BY LenProperties
<1>2. \A x \in 1 .. l - b : t[b + x] = s[a + x]
    OBVIOUS
<1> HIDE DEF k, l
<1>3. CASE a = 0
  <2>1. k <= l /\ \A x \in 1 .. k : x \in 1 .. l - b /\ a + x = x /\ l - k + x = b + x
    BY <1>1, <1>3
  <2>2. \A x \in 1 .. k : s[x] = t[l - k + x]
    BY <1>2, <2>1
  <2>3. QED
    BY <2>1, <2>2, SuffixByLines DEF EndsAlike, k, l
<1>4. CASE b = 0
  <2>1. l <= k /\ \A x \in 1 .. l : x \in 1 .. l - b /\ b + x = x /\ k - l + x = a + x
    BY <1>1, <1>4
  <2>2. \A x \in 1 .. l : t[x] = s[k - l + x]
    BY <1>2, <2>1
  <2>3. QED
    BY <2>1, <2>2, SuffixByLines DEF EndsAlike, k, l
<1>5. QED
    BY <1>3, <1>4

\* One line taken out.
LEMMA WithoutLine ==
    ASSUME NEW S, NEW s \in Seq(S), NEW d \in 1 .. Len(s)
    PROVE  /\ RemoveAt(s, d) \in Seq(S) /\ Len(RemoveAt(s, d)) = Len(s) - 1
           /\ \A x \in 1 .. Len(s) - 1 :
                RemoveAt(s, d)[x] = s[IF x < d THEN x ELSE x + 1]
<1> DEFINE l == Len(s)
           u == SubSeq(s, 1, d - 1)
           v == SubSeq(s, d + 1, Len(s))
<1>1. l \in Nat /\ d \in 1 .. l
    BY LenProperties
<1>2. /\ u \in Seq(S) /\ Len(u) = d - 1
      /\ \A x \in 1 .. d - 1 : u[x] = s[x]
    BY <1>1
<1>3. /\ v \in Seq(S) /\ Len(v) = l - d
      /\ \A x \in 1 .. l - d : v[x] = s[d + x]
    BY <1>1
<1> HIDE DEF l, u, v
<1>4. /\ u \o v \in Seq(S) /\ Len(u \o v) = l - 1
      /\ \A x \in 1 .. l - 1 : (u \o v)[x] = IF x < d THEN u[x] ELSE v[x - (d - 1)]
  <2>1. /\ u \o v \in Seq(S) /\ Len(u \o v) = Len(u) + Len(v)
        /\ \A x \in 1 .. Len(u) + Len(v) :
              (u \o v)[x] = IF x <= Len(u) THEN u[x] ELSE v[x - Len(u)]
    BY <1>2, <1>3, ConcatProperties, Zenon
  <2>2. /\ u \o v \in Seq(S) /\ Len(u \o v) = (d - 1) + (l - d)
        /\ \A x \in 1 .. (d - 1) + (l - d) :
              (u \o v)[x] = IF x <= d - 1 THEN u[x] ELSE v[x - (d - 1)]
    BY <1>2, <1>3, <2>1, Zenon
  <2>3. (d - 1) + (l - d) = l - 1 /\ \A x \in 1 .. l - 1 : x <= d - 1 <=> x < d
    BY <1>1
  <2>4. QED
    BY <2>2, <2>3
<1>5. ASSUME NEW x \in 1 .. l - 1
      PROVE  (u \o v)[x] = s[IF x < d THEN x ELSE x + 1]
  <2>1. CASE x < d
    <3>1. x \in 1 .. d - 1
        BY <1>1, <2>1
    <3>2. QED
        BY <1>2, <1>4, <2>1, <3>1
  <2>2. CASE ~(x < d)
    <3>1. x - (d - 1) \in 1 .. l - d /\ d + (x - (d - 1)) = x + 1
        BY <1>1, <2>2
    <3>2. v[x - (d - 1)] = s[d + (x - (d - 1))]
        BY <1>3, <3>1
    <3>3. QED
        BY <1>4, <2>2, <3>1, <3>2
  <2>3. QED
    BY <2>1, <2>2
<1>6. QED
    BY <1>4, <1>5 DEF RemoveAt, l, u, v

\* The files are equal but for leading lines of one and one deleted line.
Similar(was, is) ==
    \/ EndsAlike(was, is)
    \/ \E l \in DOMAIN was : EndsAlike(RemoveAt(was, l), is)

\* A result of no insertion and at most one deletion is no line, or a deleted one.
LEMMA FewLines ==
    ASSUME DeltaInv, Insertions = 0, Deletions <= 1
    PROVE  diff = <<>> \/ (Len(diff) = 1 /\ diff[1].sign = "-")
<1> DEFINE P(sign) == {k \in DOMAIN diff : diff[k].sign = sign}
<1>1. /\ diff \in Seq(DiffLine) /\ DOMAIN diff = 1 .. Len(diff) /\ Len(diff) \in Nat
      /\ \A k \in DOMAIN diff : diff[k] \in DiffLine
    BY LenProperties, ElementOfSeq DEF DeltaInv, DeltaType
<1>2. IsFiniteSet(DOMAIN diff)
    BY <1>1, FS_Interval
<1>3. ASSUME NEW sign
      PROVE  IsFiniteSet(P(sign)) /\ Count(sign) = Cardinality(P(sign))
  <2>1. P(sign) \in SUBSET DOMAIN diff
    OBVIOUS
  <2>2. QED
    BY <1>2, <2>1, FS_Subset DEF Count
<1>4. P("+") = {}
  <2>1. Cardinality(P("+")) = 0
    BY <1>3 DEF Insertions
  <2> DEFINE Q == P("+")
  <2>2. IsFiniteSet(Q) /\ Cardinality(Q) = 0
    BY <1>3, <2>1
  <2> HIDE DEF Q
  <2>3. Q = {}
    BY <2>2, FS_EmptySet
  <2>4. QED
    BY <2>3 DEF Q
<1>5. P("-") = DOMAIN diff
    BY <1>1, <1>4 DEF DiffLine
<1>6. Cardinality(DOMAIN diff) = Len(diff)
    BY <1>1, FS_Interval
<1>7. Len(diff) <= 1
    BY <1>3, <1>5, <1>6 DEF Deletions
<1>8. CASE Len(diff) = 0
    BY <1>1, <1>8, EmptySeq
<1>9. CASE Len(diff) = 1
    BY <1>1, <1>5, <1>9
<1>10. QED
    BY <1>1, <1>7, <1>8, <1>9

\* A suffix of every list.
LEMMA NoLinesAtTheEnd ==
    ASSUME NEW S, NEW s \in Seq(S)
    PROVE  EndsAlike(<<>>, s) /\ EndsAlike(s, <<>>)
<1>1. <<>> \in Seq(S) /\ Len(<<>>) = 0 /\ Len(s) \in Nat
    BY EmptySeq, LenProperties
<1>2. /\ Len(<<>>) <= Len(s)
      /\ \A x \in 1 .. Len(<<>>) : <<>>[x] = s[Len(s) - Len(<<>>) + x]
    BY <1>1
<1>3. IsSuffix(<<>>, s)
    BY <1>1, <1>2, SuffixByLines
<1>4. QED
    BY <1>3 DEF EndsAlike

\* What is listed of two files tells how they differ.
LEMMA LittleListedSimilar ==
    ASSUME DeltaInv, LengthInv, EndsInv, phase = "result",
           Insertions = 0, Deletions <= 1
    PROVE  Similar(old, new)
<1>1. /\ old \in Seq(Line) /\ new \in Seq(Line)
      /\ i \in 0 .. Len(old) /\ j \in 0 .. Len(new) /\ n = Len(old) /\ m = Len(new)
      /\ Len(old) \in Nat /\ Len(new) \in Nat
      /\ i = 0 \/ j = 0
    BY LenProperties DEF DeltaInv, DeltaType, TraceInv, LengthInv, n, m
<1>2. CASE diff = <<>>
  <2>1. n - i = m - j /\ \A t \in 1 .. m - j : new[j + t] = old[i + t]
    BY <1>2 DEF EndsInv
  <2>2. EndsAlike(old, new)
    BY <1>1, <2>1, SameEnds
  <2>3. QED
    BY <2>2 DEF Similar
<1>3. CASE Len(diff) = 1 /\ diff[1].sign = "-"
  <2> DEFINE d == diff[1].index
             r == RemoveAt(old, d)
  <2>1. /\ d \in (i + 1) .. n /\ n - i - 1 = m - j
        /\ \A t \in 1 .. m - j : new[j + t] = old[IF i + t < d THEN i + t ELSE i + t + 1]
    BY <1>3 DEF EndsInv
  <2>2. d \in 1 .. Len(old)
    BY <1>1, <2>1
  <2> HIDE DEF d
  <2>3. /\ r \in Seq(Line) /\ Len(r) = Len(old) - 1
        /\ \A x \in 1 .. Len(old) - 1 : r[x] = old[IF x < d THEN x ELSE x + 1]
    BY <1>1, <2>2, WithoutLine
  <2> HIDE DEF r
  <2>4. i \in 0 .. Len(r) /\ Len(r) - i = Len(new) - j
    BY <1>1, <2>1, <2>3
  <2>5. ASSUME NEW t \in 1 .. Len(new) - j
        PROVE  new[j + t] = r[i + t]
    <3>1. i + t \in 1 .. Len(old) - 1 /\ t \in 1 .. m - j
        BY <1>1, <2>1
    <3>2. QED
        BY <2>1, <2>3, <3>1
  <2>6. EndsAlike(r, new)
    BY <1>1, <2>3, <2>4, <2>5, SameEnds
  <2>7. d \in DOMAIN old
    BY <1>1, <2>2, LenProperties
  <2>8. QED
    BY <2>6, <2>7 DEF Similar, r
<1>4. QED
    BY <1>2, <1>3, FewLines

\* The same of the two texts that are compared.
LEMMA UnsaidIsSimilar ==
    ASSUME WalkInv, DeltaInv, LengthInv, EndsInv, Ready, ~WorthSaying,
           OldText \in Files, NewText \in Files
    PROVE  Similar(LinesOf(OldText), LinesOf(NewText))
<1>1. \A file \in Files : LinesOf(file) \in Seq(Line)
    BY CompareAssumption DEF LinesOf
<1>2. CASE step = "report"
  <2>1. OldText = NewText
    BY <1>2 DEF WalkInv, PairInv
  <2> DEFINE s == LinesOf(OldText)
  <2>2. s \in Seq(Line) /\ LinesOf(NewText) = s
    BY <1>1, <2>1
  <2> HIDE DEF s
  <2>3. EndsAlike(s, s)
    <3>1. /\ Len(s) <= Len(s)
          /\ \A x \in 1 .. Len(s) : s[x] = s[Len(s) - Len(s) + x]
        BY <2>2, LenProperties
    <3>2. QED
        BY <2>2, <3>1, SuffixByLines DEF EndsAlike
  <2>4. QED
    BY <2>2, <2>3 DEF Similar, s
<1>3. CASE step # "report" /\ (OldText = <<>> \/ NewText = <<>>)
  <2>1. LinesOf(OldText) = <<>> \/ LinesOf(NewText) = <<>>
    BY <1>3, CutLines
  <2>2. EndsAlike(LinesOf(OldText), LinesOf(NewText))
    BY <1>1, <2>1, NoLinesAtTheEnd
  <2>3. QED
    BY <2>2 DEF Similar
<1>4. CASE step # "report" /\ OldText # <<>> /\ NewText # <<>>
  <2>1. step = "delta" /\ phase = "result"
    BY <1>4 DEF Ready
  <2>2. PICK b \in BOOLEAN : old = LinesAt(OldText, SplitInPlace(OldText, b))
    BY <2>1 DEF WalkInv, PairInv
  <2>3. PICK c \in BOOLEAN : new = LinesAt(NewText, SplitInPlace(NewText, c))
    BY <2>1 DEF WalkInv, PairInv
  <2>4. old = LinesOf(OldText) /\ new = LinesOf(NewText)
    BY <1>4, <2>2, <2>3, CutLines
  <2>5. Insertions = 0 /\ Deletions <= 1
    BY CountersAreNumbers DEF WorthSaying
  <2>6. Similar(old, new)
    BY <2>1, <2>5, LittleListedSimilar
  <2>7. QED
    BY <2>4, <2>6
<1>5. QED
    BY <1>2, <1>3, <1>4

Unsaid(k) ==
    Tracked(second[k].path) # {} /\ second[k].flag # "GONE"
        /\ second[k].path \notin Names(printed)

\* Files that were walked past without a word are similar.
QuietInv ==
    WorkTree =>
        /\ \A k \in DOMAIN second : k < at /\ Unsaid(k) =>
                Similar(LinesOf(HeadText(second[k].path)), LinesOf(second[k].text))
        /\ step = "done" => at > Len(second)

LEMMA QuietInit == Init => QuietInv
<1> SUFFICES ASSUME Init
             PROVE  QuietInv
    OBVIOUS
<1>1. /\ at = 1 /\ step # "done"
      /\ \A k \in DOMAIN second : k \in Nat \ {0}
    BY WalkInit, SecondList DEF Init, WalkInv
<1>2. QED
    BY <1>1 DEF QuietInv

LEMMA QuietStep ==
    ASSUME WalkInv, DeltaInv, LengthInv, EndsInv, OutputType, QuietInv, [Next]_vars
    PROVE  QuietInv'
<1> SUFFICES ASSUME WorkTree'
             PROVE  QuietInv'
    BY DEF QuietInv
<1>1. ListsInv /\ at \in Nat \ {0} /\ ~Commits /\ WorkTree /\ step # "rest"
      /\ case' = case
  <2>1. case' = case
    BY DEF Next, DeltaStep, EmptyCommit, CommonFile, FirstOnly, ReportCounts, ReportLines,
           FirstDone, RestSkipped, RestListed, RestDone, Untracked, GoneFile, CheckFile,
           ReportFile, FilesDone, vars
  <2>2. WorkTree
    BY <2>1 DEF WorkTree
  <2>3. QED
    BY <2>1, <2>2, CaseLists DEF WalkInv, ListsInv
<1>2. \/ DeltaStep \/ CheckFile \/ UNCHANGED vars \/ FilesDone
      \/ Untracked \/ GoneFile \/ ReportFile
    BY <1>1 DEF Next, EmptyCommit, CommonFile, FirstOnly, ReportCounts, ReportLines,
           FirstDone, RestSkipped, RestListed, RestDone
<1>3. second' = second
    BY <1>2 DEF DeltaStep, CheckFile, FilesDone, Untracked, GoneFile, ReportFile, vars, walk
<1>4. /\ DOMAIN second = 1 .. Len(second) /\ Len(second) \in Nat
      /\ \A k \in DOMAIN second : second[k] \in Row
    BY <1>1, SecondList
<1>5. Names(printed) \subseteq Names(printed')
  <2>1. CASE Silent
    BY <2>1, SilentOutput
  <2>2. CASE GoneFile
    BY <2>2, GoneFileOutput
  <2>3. CASE ReportFile
    BY <2>3, ReportFileOutput
  <2>4. QED
    BY <1>2, <2>1, <2>2, <2>3 DEF Silent
<1>6. \A name : Tracked(name)' = Tracked(name) /\ HeadText(name)' = HeadText(name)
    BY <1>1 DEF Tracked, HeadText
<1>7. \A k : Unsaid(k)' <=> /\ Tracked(second[k].path) # {} /\ second[k].flag # "GONE"
                            /\ second[k].path \notin Names(printed')
    BY <1>3, <1>6 DEF Unsaid, Names, Members
<1>8. \A k : Unsaid(k)' => Unsaid(k)
    BY <1>5, <1>7 DEF Unsaid
<1>9. SUFFICES
        /\ \A k \in DOMAIN second : k < at' /\ Unsaid(k)' =>
                Similar(LinesOf(HeadText(second[k].path)), LinesOf(second[k].text))
        /\ step' = "done" => at' > Len(second)
    BY <1>3, <1>6 DEF QuietInv
<1>10. CASE DeltaStep \/ CheckFile \/ UNCHANGED vars \/ FilesDone
  <2>1. at' = at /\ (step' = "done" => at > Len(second))
    <3>1. CASE DeltaStep
        BY <3>1 DEF DeltaStep, walk
    <3>2. CASE CheckFile
        BY <3>2 DEF CheckFile, Prepare
    <3>3. CASE UNCHANGED vars
        BY <1>1, <3>3 DEF vars, walk, QuietInv
    <3>4. CASE FilesDone
        BY <3>4 DEF FilesDone
    <3>5. QED
        BY <1>10, <3>1, <3>2, <3>3, <3>4
  <2>2. QED
    BY <1>1, <1>8, <2>1 DEF QuietInv
<1>11. CASE Untracked \/ GoneFile \/ ReportFile
  <2>1. at' = at + 1 /\ step' = "next"
    BY <1>11 DEF Untracked, GoneFile, ReportFile, GoOn
  <2>2. ASSUME NEW k \in DOMAIN second, k < at', Unsaid(k)'
        PROVE  Similar(LinesOf(HeadText(second[k].path)), LinesOf(second[k].text))
    <3>1. CASE k < at
        BY <1>1, <1>8, <2>2, <3>1 DEF QuietInv
    <3>2. CASE k = at
      <4>1. /\ Tracked(second[at].path) # {} /\ second[at].flag # "GONE"
            /\ second[at].path \notin Names(printed')
        BY <1>7, <2>2, <3>2
      <4>2. ReportFile
        BY <1>11, <4>1 DEF Untracked, GoneFile
      <4>3. ~WorthSaying
        BY <4>1, <4>2, ReportFileOutput
      <4>4. /\ OldText = HeadText(second[at].path) /\ NewText = second[at].text
            /\ Ready
        BY <1>1, <4>2 DEF OldText, NewText, ReportFile
      <4>5. OldText \in Files /\ NewText \in Files
        BY <1>1, <1>4, <2>2, <3>2, <4>1, <4>4, HeadTextIsAFile DEF Row
      <4>6. QED
        BY <3>2, <4>3, <4>4, <4>5, UnsaidIsSimilar
    <3>3. QED
        BY <1>1, <1>4, <2>1, <2>2, <3>1, <3>2
  <2>3. QED
    BY <2>1, <2>2
<1>12. QED
    BY <1>2, <1>10, <1>11

\* A file behind the walk that nothing was said of differs from that of HEAD
\* in leading lines of one of them and one deleted line.
THEOREM QuietInvariant == Spec => []QuietInv
<1>1. WalkInv /\ DeltaInv /\ LengthInv /\ EndsInv /\ OutputType /\ QuietInv /\ [Next]_vars
        => QuietInv'
    BY QuietStep
<1>2. QED
    BY <1>1, QuietInit, WalkInvariant, ComparesByDelta, DeltaInvHolds, LengthInvariant,
       LittleListed, OutputInvariant, PTL DEF Spec

\* `compare' says nothing of a tracked file of the work tree only if it and
\* the file of HEAD are the same but for leading lines of one of them, and
\* for one deleted line.
THEOREM QuietFilesAreAlike == Spec => []QuietChange
<1>1. ListsInv /\ QuietInv => QuietChange
  <2> SUFFICES ASSUME ListsInv, QuietInv, WorkTree, step = "done",
                      NEW k \in DOMAIN second,
                      Tracked(second[k].path) # {}, second[k].flag # "GONE",
                      second[k].path \notin Named
               PROVE  Similar(LinesOf(HeadText(second[k].path)), LinesOf(second[k].text))
    BY DEF QuietChange, Similar
  <2>1. k < at
    BY SecondList DEF QuietInv, ListsInv
  <2>2. Named = Names(printed)
    BY DEF Named, Names, Shown, Members
  <2>3. Unsaid(k)
    BY <2>2 DEF Unsaid
  <2>4. QED
    BY <2>1, <2>3 DEF QuietInv
<1>2. QED
    BY <1>1, WalkInvariant, QuietInvariant, PTL DEF WalkInv

-----------------------------------------------------------------------------
(* How a file is cut into lines *)

LEMMA Joined ==
    ASSUME NEW S, NEW s \in Seq(S), NEW a \in 0 .. Len(s), NEW b \in a .. Len(s)
    PROVE  SubSeq(s, 1, a) \o SubSeq(s, a + 1, b) = SubSeq(s, 1, b)
<1> DEFINE l == Len(s)
           u == SubSeq(s, 1, a)
           v == SubSeq(s, a + 1, b)
           w == SubSeq(s, 1, b)
<1>1. l \in Nat /\ a \in 0 .. l /\ b \in a .. l
    BY LenProperties
<1>2. /\ u \in Seq(S) /\ Len(u) = a
      /\ \A x \in 1 .. a : u[x] = s[x]
    BY <1>1
<1>3. /\ v \in Seq(S) /\ Len(v) = b - a
      /\ \A x \in 1 .. b - a : v[x] = s[a + x]
    BY <1>1
<1>4. /\ w \in Seq(S) /\ Len(w) = b
      /\ \A x \in 1 .. b : w[x] = s[x]
    BY <1>1
<1> HIDE DEF l, u, v, w
<1>5. /\ u \o v \in Seq(S) /\ Len(u \o v) = b
      /\ \A x \in 1 .. b : (u \o v)[x] = s[x]
  <2>1. /\ u \o v \in Seq(S) /\ Len(u \o v) = Len(u) + Len(v)
        /\ \A x \in 1 .. Len(u) + Len(v) :
              (u \o v)[x] = IF x <= Len(u) THEN u[x] ELSE v[x - Len(u)]
    BY <1>2, <1>3, ConcatProperties, Zenon
  <2>2. Len(u) + Len(v) = b
    BY <1>1, <1>2, <1>3
  <2>3. ASSUME NEW x \in 1 .. b
        PROVE  (u \o v)[x] = s[x]
    <3>1. CASE x <= a
        BY <1>1, <1>2, <2>1, <2>2, <3>1
    <3>2. CASE ~(x <= a)
      <4>1. x - a \in 1 .. b - a /\ a + (x - a) = x
        BY <1>1, <3>2
      <4>2. v[x - a] = s[x]
        BY <1>3, <4>1
      <4>3. QED
        BY <1>1, <1>2, <2>1, <2>2, <3>2, <4>2
    <3>3. QED
        BY <3>1, <3>2
  <2>4. QED
    BY <2>1, <2>2, <2>3
<1>6. u \o v = w
    BY <1>4, <1>5, SeqEqual
<1>7. QED
    BY <1>6 DEF u, v, w

\* Marks that ascend from nothing to the end of a file cut it into lines that
\* are together the file.
LEMMA CutIsWhole ==
    ASSUME NEW S, NEW file \in Seq(S), NEW M \in Nat, M >= 2,
           NEW marks \in [1 .. M -> 0 .. Len(file)], Len(marks) = M,
           marks[1] = 0, marks[M] = Len(file),
           \A k \in 1 .. M - 1 : marks[k] <= marks[k + 1]
    PROVE  FlattenSeq(LinesAt(file, marks)) = file
<1> DEFINE lines == LinesAt(file, marks)
           l == M - 1
           g == [k \in 1 .. l |-> SubSeq(file, 1, marks[k + 1])]
<1>1. l \in Nat \ {0} /\ lines = [k \in 1 .. l |-> SubSeq(file, marks[k] + 1, marks[k + 1])]
    BY DEF LinesAt
<1>2. Len(lines) = l
    BY <1>1
<1>3. ASSUME NEW k \in 1 .. l
      PROVE  g[k] = IF k = 1 THEN lines[k] ELSE g[k - 1] \o lines[k]
  <2>1. /\ marks[k] \in 0 .. Len(file) /\ marks[k + 1] \in marks[k] .. Len(file)
        /\ Len(file) \in Nat
    <3>1. k \in 1 .. M /\ k + 1 \in 1 .. M /\ k \in 1 .. M - 1
        BY <1>1
    <3>2. /\ marks[k] \in 0 .. Len(file) /\ marks[k + 1] \in 0 .. Len(file)
          /\ marks[k] <= marks[k + 1] /\ Len(file) \in Nat
        BY <3>1, LenProperties
    <3>3. QED
        BY <3>2
  <2>2. g[k] = SubSeq(file, 1, marks[k + 1])
    OBVIOUS
  <2>3. lines[k] = SubSeq(file, marks[k] + 1, marks[k + 1])
    BY <1>1
  <2>4. CASE k = 1
    <3>1. marks[k] + 1 = 1
        BY <2>4
    <3>2. QED
        BY <2>2, <2>3, <2>4, <3>1
  <2>5. CASE k # 1
    <3>1. k - 1 \in 1 .. l /\ (k - 1) + 1 = k
        BY <1>1, <2>5
    <3>2. g[k - 1] = SubSeq(file, 1, marks[k])
        BY <3>1
    <3>3. SubSeq(file, 1, marks[k]) \o SubSeq(file, marks[k] + 1, marks[k + 1])
            = SubSeq(file, 1, marks[k + 1])
        BY <2>1, Joined
    <3>4. QED
        BY <2>2, <2>3, <2>5, <3>2, <3>3
  <2>6. QED
    BY <2>4, <2>5
<1>4. g[l] = file
  <2>1. l \in 1 .. l /\ l + 1 = M
    BY <1>1
  <2>2. g[l] = SubSeq(file, 1, Len(file))
    BY <2>1
  <2>3. SubSeq(file, 1, Len(file)) = file
    OBVIOUS
  <2>4. QED
    BY <2>2, <2>3
<1> HIDE DEF lines, l
<1>5. Grows(g, lines, l)
  <2>1. \A k \in 2 .. l : k \in 1 .. l /\ k # 1
    BY <1>1
  <2>2. 1 \in 1 .. l
    BY <1>1
  <2>3. g = [k \in 1 .. l |-> g[k]]
    OBVIOUS
  <2> HIDE DEF g
  <2>4. g[1] = lines[1] /\ \A k \in 2 .. l : g[k] = g[k - 1] \o lines[k]
    BY <1>3, <2>1, <2>2
  <2>5. QED
    BY <2>3, <2>4 DEF Grows
<1> HIDE DEF g
<1>6. l \in Nat \ {0}
    BY <1>1
<1>7. FlattenSeq(lines) = g[l]
    BY <1>2, <1>5, <1>6, Flattened, Zenon
<1>8. QED
    BY <1>4, <1>7 DEF lines

\* The marks of a file fit into their memory, and between them is the file.
LEMMA CutFits ==
    ASSUME NEW file \in Files, NEW nl \in BOOLEAN
    PROVE  /\ Len(SplitInPlace(file, nl)) <= RoomForMarks(file)
           /\ FlattenSeq(LinesAt(file, SplitInPlace(file, nl))) = file
<1> DEFINE marks == SplitInPlace(file, nl)
           N == NewlinesIn(file)
           l == Len(file)
<1>1. file \in Seq(Byte) /\ l \in Nat /\ DOMAIN file = 1 .. l
    BY CompareAssumption, LenProperties
<1>2. N \in SUBSET (1 .. l) /\ N \in SUBSET Nat
    BY <1>1 DEF NewlinesIn
<1>3. IsFiniteSet(N)
  <2>1. IsFiniteSet(1 .. l)
    BY <1>1, FS_Interval
  <2>2. QED
    BY <1>2, <2>1, FS_Subset
<1> DEFINE c == Cardinality(N)
           s == Ascending(N)
           ends == EndsInLine(file)
<1>4. /\ c \in Nat /\ s \in [1 .. c -> N]
      /\ \A k \in 1 .. c : Cardinality(UpTo(N, s[k])) = k
      /\ \A k, x \in 1 .. c : k < x => s[k] < s[x]
    BY <1>2, <1>3, AscendingOrder
<1>5. CASE file = <<>>
  <2>1. marks = IF nl THEN <<0>> ELSE <<0, 0>>
    BY <1>5 DEF SplitInPlace
  <2>2. ~ends /\ N = {} /\ c = 0
    <3>1. ~ends
        BY <1>5 DEF EndsInLine
    <3>2. DOMAIN file = {}
        BY <1>5
    <3>3. N = {}
        BY <3>2 DEF NewlinesIn
    <3>4. QED
        BY <3>1, <3>3, FS_EmptySet
  <2>3. RoomForMarks(file) = 2
    BY <2>2 DEF RoomForMarks, CountLines
  <2>4. Len(marks) <= 2
    BY <2>1
  <2>5. CASE nl
    <3>1. marks = <<0>> /\ Len(<<0>>) - 1 = 0
        BY <2>1, <2>5
    <3>2. LinesAt(file, <<0>>) = <<>>
        BY <3>1 DEF LinesAt
    <3>3. FlattenSeq(<<>>) = <<>>
        BY Zenon, EmptySeq DEF FlattenSeq
    <3>4. QED
        BY <1>5, <2>3, <2>4, <3>1, <3>2, <3>3
  <2>6. CASE ~nl
    <3>1. marks = <<0, 0>> /\ Len(marks) = 2
        BY <2>1, <2>6
    <3>2. /\ marks \in [1 .. 2 -> 0 .. Len(file)] /\ marks[1] = 0 /\ marks[2] = 0
          /\ Len(file) = 0
        BY <1>5, <3>1
    <3> DEFINE two == 2
    <3>3. /\ two \in Nat /\ two >= 2 /\ marks \in [1 .. two -> 0 .. Len(file)]
          /\ Len(marks) = two /\ marks[1] = 0 /\ marks[two] = Len(file)
          /\ \A k \in 1 .. two - 1 : marks[k] <= marks[k + 1]
        BY <3>1, <3>2
    <3> HIDE DEF marks, two
    <3>4. FlattenSeq(LinesAt(file, marks)) = file
        BY <1>1, <3>3, CutIsWhole
    <3>5. QED
        BY <2>3, <2>4, <3>4 DEF marks
  <2>7. QED
    BY <2>5, <2>6
<1>6. CASE file # <<>>
  <2> DEFINE e == IF ends THEN <<l>> ELSE <<>>
             M == 1 + c + (IF ends THEN 1 ELSE 0)
             h == <<0>> \o s
  <2>1. marks = h \o e
    BY <1>6 DEF SplitInPlace
  <2>2. l \in 1 .. l /\ RoomForMarks(file) = M + 1
    <3>1. l # 0
        BY <1>1, <1>6, EmptySeq
    <3>2. QED
        BY <1>1, <1>4, <3>1 DEF RoomForMarks, CountLines
  <2> HIDE DEF marks, N, c, s
  <2>3. /\ s \in Seq(Nat) /\ Len(s) = c
        /\ \A k \in 1 .. c : s[k] \in N /\ s[k] \in 1 .. l
    <3>1. \A k \in 1 .. c : s[k] \in N /\ s[k] \in 1 .. l
        BY <1>2, <1>4
    <3>2. s = [k \in 1 .. c |-> s[k]] /\ \A k \in 1 .. c : s[k] \in Nat
        BY <1>1, <1>4, <3>1
    <3>3. s \in Seq(Nat) /\ Len(s) = c
        BY <1>4, <3>2
    <3>4. QED
        BY <3>1, <3>3
  <2>4. /\ h \in Seq(Nat) /\ Len(h) = 1 + c /\ h[1] = 0
        /\ \A k \in 1 .. c : h[k + 1] = s[k]
    <3>1. <<0>> \in Seq(Nat) /\ Len(<<0>>) = 1 /\ <<0>>[1] = 0
        OBVIOUS
    <3>2. /\ h \in Seq(Nat) /\ Len(h) = 1 + c
          /\ \A k \in 1 .. 1 + c : h[k] = IF k <= 1 THEN <<0>>[k] ELSE s[k - 1]
        BY <2>3, <3>1, ConcatProperties, Zenon
    <3>3. \A k \in 1 .. c : k + 1 \in 1 .. 1 + c /\ ~(k + 1 <= 1) /\ (k + 1) - 1 = k
        BY <1>4
    <3>4. 1 \in 1 .. 1 + c
        BY <1>4
    <3> HIDE DEF h
    <3>5. QED
        BY <3>1, <3>2, <3>3, <3>4
  <2> HIDE DEF h
  <2>5. /\ M \in Nat /\ Len(marks) = M /\ marks \in Seq(Nat)
        /\ marks[1] = 0
        /\ \A k \in 1 .. c : marks[k + 1] = s[k]
        /\ ends => marks[c + 2] = l
    <3>1. e \in Seq(Nat) /\ Len(e) = (IF ends THEN 1 ELSE 0) /\ (ends => e[1] = l)
        BY <1>1
    <3> HIDE DEF e, ends
    <3>2. /\ h \o e \in Seq(Nat) /\ Len(h \o e) = (1 + c) + Len(e)
          /\ \A k \in 1 .. (1 + c) + Len(e) :
                (h \o e)[k] = IF k <= 1 + c THEN h[k] ELSE e[k - (1 + c)]
      <4>1. h \in Seq(Nat) /\ e \in Seq(Nat) /\ Len(h) = 1 + c
        BY <2>4, <3>1
      <4>2. /\ h \o e \in Seq(Nat) /\ Len(h \o e) = Len(h) + Len(e)
            /\ \A k \in 1 .. Len(h) + Len(e) :
                  (h \o e)[k] = IF k <= Len(h) THEN h[k] ELSE e[k - Len(h)]
        BY <4>1, ConcatProperties, Zenon
      <4>3. QED
        BY <4>1, <4>2, Zenon
    <3>3. /\ Len(e) \in Nat /\ 1 \in 1 .. (1 + c) + Len(e) /\ 1 <= 1 + c
          /\ \A k \in 1 .. c : k + 1 \in 1 .. (1 + c) + Len(e) /\ k + 1 <= 1 + c
          /\ ends => c + 2 \in 1 .. (1 + c) + Len(e) /\ ~(c + 2 <= 1 + c) /\ (c + 2) - (1 + c) = 1
        BY <1>4, <3>1
    <3>4. /\ (h \o e)[1] = 0
          /\ \A k \in 1 .. c : (h \o e)[k + 1] = s[k]
          /\ ends => (h \o e)[c + 2] = l
        BY <2>4, <3>1, <3>2, <3>3
    <3>5. M \in Nat /\ (1 + c) + Len(e) = M
        BY <1>4, <3>1
    <3>6. QED
        BY <2>1, <3>2, <3>4, <3>5
  <2>6. ~ends => c >= 1 /\ s[c] = l
    <3> SUFFICES ASSUME ~ends
                 PROVE  c >= 1 /\ s[c] = l
        OBVIOUS
    <3>1. file[l] = NL
        BY <1>6 DEF EndsInLine
    <3>2. l \in N
        BY <1>1, <2>2, <3>1 DEF NewlinesIn, N
    <3>3. c # 0
        BY <1>3, <3>2, FS_EmptySet DEF c
    <3>4. c \in 1 .. c
        BY <1>4, <3>3
    <3>5. Cardinality(UpTo(N, s[c])) = Cardinality(N)
        BY <1>4, <3>4 DEF c
    <3>6. UpTo(N, s[c]) \in SUBSET N
        BY DEF UpTo
    <3>7. UpTo(N, s[c]) = N
        BY <1>3, <3>5, <3>6, FS_Subset
    <3>8. l <= s[c]
        BY <3>2, <3>7 DEF UpTo
    <3>9. QED
        BY <1>1, <2>3, <3>4, <3>8
  <2>7. ends => \A k \in 1 .. c : s[k] # l
    <3>1. ends => l \notin N
        BY DEF EndsInLine, NewlinesIn, N
    <3>2. QED
        BY <2>3, <3>1
  <2> HIDE DEF ends
  <2>8. M >= 2 /\ marks[M] = l
    <3>1. CASE ends
        BY <1>4, <2>5, <3>1
    <3>2. CASE ~ends
      <4>1. c \in 1 .. c /\ M = c + 1 /\ s[c] = l
        BY <1>4, <2>6, <3>2
      <4>2. QED
        BY <1>4, <2>5, <4>1
    <3>3. QED
        BY <3>1, <3>2
  <2>9. \A k \in 1 .. M : marks[k] \in 0 .. l
    <3> SUFFICES ASSUME NEW k \in 1 .. M
                 PROVE  marks[k] \in 0 .. l
        OBVIOUS
    <3>1. CASE k = 1
        BY <1>1, <2>5, <3>1
    <3>2. CASE k = M
        BY <1>1, <2>8, <3>2
    <3>3. CASE k # 1 /\ k # M
      <4>1. k - 1 \in 1 .. c /\ (k - 1) + 1 = k
        BY <1>4, <3>3
      <4>2. marks[k] = s[k - 1] /\ s[k - 1] \in 1 .. l
        BY <2>3, <2>5, <4>1
      <4>3. QED
        BY <1>1, <4>2
    <3>4. QED
        BY <3>1, <3>2, <3>3
  <2>10. \A k \in 1 .. M - 1 : marks[k] <= marks[k + 1]
    <3> SUFFICES ASSUME NEW k \in 1 .. M - 1
                 PROVE  marks[k] <= marks[k + 1]
        OBVIOUS
    <3>1. k \in 1 .. M /\ k + 1 \in 1 .. M
        BY <2>5
    <3>2. marks[k] \in 0 .. l /\ marks[k + 1] \in 0 .. l
        BY <2>9, <3>1
    <3>3. CASE k = 1
        BY <1>1, <2>5, <3>2, <3>3
    <3>4. CASE k + 1 = M
        BY <1>1, <2>8, <3>2, <3>4
    <3>5. CASE k # 1 /\ k + 1 # M
      <4>1. k - 1 \in 1 .. c /\ k \in 1 .. c /\ k - 1 < k /\ (k - 1) + 1 = k
        BY <1>4, <3>5
      <4>2. s[k - 1] < s[k]
        BY <1>4, <4>1
      <4>3. marks[k] = s[k - 1] /\ marks[k + 1] = s[k]
        BY <2>5, <4>1
      <4>4. QED
        BY <3>2, <4>2, <4>3
    <3>6. QED
        BY <3>3, <3>4, <3>5
  <2> HIDE DEF M
  <2>11. marks \in [1 .. M -> 0 .. Len(file)]
    BY <2>5, <2>9, LenProperties DEF l
  <2>12. FlattenSeq(LinesAt(file, marks)) = file
    BY <1>1, <2>5, <2>8, <2>10, <2>11, CutIsWhole DEF l
  <2>13. Len(marks) <= RoomForMarks(file)
    BY <2>2, <2>5
  <2>14. QED
    BY <2>12, <2>13 DEF marks
<1>7. QED
    BY <1>5, <1>6

LEMMA PreparedMarksFit ==
    ASSUME NEW a \in Files, NEW b \in Files, Prepare(a, b)
    PROVE  MarksFit'
<1>1. PICK nl \in [1 .. 2 -> BOOLEAN] :
          marked' = <<[bytes |-> a, marks |-> SplitInPlace(a, nl[1])],
                      [bytes |-> b, marks |-> SplitInPlace(b, nl[2])]>>
    BY DEF Prepare
<1> DEFINE x == [bytes |-> a, marks |-> SplitInPlace(a, nl[1])]
           y == [bytes |-> b, marks |-> SplitInPlace(b, nl[2])]
           Fits(f) == /\ Len(f.marks) <= RoomForMarks(f.bytes)
                      /\ FlattenSeq(LinesAt(f.bytes, f.marks)) = f.bytes
<1>2. nl[1] \in BOOLEAN /\ nl[2] \in BOOLEAN
    OBVIOUS
<1>3. Fits(x)
  <2>1. x.bytes = a /\ x.marks = SplitInPlace(a, nl[1])
    OBVIOUS
  <2> HIDE DEF x
  <2>2. QED
    BY <1>2, <2>1, CutFits
<1>4. Fits(y)
  <2>1. y.bytes = b /\ y.marks = SplitInPlace(b, nl[2])
    OBVIOUS
  <2> HIDE DEF y
  <2>2. QED
    BY <1>2, <2>1, CutFits
<1> HIDE DEF x, y
<1>5. marked' = <<x, y>>
    BY <1>1 DEF x, y
<1>6. {marked'[k] : k \in DOMAIN marked'} = {x, y}
    BY <1>5
<1>7. QED
    BY <1>3, <1>4, <1>6 DEF MarksFit

\* The marks of every file fit into the memory that is asked for them, and the
\* lines between them are the file.
THEOREM MarksAlwaysFit == Spec => []MarksFit
<1>1. Init => MarksFit
    BY DEF Init, MarksFit
<1>2. ASSUME WalkInv, MarksFit, [Next]_vars
      PROVE  MarksFit'
  <2>1. CASE CommonFile
    <3>1. /\ at \in DOMAIN case.first /\ partner' \in DOMAIN second
          /\ Prepare(case.first[at].text, second[partner'].text)
        BY <1>2, <2>1, CommonFileFits DEF CommonFile
    <3>2. case.first[at] \in Row /\ second[partner'] \in Row
        BY <1>2, <3>1, CaseLists, SecondList DEF WalkInv, ListsInv
    <3>3. case.first[at].text \in Files /\ second[partner'].text \in Files
        BY <3>2 DEF Row
    <3>4. QED
        BY <3>1, <3>3, PreparedMarksFit
  <2>2. CASE CheckFile
    <3>1. /\ at <= Len(second) /\ Tracked(second[at].path) # {}
          /\ Prepare(HeadText(second[at].path), second[at].text)
        BY <2>2 DEF CheckFile, Checking
    <3>2. second[at] \in Row
        BY <1>2, <3>1, SecondList DEF WalkInv, ListsInv
    <3>3. second[at].text \in Files /\ HeadText(second[at].path) \in Files
        BY <1>2, <3>1, <3>2, HeadTextIsAFile DEF WalkInv, Row
    <3>4. QED
        BY <3>1, <3>3, PreparedMarksFit
  <2>3. CASE ~CommonFile /\ ~CheckFile
    <3>1. marked' = marked \/ marked' = <<>>
        BY <1>2, <2>3 DEF Next, DeltaStep, EmptyCommit, FirstOnly, ReportCounts, ReportLines,
           FirstDone, RestSkipped, RestListed, RestDone, Untracked, GoneFile, ReportFile,
           FilesDone, vars, walk, GoOn
    <3>2. QED
        BY <1>2, <3>1 DEF MarksFit
  <2>4. QED
    BY <2>1, <2>2, <2>3
<1>3. QED
    BY <1>1, <1>2, WalkInvariant, PTL DEF Spec

=============================================================================

-------------------------- MODULE CommandLineProofs --------------------------
(***************************************************************************)
(* What holds of CommandLine for every set of processes and of commands:   *)
(* that the configuration is read, that the nearest command is proposed,   *)
(* that one process makes the repository, that the commits that were       *)
(* written are read back, and that a process acts on the commits and on    *)
(* the paths it is given.  First what the operators of Suggest,            *)
(* CommitFile, Listing, Arguments and Config give, then the processes.     *)
(***************************************************************************)
EXTENDS CommandLine, SequenceLemmas

-----------------------------------------------------------------------------
(***************************************************************************)
(* The distance of two words.  d has the distance of the first i           *)
(* characters of s from the first j of t at <<i, j>>: what the three rows  *)
(* have, one after the other.                                              *)
(***************************************************************************)
Swaps(s, t, i, j) == i > 1 /\ j > 1 /\ s[i - 1] = t[j] /\ s[i] = t[j - 1]

\* What leads to a place: from its neighbours, and from before a swap.
Ways(s, t, w, d, i, j) ==
    {d[<<i - 1, j - 1>>] + (IF s[i] # t[j] THEN w ELSE 0),
     d[<<i - 1, j>>] + w, d[<<i, j - 1>>] + w}
        \union (IF Swaps(s, t, i, j) THEN {d[<<i - 2, j - 2>>] + w} ELSE {})

Distances(s, t, w, d) ==
    /\ d \in [(0 .. Len(s)) \X (0 .. Len(t)) -> Nat]
    /\ \A i \in 0 .. Len(s) : d[<<i, 0>>] = i * w
    /\ \A j \in 0 .. Len(t) : d[<<0, j>>] = j * w
    /\ \A i \in 1 .. Len(s), j \in 1 .. Len(t) : d[<<i, j>>] = Min(Ways(s, t, w, d, i, j))

\* A cell of a row, from the two rows before it and what stands left of it.
CellOf(s, t, w, before, now, left, i, j) ==
    Min({now[j] + (IF s[i] # t[j] THEN w ELSE 0), now[j + 1] + w, left + w}
            \union (IF i > 1 /\ j > 1 /\ s[i - 1] = t[j] /\ s[i] = t[j - 1]
                    THEN {before[j - 1] + w} ELSE {}))

\* What Row puts in a place is a number.
LEMMA CellIsNumber ==
    ASSUME NEW s, NEW t, NEW w \in Nat, NEW n \in Nat, NEW left \in Nat,
           NEW before \in [1 .. n + 1 -> Nat], NEW now \in [1 .. n + 1 -> Nat],
           NEW i \in Nat, NEW j \in 1 .. n
    PROVE  CellOf(s, t, w, before, now, left, i, j) \in Nat
<1> DEFINE T == {now[j] + (IF s[i] # t[j] THEN w ELSE 0), now[j + 1] + w, left + w}
                  \union (IF i > 1 /\ j > 1 /\ s[i - 1] = t[j] /\ s[i] = t[j - 1]
                          THEN {before[j - 1] + w} ELSE {})
<1>1. j \in 1 .. n + 1 /\ j + 1 \in 1 .. n + 1 /\ (j > 1 => j - 1 \in 1 .. n + 1)
    OBVIOUS
<1>2. now[j] \in Nat /\ now[j + 1] \in Nat /\ (j > 1 => before[j - 1] \in Nat)
    BY <1>1
<1>3. T \in SUBSET Nat /\ T # {}
  <2>1. now[j] + (IF s[i] # t[j] THEN w ELSE 0) \in Nat /\ now[j + 1] + w \in Nat /\ left + w \in Nat
    <3>1. (IF s[i] # t[j] THEN w ELSE 0) \in Nat
        OBVIOUS
    <3>2. \A x, y \in Nat : x + y \in Nat
        OBVIOUS
    <3>3. QED
        BY <1>2, <3>1, <3>2, Zenon
  <2>2. ASSUME i > 1 /\ j > 1 /\ s[i - 1] = t[j] /\ s[i] = t[j - 1]
        PROVE  before[j - 1] + w \in Nat
    <3>1. before[j - 1] \in Nat
        BY <1>2, <2>2, Zenon
    <3>2. QED
        BY <3>1
  <2>3. QED
    BY <2>1, <2>2
<1> HIDE DEF T
<1>4. Min(T) \in Nat
    BY <1>3, MinIs
<1>5. QED
    BY <1>4 DEF CellOf, T

\* A row begins with what it takes to leave all out, and goes on cell by cell.
IsRow(row, s, t, w, before, now, i) ==
    /\ row \in [1 .. Len(t) + 1 -> Nat] /\ row[1] = i * w
    /\ \A j \in 1 .. Len(t) : row[j + 1] = CellOf(s, t, w, before, now, row[j], i, j)

\* A row of the distances is what Row's loop fills it with: the first place is
\* the weight of i + 1, and each of the others follows from its neighbours.
LEMMA RowIs ==
    ASSUME NEW s, NEW t, NEW w \in Nat, Len(t) \in Nat,
           NEW before \in [1 .. Len(t) + 1 -> Nat], NEW now \in [1 .. Len(t) + 1 -> Nat],
           NEW i \in Nat
    PROVE  IsRow(Row(s, t, w, before, now, i), s, t, w, before, now, i)
<1> DEFINE n == Len(t)
           C(left, j) == CellOf(s, t, w, before, now, left, i, j)
           next == [p \in (1 .. n) \X Seq(Nat) |->
                        IF Len(p[2]) = p[1] THEN Append(p[2], C(p[2][p[1]], p[1])) ELSE p[2]]
<1> HIDE DEF n
<1>1. n \in Nat /\ before \in [1 .. n + 1 -> Nat] /\ now \in [1 .. n + 1 -> Nat]
    BY DEF n
<1>2. ASSUME NEW left \in Nat, NEW j \in 1 .. n
      PROVE  C(left, j) \in Nat
    BY <1>1, <1>2, CellIsNumber
<1> HIDE DEF C
<1>3. ASSUME NEW j \in 1 .. n, NEW row \in Seq(Nat)
      PROVE  /\ next[<<j, row>>] \in Seq(Nat)
             /\ Len(row) = j => next[<<j, row>>] = Append(row, C(row[j], j))
  <2>1. next[<<j, row>>] = IF Len(row) = j THEN Append(row, C(row[j], j)) ELSE row
    OBVIOUS
  <2>2. Len(row) = j => C(row[j], j) \in Nat
    <3>1. Len(row) = j => row[j] \in Nat
        OBVIOUS
    <3>2. QED
        BY <1>2, <3>1
  <2>3. QED
    BY <2>1, <2>2
<1> HIDE DEF next
<1>4. <<i * w>> \in Seq(Nat) /\ Len(<<i * w>>) = 1
  <2>1. i * w \in Nat
    OBVIOUS
  <2> DEFINE x == i * w
  <2>2. x \in Nat
    BY <2>1
  <2> HIDE DEF x
  <2>3. <<x>> \in Seq(Nat) /\ Len(<<x>>) = 1
    BY <2>2
  <2>4. QED
    BY <2>3 DEF x
<1>5. PICK g \in [0 .. n -> Seq(Nat)] : Follows(g, <<i * w>>, next, n)
  <2>1. \A j \in 1 .. n, row \in Seq(Nat) : next[<<j, row>>] \in Seq(Nat)
    BY <1>3
  <2>2. QED
    BY <1>1, <1>4, <2>1, Recursion
<1>6. ASSUME NEW j \in 0 .. n
      PROVE  Len(g[j]) = j + 1
  <2> DEFINE T == {x \in 0 .. n : Len(g[x]) = x + 1}
  <2>1. 0 \in T
    <3>1. g[0] = <<i * w>>
        BY <1>5 DEF Follows
    <3>2. Len(g[0]) = 0 + 1 /\ 0 \in 0 .. n
        BY <1>1, <1>4, <3>1
    <3>3. QED
        BY <3>2
  <2>2. ASSUME NEW x \in 1 .. n, x - 1 \in T
        PROVE  x \in T
    <3>1. g[x - 1] \in Seq(Nat) /\ Len(g[x - 1]) = x /\ g[x] = next[<<x, g[x - 1]>>]
        BY <1>5, <2>2 DEF Follows
    <3>2. g[x] = Append(g[x - 1], C(g[x - 1][x], x))
        BY <1>3, <3>1
    <3>3. QED
        BY <3>1, <3>2
  <2>3. j \in T
    <3> HIDE DEF T
    <3>1. QED
        BY <1>1, <2>1, <2>2, Climb
  <2>4. QED
    BY <2>3
<1>7. ASSUME NEW j \in 1 .. n
      PROVE  g[j] = Append(g[j - 1], C(g[j - 1][j], j))
  <2>1. j - 1 \in 0 .. n /\ g[j - 1] \in Seq(Nat)
    BY <1>1, <1>5
  <2>2. Len(g[j - 1]) = j /\ g[j] = next[<<j, g[j - 1]>>]
    BY <1>5, <1>6, <2>1 DEF Follows
  <2>3. QED
    BY <1>3, <2>1, <2>2
<1> DEFINE Fits(f) == f = [j \in 0 .. n |->
                IF j = 0 THEN <<i * w>> ELSE Append(f[j - 1], C(f[j - 1][j], j))]
           h == CHOOSE f : Fits(f)
<1>8. Row(s, t, w, before, now, i) = h[n]
    BY Zenon DEF Row, n, C, CellOf
<1>9. Fits(g)
  <2>1. ASSUME NEW j \in 0 .. n
        PROVE  g[j] = IF j = 0 THEN <<i * w>> ELSE Append(g[j - 1], C(g[j - 1][j], j))
    <3>1. CASE j = 0
        BY <1>5, <3>1 DEF Follows
    <3>2. CASE j # 0
        BY <1>7, <3>2
    <3>3. QED
        BY <3>1, <3>2
  <2>2. QED
    BY <1>5, <2>1
<1>10. Fits(h)
    BY <1>9, Zenon
<1> HIDE DEF h
<1>11. ASSUME NEW j \in 0 .. n
       PROVE  h[j] = g[j]
  <2> DEFINE T == {x \in 0 .. n : h[x] = g[x]}
  <2>1. 0 \in T
    BY <1>1, <1>9, <1>10
  <2>2. ASSUME NEW x \in 1 .. n, x - 1 \in T
        PROVE  x \in T
    <3>1. x \in 0 .. n /\ x # 0 /\ h[x - 1] = g[x - 1]
        BY <2>2
    <3>2. h[x] = Append(h[x - 1], C(h[x - 1][x], x))
        BY <1>10, <3>1
    <3>3. g[x] = Append(g[x - 1], C(g[x - 1][x], x))
        BY <1>7
    <3>4. QED
        BY <3>1, <3>2, <3>3
  <2>3. j \in T
    <3> HIDE DEF T
    <3>1. QED
        BY <1>1, <2>1, <2>2, Climb
  <2>4. QED
    BY <2>3
<1> DEFINE row == g[n]
<1>12. Row(s, t, w, before, now, i) = row /\ row \in Seq(Nat) /\ Len(row) = n + 1
    BY <1>1, <1>5, <1>6, <1>8, <1>11
\* A cell stays what it is while the row grows.
<1>13. \A j \in 0 .. n : \A x \in 1 .. j + 1 : g[n][x] = g[j][x]
  <2> DEFINE T == {y \in 0 .. n : \A x \in 1 .. n - y + 1 : g[n][x] = g[n - y][x]}
  <2>1. 0 \in T
    BY <1>1
  <2>2. ASSUME NEW y \in 1 .. n, y - 1 \in T
        PROVE  y \in T
    <3> DEFINE z == n - y + 1
    <3>1. z \in 1 .. n /\ z - 1 = n - y /\ n - (y - 1) = z
        BY <1>1
    <3>2. \A x \in 1 .. z + 1 : g[n][x] = g[z][x]
        BY <2>2, <3>1
    <3>3. g[z] = Append(g[z - 1], C(g[z - 1][z], z)) /\ g[z - 1] \in Seq(Nat) /\ Len(g[z - 1]) = z
      <4>1. z - 1 \in 0 .. n
        BY <1>1, <3>1
      <4>2. QED
        BY <1>5, <1>6, <1>7, <3>1, <4>1
    <3>4. \A x \in 1 .. z : g[z][x] = g[z - 1][x]
        BY <3>3
    <3>5. \A x \in 1 .. z : g[n][x] = g[z - 1][x]
        BY <3>1, <3>2, <3>4
    <3>6. QED
        BY <3>1, <3>5
  <2>3. \A y \in 0 .. n : y \in T
    <3> HIDE DEF T
    <3>1. QED
        BY <1>1, <2>1, <2>2, Climb
  <2>4. ASSUME NEW j \in 0 .. n
        PROVE  \A x \in 1 .. j + 1 : g[n][x] = g[j][x]
    <3>1. n - j \in 0 .. n /\ n - (n - j) = j
        BY <1>1
    <3>2. n - j \in T
        BY <2>3, <3>1
    <3>3. QED
        BY <3>1, <3>2
  <2>5. QED
    BY <2>4
<1>14. row[1] = i * w
  <2>1. g[n][1] = g[0][1] /\ g[0] = <<i * w>>
    BY <1>1, <1>5, <1>13 DEF Follows
  <2>2. QED
    BY <2>1
<1>15. ASSUME NEW j \in 1 .. n
       PROVE  row[j + 1] = C(row[j], j)
  <2>1. j \in 0 .. n /\ j - 1 \in 0 .. n /\ j + 1 \in 1 .. j + 1 /\ j \in 1 .. (j - 1) + 1
    BY <1>1
  <2>2. g[n][j + 1] = g[j][j + 1] /\ g[n][j] = g[j - 1][j]
    BY <1>13, <2>1
  <2>3. g[j] = Append(g[j - 1], C(g[j - 1][j], j)) /\ g[j - 1] \in Seq(Nat) /\ Len(g[j - 1]) = j
    <3>1. g[j - 1] \in Seq(Nat) /\ Len(g[j - 1]) = (j - 1) + 1
        BY <1>5, <1>6, <2>1
    <3>2. QED
        BY <1>7, <3>1
  <2>4. g[j][j + 1] = C(g[j - 1][j], j)
    BY <2>3
  <2>5. QED
    BY <2>2, <2>4
<1>16. row \in [1 .. n + 1 -> Nat]
    BY <1>1, <1>12, LenProperties
<1> HIDE DEF row
<1>17. QED
    BY <1>12, <1>14, <1>15, <1>16, Zenon DEF C, n, IsRow


\* The rows have the distances.
LEMMA RowsAreDistances ==
    ASSUME NEW s, NEW t, NEW w \in Nat, Len(s) \in Nat, Len(t) \in Nat
    PROVE  \E d : Distances(s, t, w, d) /\ Levenshtein(s, t, w) = d[<<Len(s), Len(t)>>]
<1> DEFINE m == Len(s)
           n == Len(t)
           Rows == [1 .. n + 1 -> Nat]
           first == [j \in 1 .. n + 1 |-> (j - 1) * w]
           Turned(two, i) == <<two[2], Row(s, t, w, two[1], two[2], i)>>
           next == [p \in (1 .. m) \X (Rows \X Rows) |-> Turned(p[2], p[1])]
<1>1. m \in Nat /\ n \in Nat
    OBVIOUS
<1>2. first \in Rows
    OBVIOUS
<1>3. ASSUME NEW two \in Rows \X Rows, NEW i \in 1 .. m
      PROVE  next[<<i, two>>] = Turned(two, i) /\ Turned(two, i) \in Rows \X Rows
  <2>1. two[1] \in Rows /\ two[2] \in Rows /\ i \in Nat
    OBVIOUS
  <2>2. Row(s, t, w, two[1], two[2], i) \in Rows
    BY <2>1, RowIs DEF IsRow
  <2> HIDE DEF Rows
  <2>3. QED
    BY <2>1, <2>2
<1>4. PICK g \in [0 .. m -> Rows \X Rows] : Follows(g, <<first, first>>, next, m)
  <2>1. <<first, first>> \in Rows \X Rows
    BY <1>2
  <2>2. \A i \in 1 .. m, two \in Rows \X Rows : next[<<i, two>>] \in Rows \X Rows
    BY <1>3
  <2> HIDE DEF next, Rows, first
  <2>3. QED
    BY <1>1, <2>1, <2>2, Recursion
<1>5. ASSUME NEW i \in 1 .. m
      PROVE  g[i] = Turned(g[i - 1], i)
  <2>1. g[i - 1] \in Rows \X Rows
    <3>1. i - 1 \in 0 .. m
        BY <1>1
    <3> HIDE DEF Rows
    <3>2. QED
        BY <1>4, <3>1
  <2>2. g[i] = next[<<i, g[i - 1]>>]
    BY <1>4 DEF Follows
  <2>3. QED
    BY <1>3, <2>1, <2>2
<1>6. g[0] = <<first, first>>
    BY <1>4 DEF Follows
<1> DEFINE Fits(f) == f = [i \in 0 .. m |-> IF i = 0 THEN <<first, first>> ELSE Turned(f[i - 1], i)]
           h == CHOOSE f : Fits(f)
<1>7. Levenshtein(s, t, w) = h[m][2][n + 1]
    BY Zenon DEF Levenshtein
<1> HIDE DEF Rows, first, Turned, next, m, n
<1>8. Fits(g)
  <2>1. ASSUME NEW i \in 0 .. m
        PROVE  g[i] = IF i = 0 THEN <<first, first>> ELSE Turned(g[i - 1], i)
    <3>1. CASE i = 0
        BY <1>6, <3>1
    <3>2. CASE i # 0
        BY <1>1, <1>5, <3>2
    <3>3. QED
        BY <3>1, <3>2
  <2>2. QED
    BY <1>4, <2>1
<1>9. Fits(h)
    BY <1>8, Zenon
<1> HIDE DEF h
<1>10. ASSUME NEW i \in 0 .. m
       PROVE  h[i] = g[i]
  <2> DEFINE T == {x \in 0 .. m : h[x] = g[x]}
  <2>1. 0 \in T
    BY <1>1, <1>8, <1>9
  <2>2. ASSUME NEW x \in 1 .. m, x - 1 \in T
        PROVE  x \in T
    <3>1. x \in 0 .. m /\ x # 0 /\ h[x - 1] = g[x - 1]
        BY <2>2
    <3>2. h[x] = Turned(h[x - 1], x)
        BY <1>9, <3>1
    <3>3. g[x] = Turned(g[x - 1], x)
        BY <1>5
    <3>4. QED
        BY <3>1, <3>2, <3>3
  <2>3. i \in T
    <3> HIDE DEF T
    <3>1. QED
        BY <1>1, <2>1, <2>2, Climb
  <2>4. QED
    BY <2>3
<1> DEFINE now(i) == g[i][2]
           d == [p \in (0 .. m) \X (0 .. n) |-> now(p[1])[p[2] + 1]]
<1>11. ASSUME NEW i \in 0 .. m
       PROVE  g[i][1] \in Rows /\ now(i) \in Rows
    BY <1>4
<1>12. ASSUME NEW i \in 1 .. m
       PROVE  g[i][1] = now(i - 1) /\ now(i) = Row(s, t, w, g[i - 1][1], now(i - 1), i)
    BY <1>5 DEF Turned
<1> HIDE DEF now
<1>13. ASSUME NEW i \in 0 .. m, NEW j \in 0 .. n
       PROVE  d[<<i, j>>] = now(i)[j + 1] /\ d[<<i, j>>] \in Nat
  <2>1. d[<<i, j>>] = now(i)[j + 1]
    OBVIOUS
  <2>2. j + 1 \in 1 .. n + 1
    BY <1>1
  <2>3. now(i)[j + 1] \in Nat
    BY <1>11, <2>2 DEF Rows
  <2>4. QED
    BY <2>1, <2>3
<1>14. d \in [(0 .. m) \X (0 .. n) -> Nat]
  <2>1. \A p \in (0 .. m) \X (0 .. n) : d[p] \in Nat
    <3> HIDE DEF d
    <3>1. QED
        BY <1>13
  <2>2. QED
    BY <2>1
<1> HIDE DEF d
<1>15. ASSUME NEW i \in 1 .. m
       PROVE  /\ now(i)[1] = i * w
              /\ \A j \in 1 .. n : now(i)[j + 1] =
                    CellOf(s, t, w, g[i - 1][1], now(i - 1), now(i)[j], i, j)
  <2>1. i - 1 \in 0 .. m /\ i \in Nat
    BY <1>1
  <2>2. g[i - 1][1] \in Rows /\ now(i - 1) \in Rows
    BY <1>11, <2>1
  <2> DEFINE far == g[i - 1][1]
             up == now(i - 1)
             row == Row(s, t, w, far, up, i)
  <2>3. far \in [1 .. Len(t) + 1 -> Nat] /\ up \in [1 .. Len(t) + 1 -> Nat]
    BY <2>2 DEF Rows, n
  <2> HIDE DEF far, up
  <2>4. IsRow(row, s, t, w, far, up, i)
    <3>1. w \in Nat /\ Len(t) \in Nat /\ i \in Nat
        BY <2>1
    <3>2. QED
        BY <2>3, <3>1, RowIs, Zenon
  <2>5. now(i) = row
    BY <1>12 DEF far, up
  <2> HIDE DEF row
  <2>6. QED
    BY <2>4, <2>5 DEF far, up, n, IsRow
<1>16. now(0) = first
    BY <1>6 DEF now
<1>17. ASSUME NEW i \in 0 .. m
       PROVE  d[<<i, 0>>] = i * w
  <2>1. d[<<i, 0>>] = now(i)[1]
    BY <1>1, <1>13
  <2>2. CASE i = 0
    <3>1. first[1] = (1 - 1) * w
        BY <1>1 DEF first
    <3>2. QED
        BY <1>16, <2>1, <2>2, <3>1
  <2>3. CASE i # 0
    BY <1>1, <1>15, <2>1, <2>3
  <2>4. QED
    BY <2>2, <2>3
<1>18. ASSUME NEW j \in 0 .. n
       PROVE  d[<<0, j>>] = j * w
  <2>1. d[<<0, j>>] = now(0)[j + 1]
    BY <1>1, <1>13
  <2>2. j + 1 \in 1 .. n + 1 /\ (j + 1) - 1 = j
    BY <1>1
  <2>3. first[j + 1] = j * w
    BY <2>2 DEF first
  <2>4. QED
    BY <1>16, <2>1, <2>3
<1>19. ASSUME NEW i \in 1 .. m, NEW j \in 1 .. n
       PROVE  d[<<i, j>>] = Min(Ways(s, t, w, d, i, j))
  <2> DEFINE up == now(i - 1)
             far == g[i - 1][1]
  <2>1. now(i)[j + 1] = CellOf(s, t, w, far, up, now(i)[j], i, j)
    BY <1>15
  <2>2. i \in 0 .. m /\ i - 1 \in 0 .. m /\ j \in 0 .. n /\ j - 1 \in 0 .. n /\ (j - 1) + 1 = j
    BY <1>1
  <2>3. /\ d[<<i, j>>] = now(i)[j + 1] /\ d[<<i, j - 1>>] = now(i)[j]
        /\ d[<<i - 1, j>>] = up[j + 1] /\ d[<<i - 1, j - 1>>] = up[j]
    BY <1>13, <2>2
  <2>4. ASSUME i > 1, j > 1
        PROVE  d[<<i - 2, j - 2>>] = far[j - 1]
    <3>1. i - 1 \in 1 .. m /\ (i - 1) - 1 = i - 2 /\ i - 2 \in 0 .. m
          /\ j - 2 \in 0 .. n /\ (j - 2) + 1 = j - 1
        BY <1>1, <2>4
    <3>2. far = now(i - 2)
        BY <1>12, <3>1
    <3>3. d[<<i - 2, j - 2>>] = now(i - 2)[(j - 2) + 1]
        BY <1>13, <3>1
    <3>4. QED
        BY <3>1, <3>2, <3>3
  <2>5. (IF i > 1 /\ j > 1 /\ s[i - 1] = t[j] /\ s[i] = t[j - 1] THEN {far[j - 1] + w} ELSE {})
            = IF Swaps(s, t, i, j) THEN {d[<<i - 2, j - 2>>] + w} ELSE {}
    BY <2>4 DEF Swaps
  <2> HIDE DEF up, far
  <2>6. CellOf(s, t, w, far, up, now(i)[j], i, j) = Min(Ways(s, t, w, d, i, j))
    BY <2>3, <2>5, Zenon DEF CellOf, Ways
  <2>7. QED
    BY <2>1, <2>3, <2>6
<1>20. Distances(s, t, w, d)
    BY <1>14, <1>17, <1>18, <1>19 DEF Distances, m, n
<1>21. Levenshtein(s, t, w) = d[<<m, n>>]
  <2>1. m \in 0 .. m /\ n \in 0 .. n
    BY <1>1
  <2>2. h[m][2] = now(m)
    BY <1>10, <2>1 DEF now
  <2>3. QED
    BY <1>7, <1>13, <2>1, <2>2
<1>22. QED
    BY <1>20, <1>21 DEF m, n

\* Multiples of a weight, in the order of what they are multiples of.
LEMMA Times ==
    ASSUME NEW w \in Nat
    PROVE  /\ \A u \in Nat : u * w \in Nat /\ (u + 1) * w = u * w + w /\ (u + 0) * w = u * w + 0
           /\ \A u, v \in Nat : u <= v => u * w <= v * w
           /\ \A u, v \in Nat : u * w <= v * w /\ w # 0 => u <= v
<1>1. \A u \in Nat : u * w \in Nat /\ (u + 1) * w = u * w + w /\ (u + 0) * w = u * w + 0
    OBVIOUS
<1>2. ASSUME NEW u \in Nat, NEW v \in Nat, u <= v
      PROVE  u * w <= v * w
  <2>1. PICK x \in Nat : v = u + x
    BY <1>2
  <2>2. v * w = u * w + x * w /\ x * w \in Nat /\ u * w \in Nat
    BY <2>1
  <2>3. QED
    BY <2>2
<1>3. ASSUME NEW u \in Nat, NEW v \in Nat, u * w <= v * w, w # 0
      PROVE  u <= v
  <2> SUFFICES ASSUME v < u
               PROVE  FALSE
    OBVIOUS
  <2>1. v + 1 <= u /\ v + 1 \in Nat
    OBVIOUS
  <2>2. (v + 1) * w <= u * w
    BY <1>2, <2>1
  <2>3. v * w + w <= u * w /\ v * w \in Nat /\ u * w \in Nat
    BY <1>1, <2>2
  <2>4. QED
    BY <1>3, <2>3
<1>4. QED
    BY <1>1, <1>2, <1>3

\* The places of a word and what stands before them.
LEMMA Neighbours ==
    ASSUME NEW s, NEW t, NEW w \in Nat, Len(s) \in Nat, Len(t) \in Nat,
           NEW d \in [(0 .. Len(s)) \X (0 .. Len(t)) -> Nat],
           NEW i \in 1 .. Len(s), NEW j \in 1 .. Len(t)
    PROVE  /\ d[<<i - 1, j - 1>>] \in Nat /\ d[<<i - 1, j>>] \in Nat /\ d[<<i, j - 1>>] \in Nat
           /\ Swaps(s, t, i, j) => /\ i - 2 \in 0 .. Len(s) /\ j - 2 \in 0 .. Len(t)
                                   /\ d[<<i - 2, j - 2>>] \in Nat
           /\ Ways(s, t, w, d, i, j) \in SUBSET Nat /\ Ways(s, t, w, d, i, j) # {}
<1> DEFINE m == Len(s)
           n == Len(t)
           P == (0 .. m) \X (0 .. n)
<1>1. <<i - 1, j - 1>> \in P /\ <<i - 1, j>> \in P /\ <<i, j - 1>> \in P
    OBVIOUS
<1>2. Swaps(s, t, i, j) => i - 2 \in 0 .. m /\ j - 2 \in 0 .. n /\ <<i - 2, j - 2>> \in P
    BY DEF Swaps
<1>3. d \in [P -> Nat]
    OBVIOUS
<1> HIDE DEF P
<1>4. /\ d[<<i - 1, j - 1>>] \in Nat /\ d[<<i - 1, j>>] \in Nat /\ d[<<i, j - 1>>] \in Nat
      /\ Swaps(s, t, i, j) => d[<<i - 2, j - 2>>] \in Nat
    BY <1>1, <1>2, <1>3
<1>5. (IF s[i] # t[j] THEN w ELSE 0) \in Nat
    OBVIOUS
<1>6. \A x, y \in Nat : x + y \in Nat
    OBVIOUS
<1>7. Ways(s, t, w, d, i, j) \in SUBSET Nat
  <2>1. {d[<<i - 1, j - 1>>] + (IF s[i] # t[j] THEN w ELSE 0),
         d[<<i - 1, j>>] + w, d[<<i, j - 1>>] + w} \in SUBSET Nat
    BY <1>4, <1>5, <1>6, Zenon
  <2>2. (IF Swaps(s, t, i, j) THEN {d[<<i - 2, j - 2>>] + w} ELSE {}) \in SUBSET Nat
    BY <1>4, <1>6
  <2>3. QED
    BY <2>1, <2>2 DEF Ways
<1>8. QED
    BY <1>2, <1>4, <1>7 DEF Ways

\* The weights are the same, so a distance is a number of edits.
LEMMA Scaled ==
    ASSUME NEW s, NEW t, NEW w \in Nat, Len(s) \in Nat, Len(t) \in Nat,
           NEW e, Distances(s, t, 1, e), NEW d, Distances(s, t, w, d)
    PROVE  \A i \in 0 .. Len(s), j \in 0 .. Len(t) : d[<<i, j>>] = e[<<i, j>>] * w
<1> DEFINE m == Len(s)
           n == Len(t)
           Same(i, j) == d[<<i, j>>] = e[<<i, j>>] * w
           T == {x \in 0 .. m + n : \A i \in 0 .. m, j \in 0 .. n : i + j <= x => Same(i, j)}
<1>1. /\ m \in Nat /\ n \in Nat
      /\ e \in [(0 .. m) \X (0 .. n) -> Nat] /\ d \in [(0 .. m) \X (0 .. n) -> Nat]
    BY DEF Distances
<1>2. ASSUME NEW i \in 0 .. m
      PROVE  Same(i, 0)
  <2>1. d[<<i, 0>>] = i * w /\ e[<<i, 0>>] = i * 1
    BY DEF Distances
  <2>2. i * 1 = i
    BY <1>1
  <2>3. QED
    BY <2>1, <2>2
<1>3. ASSUME NEW j \in 0 .. n
      PROVE  Same(0, j)
  <2>1. d[<<0, j>>] = j * w /\ e[<<0, j>>] = j * 1
    BY DEF Distances
  <2>2. j * 1 = j
    BY <1>1
  <2>3. QED
    BY <2>1, <2>2
<1>4. ASSUME NEW i \in 1 .. m, NEW j \in 1 .. n,
             Same(i - 1, j - 1), Same(i - 1, j), Same(i, j - 1),
             Swaps(s, t, i, j) => Same(i - 2, j - 2)
      PROVE  Same(i, j)
  <2> DEFINE a == e[<<i - 1, j - 1>>]
             b == e[<<i - 1, j>>]
             c == e[<<i, j - 1>>]
             z == e[<<i - 2, j - 2>>]
             one == IF s[i] # t[j] THEN 1 ELSE 0
             cost == IF s[i] # t[j] THEN w ELSE 0
             V == Ways(s, t, 1, e, i, j)
             W == Ways(s, t, w, d, i, j)
             x == Min(V)
  <2>1. /\ a \in Nat /\ b \in Nat /\ c \in Nat /\ (Swaps(s, t, i, j) => z \in Nat)
        /\ V \in SUBSET Nat /\ V # {} /\ W \in SUBSET Nat
    BY <1>1, Neighbours
  <2>2. x \in V /\ \A y \in V : x <= y
    BY <2>1, MinIs
  <2>3. V = {a + one, b + 1, c + 1} \union (IF Swaps(s, t, i, j) THEN {z + 1} ELSE {})
    BY Zenon DEF Ways
  <2>4. W = {a * w + cost, b * w + w, c * w + w}
                \union (IF Swaps(s, t, i, j) THEN {z * w + w} ELSE {})
    <3>1. /\ d[<<i - 1, j - 1>>] = a * w /\ d[<<i - 1, j>>] = b * w /\ d[<<i, j - 1>>] = c * w
          /\ Swaps(s, t, i, j) => d[<<i - 2, j - 2>>] = z * w
        BY <1>4
    <3>2. (IF Swaps(s, t, i, j) THEN {d[<<i - 2, j - 2>>] + w} ELSE {})
            = IF Swaps(s, t, i, j) THEN {z * w + w} ELSE {}
        BY <3>1, Zenon
    <3> HIDE DEF a, b, c, z
    <3>3. QED
        BY <3>1, <3>2, Zenon DEF Ways
  <2>5. d[<<i, j>>] = Min(W) /\ e[<<i, j>>] = x
    BY DEF Distances
  <2>6. /\ (a + one) * w = a * w + cost /\ (b + 1) * w = b * w + w /\ (c + 1) * w = c * w + w
        /\ Swaps(s, t, i, j) => (z + 1) * w = z * w + w
    <3>1. /\ \A u \in Nat : (u + 1) * w = u * w + w
          /\ \A u \in Nat : (u + 0) * w = u * w + 0
        BY Times
    <3>2. (a + one) * w = a * w + cost
        <4>1. CASE s[i] # t[j]
            <5>1. one = 1 /\ cost = w
                BY <4>1
            <5> HIDE DEF a, one, cost
            <5>2. QED
                BY <2>1, <3>1, <5>1
        <4>2. CASE ~(s[i] # t[j])
            <5>1. one = 0 /\ cost = 0
                BY <4>2
            <5> HIDE DEF a, one, cost
            <5>2. QED
                BY <2>1, <3>1, <5>1
        <4>3. QED
            BY <4>1, <4>2
    <3> HIDE DEF a, b, c, z, one, cost
    <3>3. QED
        BY <2>1, <3>1, <3>2
  <2> HIDE DEF a, b, c, z, x, V, W
  <2>7. one \in Nat
    OBVIOUS
  <2> HIDE DEF one, cost
  <2>8. \A y \in V : y * w \in W
    BY <2>3, <2>4, <2>6
  <2>9. \A u \in W : \E y \in V : u = y * w
    BY <2>3, <2>4, <2>6
  <2>10. x * w \in W /\ \A u \in W : x * w <= u
    <3>1. ASSUME NEW u \in W
          PROVE  x * w <= u
        <4>1. PICK y \in V : u = y * w
            BY <2>9
        <4>2. x \in Nat /\ y \in Nat /\ x <= y
            BY <2>1, <2>2
        <4>3. QED
            BY <4>1, <4>2, Times
    <3>2. QED
        BY <2>2, <2>8, <3>1
  <2>11. Min(W) = x * w
    BY <2>1, <2>10, MinOnly
  <2>12. QED
    BY <2>5, <2>11
<1> HIDE DEF Same, m, n
<1>5. 0 \in T
  <2>1. ASSUME NEW i \in 0 .. m, NEW j \in 0 .. n, i + j <= 0
        PROVE  Same(i, j)
    <3>1. i = 0
        BY <1>1, <2>1
    <3>2. QED
        BY <1>3, <3>1
  <2>2. QED
    BY <1>1, <2>1
<1>6. ASSUME NEW x \in 1 .. m + n, x - 1 \in T
      PROVE  x \in T
  <2>1. \A i \in 0 .. m, j \in 0 .. n : i + j <= x - 1 => Same(i, j)
    BY <1>6
  <2>2. ASSUME NEW i \in 0 .. m, NEW j \in 0 .. n, i + j <= x
        PROVE  Same(i, j)
    <3>1. CASE i = 0 \/ j = 0
        BY <1>2, <1>3, <3>1
    <3>2. CASE i # 0 /\ j # 0
      <4>1. i \in 1 .. m /\ j \in 1 .. n /\ i \in Nat /\ j \in Nat /\ x \in Nat
        BY <1>1, <3>2
      <4>2. /\ i - 1 \in 0 .. m /\ j - 1 \in 0 .. n
            /\ (i - 1) + (j - 1) <= x - 1 /\ (i - 1) + j <= x - 1 /\ i + (j - 1) <= x - 1
        BY <1>1, <2>2, <4>1
      <4>3. Same(i - 1, j - 1) /\ Same(i - 1, j) /\ Same(i, j - 1)
        BY <2>1, <4>2
      <4>4. Swaps(s, t, i, j) => Same(i - 2, j - 2)
        <5>1. Swaps(s, t, i, j) => /\ i - 2 \in 0 .. m /\ j - 2 \in 0 .. n
                                   /\ (i - 2) + (j - 2) <= x - 1
            BY <1>1, <2>2, <4>1 DEF Swaps
        <5>2. QED
            BY <2>1, <5>1
      <4>5. QED
        BY <1>4, <4>1, <4>3, <4>4
    <3>3. QED
        BY <3>1, <3>2
  <2>3. QED
    BY <2>2
<1>7. \A x \in 0 .. m + n : x \in T
  <2>1. m + n \in Nat
    BY <1>1
  <2> HIDE DEF T
  <2>2. QED
    BY <1>5, <1>6, <2>1, Climb
<1>8. ASSUME NEW i \in 0 .. m, NEW j \in 0 .. n
      PROVE  Same(i, j)
  <2>1. i + j \in 0 .. m + n /\ i + j <= i + j
    BY <1>1
  <2>2. i + j \in T
    BY <1>7, <2>1
  <2>3. QED
    BY <2>1, <2>2
<1>9. QED
    BY <1>8 DEF Same, m, n

\* What f says of the places before one, as `within' puts it.
Leads(s, t, f, i, j, k) ==
    \/ i = 0 /\ j = 0
    \/ i > 0 /\ j > 0 /\ s[i] = t[j] /\ f[<<i - 1, j - 1, k>>]
    \/ i > 0 /\ k > 0 /\ f[<<i - 1, j, k - 1>>]
    \/ j > 0 /\ k > 0 /\ f[<<i, j - 1, k - 1>>]
    \/ i > 0 /\ j > 0 /\ k > 0 /\ f[<<i - 1, j - 1, k - 1>>]
    \/ /\ i > 1 /\ j > 1 /\ k > 0 /\ s[i - 1] = t[j] /\ s[i] = t[j - 1]
       /\ f[<<i - 2, j - 2, k - 1>>]

\* With weights of one, a distance is the number of edits that are enough.
LEMMA EditsAreEnough ==
    ASSUME NEW s, NEW t, Len(s) \in Nat, Len(t) \in Nat,
           NEW e, Distances(s, t, 1, e), NEW K \in Nat
    PROVE  Within(s, t, K) <=> e[<<Len(s), Len(t)>>] <= K
<1> DEFINE m == Len(s)
           n == Len(t)
           P == (0 .. m) \X (0 .. n) \X (0 .. K)
           Fits(f) == f = [p \in P |-> Leads(s, t, f, p[1], p[2], p[3])]
           g == [p \in P |-> e[<<p[1], p[2]>>] <= p[3]]
           h == CHOOSE f : Fits(f)
<1>1. Within(s, t, K) = h[<<m, n, K>>]
    BY Zenon DEF Within, Leads
<1>2. m \in Nat /\ n \in Nat /\ e \in [(0 .. m) \X (0 .. n) -> Nat]
    BY DEF Distances
<1>3. \A i \in 0 .. m : e[<<i, 0>>] = i
  <2>1. \A i \in 0 .. m : e[<<i, 0>>] = i * 1
    BY DEF Distances
  <2>2. \A i \in Nat : i * 1 = i
    OBVIOUS
  <2>3. \A i \in 0 .. m : i \in Nat
    BY <1>2
  <2>4. QED
    BY <2>1, <2>2, <2>3
<1>4. \A j \in 0 .. n : e[<<0, j>>] = j
  <2>1. \A j \in 0 .. n : e[<<0, j>>] = j * 1
    BY DEF Distances
  <2>2. \A j \in Nat : j * 1 = j
    OBVIOUS
  <2>3. \A j \in 0 .. n : j \in Nat
    BY <1>2
  <2>4. QED
    BY <2>1, <2>2, <2>3
<1>5. ASSUME NEW i \in 1 .. m, NEW j \in 1 .. n
      PROVE  /\ e[<<i, j>>] = Min(Ways(s, t, 1, e, i, j))
             /\ Ways(s, t, 1, e, i, j) \in SUBSET Nat /\ Ways(s, t, 1, e, i, j) # {}
             /\ e[<<i - 1, j - 1>>] \in Nat /\ e[<<i - 1, j>>] \in Nat /\ e[<<i, j - 1>>] \in Nat
             /\ Swaps(s, t, i, j) => /\ i - 2 \in 0 .. m /\ j - 2 \in 0 .. n
                                     /\ e[<<i - 2, j - 2>>] \in Nat
    BY <1>2, Neighbours DEF Distances
<1>6. ASSUME NEW f, NEW i \in 1 .. m, NEW j \in 1 .. n, NEW k \in 0 .. K
      PROVE  Leads(s, t, f, i, j, k) <=>
                \/ s[i] = t[j] /\ f[<<i - 1, j - 1, k>>]
                \/ k > 0 /\ \/ f[<<i - 1, j, k - 1>>]
                            \/ f[<<i, j - 1, k - 1>>]
                            \/ f[<<i - 1, j - 1, k - 1>>]
                            \/ Swaps(s, t, i, j) /\ f[<<i - 2, j - 2, k - 1>>]
  <2>1. i > 0 /\ j > 0 /\ i # 0
    BY <1>2
  <2>2. QED
    BY <2>1, Zenon DEF Leads, Swaps
<1>7. ASSUME NEW i \in 0 .. m, NEW j \in 0 .. n, NEW k \in 0 .. K
      PROVE  g[<<i, j, k>>] <=> e[<<i, j>>] <= k
    OBVIOUS
<1> HIDE DEF g, h, m, n
<1>8. ASSUME NEW i \in 1 .. m, NEW j \in 1 .. n, NEW k \in 0 .. K
      PROVE  e[<<i, j>>] <= k <=>
                \/ s[i] = t[j] /\ e[<<i - 1, j - 1>>] <= k
                \/ k > 0 /\ \/ e[<<i - 1, j>>] <= k - 1
                            \/ e[<<i, j - 1>>] <= k - 1
                            \/ e[<<i - 1, j - 1>>] <= k - 1
                            \/ Swaps(s, t, i, j) /\ e[<<i - 2, j - 2>>] <= k - 1
  <2> DEFINE a == e[<<i - 1, j - 1>>]
             b == e[<<i - 1, j>>]
             c == e[<<i, j - 1>>]
             z == e[<<i - 2, j - 2>>]
             one == IF s[i] # t[j] THEN 1 ELSE 0
             V == Ways(s, t, 1, e, i, j)
             x == Min(V)
  <2>1. /\ a \in Nat /\ b \in Nat /\ c \in Nat /\ (Swaps(s, t, i, j) => z \in Nat)
        /\ V \in SUBSET Nat /\ V # {} /\ e[<<i, j>>] = x
    BY <1>5
  <2>2. x \in V /\ \A y \in V : x <= y
    BY <2>1, MinIs
  <2>3. V = {a + one, b + 1, c + 1} \union (IF Swaps(s, t, i, j) THEN {z + 1} ELSE {})
    BY Zenon DEF Ways
  <2>4. one = IF s[i] = t[j] THEN 0 ELSE 1
    OBVIOUS
  <2> HIDE DEF a, b, c, z, one, x, V
  <2>5. x <= k <=> \E y \in V : y <= k
    <3>1. x \in Nat /\ k \in Nat
      <4>1. x \in Nat
        BY <2>1, <2>2, Zenon
      <4>2. k \in Nat
        OBVIOUS
      <4>3. QED
        BY <4>1, <4>2
    <3>2. \A y \in V : y \in Nat /\ x <= y
        BY <2>1, <2>2
    <3>3. QED
        BY <2>2, <3>1, <3>2
  <2>6. (\E y \in V : y <= k) <=>
            \/ a + one <= k \/ b + 1 <= k \/ c + 1 <= k
            \/ Swaps(s, t, i, j) /\ z + 1 <= k
    BY <2>3
  <2>7. /\ b + 1 <= k <=> k > 0 /\ b <= k - 1
        /\ c + 1 <= k <=> k > 0 /\ c <= k - 1
        /\ Swaps(s, t, i, j) /\ z + 1 <= k <=> Swaps(s, t, i, j) /\ k > 0 /\ z <= k - 1
        /\ a + one <= k <=> (s[i] = t[j] /\ a <= k) \/ (k > 0 /\ a <= k - 1)
    <3>1. b + 1 <= k <=> k > 0 /\ b <= k - 1
        BY <2>1
    <3>2. c + 1 <= k <=> k > 0 /\ c <= k - 1
        BY <2>1
    <3>3. Swaps(s, t, i, j) /\ z + 1 <= k <=> Swaps(s, t, i, j) /\ k > 0 /\ z <= k - 1
        BY <2>1
    <3>4. a + one <= k <=> (s[i] = t[j] /\ a <= k) \/ (k > 0 /\ a <= k - 1)
      <4>1. CASE s[i] = t[j]
        <5>1. one = 0
            BY <2>4, <4>1
        <5>2. QED
            BY <2>1, <4>1, <5>1
      <4>2. CASE s[i] # t[j]
        <5>1. one = 1
            BY <2>4, <4>2
        <5>2. QED
            BY <2>1, <4>2, <5>1
      <4>3. QED
        BY <4>1, <4>2
    <3>5. QED
        BY <3>1, <3>2, <3>3, <3>4
  <2>8. e[<<i, j>>] <= k <=>
            \/ (s[i] = t[j] /\ a <= k) \/ (k > 0 /\ a <= k - 1)
            \/ (k > 0 /\ b <= k - 1) \/ (k > 0 /\ c <= k - 1)
            \/ Swaps(s, t, i, j) /\ k > 0 /\ z <= k - 1
    <3>1. e[<<i, j>>] <= k <=> x <= k
        BY <2>1
    <3>2. QED
        BY <2>5, <2>6, <2>7, <3>1
  <2>9. QED
    BY <2>8 DEF a, b, c, z
<1>9. ASSUME NEW f, NEW i \in 0 .. m, NEW j \in 0 .. n, NEW k \in 0 .. K,
             \A x \in 0 .. m, y \in 0 .. n, l \in 0 .. K :
                x + y < i + j => (f[<<x, y, l>>] <=> g[<<x, y, l>>])
      PROVE  Leads(s, t, f, i, j, k) <=> g[<<i, j, k>>]
  <2>0. i \in Nat /\ j \in Nat /\ k \in Nat /\ (k > 0 => k - 1 \in 0 .. K)
    BY <1>2
  <2>1. CASE i = 0 /\ j = 0
    <3>1. g[<<i, j, k>>]
      <4>1. e[<<i, j>>] = 0
        BY <1>2, <1>3, <2>1
      <4>2. QED
        BY <1>7, <2>0, <4>1
    <3>2. QED
        BY <2>1, <3>1 DEF Leads
  <2>2. CASE i = 0 /\ j # 0
    <3>1. j - 1 \in 0 .. n /\ i + (j - 1) < i + j
        BY <1>2, <2>0, <2>2
    <3>2. g[<<i, j, k>>] <=> j <= k
        BY <1>4, <1>7, <2>2
    <3>3. k > 0 => (f[<<i, j - 1, k - 1>>] <=> j - 1 <= k - 1)
        BY <1>4, <1>7, <1>9, <2>0, <2>2, <3>1
    <3>4. Leads(s, t, f, i, j, k) <=> k > 0 /\ f[<<i, j - 1, k - 1>>]
        BY <2>0, <2>2 DEF Leads
    <3>5. QED
        BY <2>0, <2>2, <3>2, <3>3, <3>4
  <2>3. CASE i # 0 /\ j = 0
    <3>1. i - 1 \in 0 .. m /\ (i - 1) + j < i + j
        BY <1>2, <2>0, <2>3
    <3>2. g[<<i, j, k>>] <=> i <= k
        BY <1>3, <1>7, <2>3
    <3>3. k > 0 => (f[<<i - 1, j, k - 1>>] <=> i - 1 <= k - 1)
        BY <1>3, <1>7, <1>9, <2>0, <2>3, <3>1
    <3>4. Leads(s, t, f, i, j, k) <=> k > 0 /\ f[<<i - 1, j, k - 1>>]
        BY <2>0, <2>3 DEF Leads
    <3>5. QED
        BY <2>0, <2>3, <3>2, <3>3, <3>4
  <2>4. CASE i # 0 /\ j # 0
    <3>1. i \in 1 .. m /\ j \in 1 .. n
        BY <1>2, <2>4
    <3>2. /\ i - 1 \in 0 .. m /\ j - 1 \in 0 .. n
          /\ (i - 1) + (j - 1) < i + j /\ (i - 1) + j < i + j /\ i + (j - 1) < i + j
          /\ (i - 2) + (j - 2) < i + j
        BY <1>2, <2>0, <2>4
    <3>3. f[<<i - 1, j - 1, k>>] <=> e[<<i - 1, j - 1>>] <= k
        BY <1>7, <1>9, <3>2
    <3>4. ASSUME k > 0
          PROVE  /\ f[<<i - 1, j - 1, k - 1>>] <=> e[<<i - 1, j - 1>>] <= k - 1
                 /\ f[<<i - 1, j, k - 1>>] <=> e[<<i - 1, j>>] <= k - 1
                 /\ f[<<i, j - 1, k - 1>>] <=> e[<<i, j - 1>>] <= k - 1
        BY <1>7, <1>9, <2>0, <3>2, <3>4
    <3>5. ASSUME k > 0, Swaps(s, t, i, j)
          PROVE  f[<<i - 2, j - 2, k - 1>>] <=> e[<<i - 2, j - 2>>] <= k - 1
      <4>1. i - 2 \in 0 .. m /\ j - 2 \in 0 .. n
        BY <1>5, <3>1, <3>5
      <4>2. QED
        BY <1>7, <1>9, <2>0, <3>2, <3>5, <4>1
    <3>6. e[<<i, j>>] <= k <=> Leads(s, t, f, i, j, k)
      <4>1. k \in Nat
        BY <2>0
      <4>2. \/ e[<<i, j>>] <= k <=>
                \/ s[i] = t[j] /\ f[<<i - 1, j - 1, k>>]
                \/ k > 0 /\ \/ f[<<i - 1, j, k - 1>>]
                            \/ f[<<i, j - 1, k - 1>>]
                            \/ f[<<i - 1, j - 1, k - 1>>]
                            \/ Swaps(s, t, i, j) /\ f[<<i - 2, j - 2, k - 1>>]
        <5>1. CASE k > 0
            BY <1>8, <3>1, <3>3, <3>4, <3>5, <5>1
        <5>2. CASE ~(k > 0)
          <6>1. e[<<i, j>>] <= k <=> s[i] = t[j] /\ e[<<i - 1, j - 1>>] <= k
            BY <1>8, <3>1, <5>2
          <6>2. QED
            BY <3>3, <5>2, <6>1
        <5>3. QED
            BY <5>1, <5>2
      <4>3. QED
        BY <1>6, <3>1, <4>2
    <3>7. QED
        BY <1>7, <3>6
  <2>5. QED
    BY <2>1, <2>2, <2>3, <2>4
<1>10. Fits(g)
  <2>1. ASSUME NEW i \in 0 .. m, NEW j \in 0 .. n, NEW k \in 0 .. K
        PROVE  (e[<<i, j>>] <= k) = Leads(s, t, g, i, j, k)
    <3>1. Leads(s, t, g, i, j, k) <=> g[<<i, j, k>>]
        BY <1>9
    <3>2. Leads(s, t, g, i, j, k) \in BOOLEAN /\ (e[<<i, j>>] <= k) \in BOOLEAN
        BY DEF Leads
    <3>3. QED
        BY <1>7, <3>1, <3>2
  <2>2. QED
    BY <2>1, Zenon DEF g
<1>11. Fits(h)
    BY <1>10, Zenon DEF h
<1>12. ASSUME NEW i \in 0 .. m, NEW j \in 0 .. n, NEW k \in 0 .. K
       PROVE  h[<<i, j, k>>] = Leads(s, t, h, i, j, k)
    BY <1>11
<1> DEFINE T == {x \in 0 .. m + n : \A i \in 0 .. m, j \in 0 .. n, k \in 0 .. K :
                    i + j < x => (h[<<i, j, k>>] <=> g[<<i, j, k>>])}
<1>13. m + n \in Nat
    BY <1>2
<1>14. 0 \in T
  <2>1. \A i \in 0 .. m, j \in 0 .. n : ~(i + j < 0)
    BY <1>2
  <2>2. QED
    BY <1>13, <2>1
<1>15. ASSUME NEW x \in 1 .. m + n, x - 1 \in T
       PROVE  x \in T
  <2>1. ASSUME NEW i \in 0 .. m, NEW j \in 0 .. n, NEW k \in 0 .. K, i + j < x
        PROVE  h[<<i, j, k>>] <=> g[<<i, j, k>>]
    <3>1. \A a \in 0 .. m, b \in 0 .. n, l \in 0 .. K :
                a + b < i + j => (h[<<a, b, l>>] <=> g[<<a, b, l>>])
      <4>1. ASSUME NEW a \in 0 .. m, NEW b \in 0 .. n, NEW l \in 0 .. K, a + b < i + j
            PROVE  h[<<a, b, l>>] <=> g[<<a, b, l>>]
        <5>1. a + b < x - 1
            BY <1>2, <2>1, <4>1
        <5>2. QED
            BY <1>15, <5>1
      <4>2. QED
        BY <4>1
    <3>2. Leads(s, t, h, i, j, k) <=> g[<<i, j, k>>]
        BY <1>9, <3>1
    <3>3. QED
        BY <1>12, <3>2
  <2>2. QED
    BY <2>1
<1>16. m + n \in T
  <2> HIDE DEF T
  <2>1. \A x \in 0 .. m + n : x \in T
    BY <1>13, <1>14, <1>15, Climb
  <2>2. QED
    BY <1>13, <2>1
<1>17. h[<<m, n, K>>] <=> g[<<m, n, K>>]
  <2>1. Leads(s, t, h, m, n, K) <=> g[<<m, n, K>>]
    BY <1>2, <1>9, <1>16
  <2>2. QED
    BY <1>2, <1>12, <2>1
<1>18. QED
  <2>1. g[<<m, n, K>>] <=> e[<<m, n>>] <= K
    BY <1>2, <1>7
  <2>2. QED
    BY <1>1, <1>17, <2>1 DEF m, n

\* What is computed for a name is the number of edits that lead to it, times
\* the length of the word.
LEMMA MatchIsEdits ==
    ASSUME NEW word, NEW name, Len(word) \in Nat, Len(name) \in Nat
    PROVE  \E x \in Nat : /\ MatchOf(word, name) = x * Len(word)
                          /\ \A K \in Nat : Within(word, name, K) <=> x <= K
<1> DEFINE m == Len(word)
           n == Len(name)
<1>1. PICK e : Distances(word, name, 1, e)
    BY RowsAreDistances
<1>2. PICK d : Distances(word, name, m, d) /\ Levenshtein(word, name, m) = d[<<m, n>>]
    BY RowsAreDistances
<1>3. m \in 0 .. m /\ n \in 0 .. n
    OBVIOUS
<1>4. d[<<m, n>>] = e[<<m, n>>] * m
    BY <1>1, <1>2, <1>3, Scaled
<1>5. e[<<m, n>>] \in Nat
    BY <1>1, <1>3 DEF Distances
<1>6. \A K \in Nat : Within(word, name, K) <=> e[<<m, n>>] <= K
    BY <1>1, EditsAreEnough
<1>7. QED
    BY <1>2, <1>4, <1>5, <1>6 DEF MatchOf

\* The names that the fewest edits lead to.
LEMMA NearestFirst ==
    ASSUME NEW word, Len(word) \in Nat,
           NEW l \in Nat \ {0}, DOMAIN Commands = 1 .. l,
           \A c \in 1 .. l : Len(Commands[c]) \in Nat,
           Suggested(word) # 0
    PROVE  /\ Suggested(word) \in 1 .. l
           /\ Len(word) = 0 => Suggested(word) = 1
           /\ Len(word) # 0 =>
                \A n \in 1 .. 2 :
                    /\ {c \in 1 .. l : Within(word, Commands[c], n)} # {}
                    /\ {c \in 1 .. l : Within(word, Commands[c], n - 1)} = {}
                    => Suggested(word) = Min({c \in 1 .. l : Within(word, Commands[c], n)})
<1> DEFINE w == Len(word)
           match == Matching(word)
           nearest == Min(Range(match))
           Nearest == {c \in 1 .. l : match[c] = nearest}
<1>1. match = [c \in 1 .. l |-> MatchOf(word, Commands[c])]
    BY DEF Matching
<1>2. ASSUME NEW c \in 1 .. l
      PROVE  \E x \in Nat : /\ match[c] = x * w
                            /\ \A K \in Nat : Within(word, Commands[c], K) <=> x <= K
    BY <1>1, MatchIsEdits
<1> HIDE DEF match
<1>3. ASSUME NEW c \in 1 .. l
      PROVE  match[c] \in Nat
  <2>1. PICK x \in Nat : match[c] = x * w
    BY <1>2
  <2>2. QED
    BY <2>1
<1>4. Range(match) \in SUBSET Nat /\ Range(match) # {}
  <2>1. Range(match) = {match[c] : c \in 1 .. l}
    BY <1>1 DEF Range
  <2>2. 1 \in 1 .. l
    OBVIOUS
  <2>3. QED
    BY <1>3, <2>1, <2>2
<1>5. nearest \in Range(match) /\ \A y \in Range(match) : nearest <= y
    BY <1>4, MinIs
<1> HIDE DEF nearest
<1>6. \A c \in 1 .. l : nearest <= match[c]
    BY <1>1, <1>5 DEF Range
<1>7. Nearest \in SUBSET Nat /\ Nearest # {}
  <2>1. PICK c \in 1 .. l : match[c] = nearest
    BY <1>1, <1>5 DEF Range
  <2>2. QED
    BY <2>1
<1>8. Suggested(word) = Min(Nearest)
  <2>1. Suggested(word) = IF nearest < MinStart THEN Min({c \in DOMAIN Commands : match[c] = nearest}) ELSE 0
    BY DEF Suggested, match, nearest
  <2>2. QED
    BY <2>1
<1>9. Min(Nearest) \in Nearest /\ \A y \in Nearest : Min(Nearest) <= y
    BY <1>7, MinIs
<1>10. ASSUME w = 0
       PROVE  Suggested(word) = 1
  <2>1. ASSUME NEW c \in 1 .. l
        PROVE  match[c] = 0
    <3>1. PICK x \in Nat : match[c] = x * w
        BY <1>2
    <3>2. x * 0 = 0
        OBVIOUS
    <3>3. QED
        BY <1>10, <3>1, <3>2
  <2>2. nearest = 0
    BY <1>1, <1>5, <2>1 DEF Range
  <2>3. 1 \in Nearest
    BY <2>1, <2>2
  <2>4. \A y \in Nearest : 1 <= y
    OBVIOUS
  <2> HIDE DEF Nearest
  <2>5. QED
    BY <1>7, <1>8, <2>3, <2>4, MinOnly
<1>11. ASSUME w # 0, NEW n \in 1 .. 2, NEW b \in 1 .. l, Within(word, Commands[b], n),
              {c \in 1 .. l : Within(word, Commands[c], n - 1)} = {}
       PROVE  Nearest = {c \in 1 .. l : Within(word, Commands[c], n)}
  <2>1. n \in Nat /\ n - 1 \in Nat
    OBVIOUS
  <2>2. ASSUME NEW c \in 1 .. l
        PROVE  match[c] >= n * w /\ (match[c] = n * w <=> Within(word, Commands[c], n))
    <3>1. PICK x \in Nat : /\ match[c] = x * w
                           /\ \A K \in Nat : Within(word, Commands[c], K) <=> x <= K
        BY <1>2
    <3>2. ~(x <= n - 1)
        BY <1>11, <2>1, <3>1
    <3>3. n <= x
        BY <2>1, <3>2
    <3>4. n * w <= x * w /\ n * w \in Nat /\ x * w \in Nat
        BY <2>1, <3>3, Times
    <3>5. x * w <= n * w => x <= n
        BY <1>11, <2>1, Times
    <3>6. x <= n <=> x = n
        BY <2>1, <3>3
    <3>7. x * w = n * w <=> x <= n
        BY <3>4, <3>5, <3>6
    <3>8. QED
        BY <2>1, <3>1, <3>4, <3>7
  <2>3. match[b] = n * w
    BY <1>11, <2>2
  <2>4. nearest = n * w
    <3>1. nearest <= n * w
        BY <1>6, <2>3
    <3>2. PICK c \in 1 .. l : nearest = match[c]
        BY <1>1, <1>5 DEF Range
    <3>3. nearest >= n * w /\ nearest \in Nat
        BY <1>3, <2>2, <3>2
    <3>4. n * w \in Nat
        BY <2>1, Times
    <3>5. QED
        BY <3>1, <3>3, <3>4
  <2>5. QED
    BY <2>2, <2>4
<1> HIDE DEF Nearest
<1>12. ASSUME w # 0, NEW n \in 1 .. 2,
              {c \in 1 .. l : Within(word, Commands[c], n)} # {},
              {c \in 1 .. l : Within(word, Commands[c], n - 1)} = {}
       PROVE  Suggested(word) = Min({c \in 1 .. l : Within(word, Commands[c], n)})
  <2>1. PICK b \in 1 .. l : Within(word, Commands[b], n)
    BY <1>12
  <2>2. QED
    BY <1>8, <1>11, <1>12, <2>1
<1>13. Suggested(word) \in 1 .. l
    BY <1>8, <1>9 DEF Nearest
<1>14. QED
    BY <1>10, <1>12, <1>13

-----------------------------------------------------------------------------
(* Lines that are put together *)

\* Lines that are put together: ends[k] is what the first k of them are.
Together(lines, ends, n) ==
    /\ ends[0] = <<>> /\ FlattenSeq(lines) = ends[n]
    /\ \A k, l \in 0 .. n : k <= l => Len(ends[k]) <= Len(ends[l])
    /\ \A k \in 1 .. n :
            /\ ends[k] = ends[k - 1] \o lines[k]
            /\ Len(ends[k]) = Len(ends[k - 1]) + Len(lines[k])
            /\ \A i \in 1 .. Len(lines[k]) :
                    FlattenSeq(lines)[Len(ends[k - 1]) + i] = lines[k][i]

\* What stands where in lines that are put together.
LEMMA FlattenedParts ==
    ASSUME NEW U, NEW lines, NEW n \in Nat, Len(lines) = n, n = 0 => lines = <<>>,
           \A k \in 1 .. n : lines[k] \in Seq(U)
    PROVE  \E ends \in [0 .. n -> Seq(U)] : Together(lines, ends, n)
<1> DEFINE S == Seq(U)
           next == [p \in (1 .. n) \X S |-> p[2] \o lines[p[1]]]
<1>1. ASSUME NEW k \in 1 .. n, NEW s \in S
      PROVE  next[<<k, s>>] = s \o lines[k] /\ next[<<k, s>>] \in S
  <2>1. next[<<k, s>>] = s \o lines[k]
    OBVIOUS
  <2>2. lines[k] \in Seq(U)
    OBVIOUS
  <2> HIDE DEF next
  <2>3. QED
    BY <2>1, <2>2, ConcatProperties
<1>2. <<>> \in S
    BY EmptySeq
<1> HIDE DEF S, next
<1>3. PICK f \in [0 .. n -> S] : Follows(f, <<>>, next, n)
    BY <1>1, <1>2, Recursion
<1>4. ASSUME NEW k \in 1 .. n
      PROVE  /\ k \in 0 .. n /\ k - 1 \in 0 .. n
             /\ f[k] \in S /\ f[k - 1] \in S /\ lines[k] \in S
             /\ f[k] = f[k - 1] \o lines[k]
             /\ Len(f[k]) = Len(f[k - 1]) + Len(lines[k])
             /\ \A i \in 1 .. Len(f[k - 1]) : f[k][i] = f[k - 1][i]
             /\ \A i \in 1 .. Len(lines[k]) : f[k][Len(f[k - 1]) + i] = lines[k][i]
  <2>1. k \in 0 .. n /\ k - 1 \in 0 .. n
    OBVIOUS
  <2>2. f[k] \in S /\ f[k - 1] \in S /\ lines[k] \in S
    BY <1>3, <2>1 DEF S
  <2>3. f[k] = f[k - 1] \o lines[k]
    BY <1>1, <1>3, <2>2 DEF Follows
  <2> DEFINE a == f[k - 1]
             b == lines[k]
  <2>4. a \in Seq(U) /\ b \in Seq(U)
    BY <2>2 DEF S
  <2> HIDE DEF a, b
  <2>5. /\ Len(a \o b) = Len(a) + Len(b)
        /\ \A i \in 1 .. Len(a) : (a \o b)[i] = a[i]
        /\ \A i \in 1 .. Len(b) : (a \o b)[Len(a) + i] = b[i]
    BY <2>4
  <2>6. QED
    BY <2>1, <2>2, <2>3, <2>5 DEF a, b
<1>5. FlattenSeq(lines) = f[n]
  <2>1. CASE n = 0
    <3>1. FlattenSeq(lines) = lines
        BY <2>1 DEF FlattenSeq
    <3>2. QED
        BY <1>3, <2>1, <3>1 DEF Follows
  <2>2. CASE n # 0
    <3> DEFINE g == [k \in 1 .. n |-> f[k]]
    <3>1. g[1] = lines[1]
      <4>1. 1 \in 1 .. n
        BY <2>2
      <4>2. f[1] = f[1 - 1] \o lines[1] /\ lines[1] \in Seq(U)
        BY <1>4, <4>1
      <4>3. f[1 - 1] = <<>>
        BY <1>3 DEF Follows
      <4>4. <<>> \o lines[1] = lines[1]
        BY <4>2, ConcatEmptySeq
      <4>5. QED
        BY <4>1, <4>2, <4>3, <4>4
    <3>2. \A k \in 2 .. n : g[k] = g[k - 1] \o lines[k]
      <4>1. ASSUME NEW k \in 2 .. n
            PROVE  g[k] = g[k - 1] \o lines[k]
        <5>1. k \in 1 .. n /\ k - 1 \in 1 .. n
            OBVIOUS
        <5>2. g[k] = f[k] /\ g[k - 1] = f[k - 1]
            BY <5>1
        <5>3. f[k] = f[k - 1] \o lines[k]
            BY <1>4, <5>1
        <5>4. QED
            BY <5>2, <5>3
      <4>2. QED
        BY <4>1
    <3>3. g = [k \in 1 .. n |-> g[k]] /\ g[n] = f[n]
        BY <2>2
    <3> HIDE DEF g
    <3>4. Grows(g, lines, n)
        BY <3>1, <3>2, <3>3 DEF Grows
    <3>5. n \in Nat \ {0}
        BY <2>2
    <3>6. FlattenSeq(lines) = g[n]
        BY <3>4, <3>5, Flattened
    <3>7. QED
        BY <3>3, <3>6
  <2>3. QED
    BY <2>1, <2>2
<1>6. ASSUME NEW k \in 0 .. n
      PROVE  \A m \in k .. n : /\ Len(f[k]) <= Len(f[m])
                               /\ \A i \in 1 .. Len(f[k]) : f[m][i] = f[k][i]
  <2> DEFINE T == {d \in 0 .. n - k : /\ Len(f[k]) <= Len(f[k + d])
                                      /\ \A i \in 1 .. Len(f[k]) : f[k + d][i] = f[k][i]}
  <2>1. \A m \in 0 .. n : Len(f[m]) \in Nat
    BY <1>3, LenProperties DEF S
  <2>2. n - k \in Nat /\ k \in Nat
    OBVIOUS
  <2>3. 0 \in T
    BY <2>1, <2>2
  <2>4. ASSUME NEW d \in 1 .. n - k, d - 1 \in T
        PROVE  d \in T
    <3>1. k + d \in 1 .. n /\ k + (d - 1) = k + d - 1 /\ k + d - 1 \in 0 .. n
        BY <2>2
    <3> DEFINE m == k + d
    <3>2. /\ Len(f[m]) = Len(f[m - 1]) + Len(lines[m])
          /\ \A i \in 1 .. Len(f[m - 1]) : f[m][i] = f[m - 1][i]
        BY <1>4, <3>1
    <3>3. /\ Len(f[k]) <= Len(f[m - 1])
          /\ \A i \in 1 .. Len(f[k]) : f[m - 1][i] = f[k][i]
        BY <2>4, <3>1
    <3>4. Len(f[m]) \in Nat /\ Len(f[m - 1]) \in Nat /\ Len(f[k]) \in Nat
        BY <2>1, <3>1
    <3>5. lines[m] \in Seq(U)
        BY <3>1
    <3>6. Len(lines[m]) \in Nat
        BY <3>5, LenProperties
    <3> HIDE DEF m
    <3>7. Len(f[k]) <= Len(f[m]) /\ \A i \in 1 .. Len(f[k]) : f[m][i] = f[k][i]
      <4>1. \A i \in 1 .. Len(f[k]) : i \in 1 .. Len(f[m - 1])
        BY <3>3, <3>4
      <4>2. Len(f[k]) <= Len(f[m])
        <5>1. Len(f[m]) = Len(f[m - 1]) + Len(lines[m]) /\ Len(f[k]) <= Len(f[m - 1])
            BY <3>2, <3>3
        <5>2. \A x, y, z, w \in Nat : x <= y /\ w = y + z => x <= w
            OBVIOUS
        <5>3. QED
            BY <3>4, <3>6, <5>1, <5>2, Zenon
      <4>3. QED
        BY <3>2, <3>3, <4>1, <4>2
    <3>8. QED
        BY <3>7 DEF m
  <2> HIDE DEF T
  <2>5. \A d \in 0 .. n - k : d \in T
    BY <2>2, <2>3, <2>4, Climb
  <2>6. ASSUME NEW m \in k .. n
        PROVE  /\ Len(f[k]) <= Len(f[m])
               /\ \A i \in 1 .. Len(f[k]) : f[m][i] = f[k][i]
    <3>1. m - k \in 0 .. n - k /\ k + (m - k) = m
        OBVIOUS
    <3>2. m - k \in T
        BY <2>5, <3>1
    <3>3. QED
        BY <3>1, <3>2 DEF T
  <2>7. QED
    BY <2>6
<1>7. ASSUME NEW k \in 1 .. n, NEW i \in 1 .. Len(lines[k])
      PROVE  f[n][Len(f[k - 1]) + i] = lines[k][i]
  <2>1. k \in 0 .. n /\ k - 1 \in 0 .. n /\ n \in k .. n
    OBVIOUS
  <2>2. Len(f[k]) = Len(f[k - 1]) + Len(lines[k]) /\ f[k][Len(f[k - 1]) + i] = lines[k][i]
    BY <1>4
  <2>3. Len(f[k - 1]) \in Nat /\ Len(lines[k]) \in Nat
    BY <1>4, LenProperties DEF S
  <2>4. Len(f[k - 1]) + i \in 1 .. Len(f[k])
    BY <2>2, <2>3
  <2>5. QED
    BY <1>6, <2>1, <2>2, <2>4
<1>9. \A k, l \in 0 .. n : k <= l => Len(f[k]) <= Len(f[l])
  <2>1. \A k, l \in 0 .. n : k <= l => l \in k .. n
    OBVIOUS
  <2>2. QED
    BY <1>6, <2>1
<1>10. \A k \in 1 .. n : \A i \in 1 .. Len(lines[k]) :
            FlattenSeq(lines)[Len(f[k - 1]) + i] = lines[k][i]
    BY <1>5, <1>7
<1>11. Together(lines, f, n)
  <2>1. f[0] = <<>>
    BY <1>3 DEF Follows
  <2>2. \A k \in 1 .. n : f[k] = f[k - 1] \o lines[k] /\ Len(f[k]) = Len(f[k - 1]) + Len(lines[k])
    BY <1>4
  <2>3. QED
    BY <1>5, <1>9, <1>10, <2>1, <2>2, Zenon DEF Together
<1>12. QED
    BY <1>3, <1>11, Zenon DEF S

-----------------------------------------------------------------------------
(* One commit in commit.idx *)

\* Two more at the end of a sequence.
LEMMA TwoMore ==
    ASSUME NEW U, NEW s, s \in Seq(U), NEW a \in U, NEW b \in U
    PROVE  /\ s \o <<a, b>> \in Seq(U)
           /\ Len(s \o <<a, b>>) = Len(s) + 2
           /\ \A i \in 1 .. Len(s) : (s \o <<a, b>>)[i] = s[i]
           /\ (s \o <<a, b>>)[Len(s) + 1] = a /\ (s \o <<a, b>>)[Len(s) + 2] = b
<1> DEFINE t == <<a, b>>
           n == Len(s)
<1>1. t \in Seq(U) /\ Len(t) = 2 /\ t[1] = a /\ t[2] = b
    OBVIOUS
<1>2. n \in Nat
    BY LenProperties
<1> HIDE DEF t
<1>3. /\ s \o t \in Seq(U) /\ Len(s \o t) = n + Len(t)
      /\ \A i \in 1 .. n + Len(t) : (s \o t)[i] = IF i <= n THEN s[i] ELSE t[i - n]
    BY <1>1, ConcatProperties, Zenon DEF n
<1> HIDE DEF n
<1> DEFINE w == s \o t
<1>4. \A i \in 1 .. n + 2 : w[i] = IF i <= n THEN s[i] ELSE t[i - n]
    BY <1>1, <1>3
<1> HIDE DEF w
<1>5. \A i \in 1 .. n : w[i] = s[i]
  <2>1. \A i \in 1 .. n : i \in 1 .. n + 2 /\ i <= n
    BY <1>2
  <2>2. QED
    BY <1>4, <2>1
<1>6. w[n + 1] = t[1] /\ w[n + 2] = t[2]
  <2>1. n + 1 \in 1 .. n + 2 /\ n + 2 \in 1 .. n + 2 /\ ~(n + 1 <= n) /\ ~(n + 2 <= n)
        /\ (n + 1) - n = 1 /\ (n + 2) - n = 2
    BY <1>2
  <2>2. w[n + 1] = t[(n + 1) - n] /\ w[n + 2] = t[(n + 2) - n]
    BY <1>4, <2>1, Zenon
  <2>3. QED
    BY <2>1, <2>2, Zenon
<1>7. QED
    BY <1>1, <1>3, <1>5, <1>6 DEF n, t, w

Flags(c) == [tag |-> c.tag # NoTag, head |-> c.head]

\* Everything that is written of a commit.
Fields(c) ==
    {Flags(c), c.hash, c.tag, Len(c.name), c.name, Len(c.email), c.email,
     Len(c.message), c.message, Len(c.desc), c.desc, c.stamp, c.place}

\* Where the name begins in what is written of a commit.
Before(c) == IF c.tag = NoTag THEN 2 ELSE 3

\* What is written of a commit, field by field.
IsWritten(w, q, c) ==
    /\ Len(w) = q + 10
    /\ w[1] = Flags(c) /\ w[2] = c.hash
    /\ q = 3 => w[3] = c.tag
    /\ w[q + 1] = Len(c.name) /\ w[q + 2] = c.name
    /\ w[q + 3] = Len(c.email) /\ w[q + 4] = c.email
    /\ w[q + 5] = Len(c.message) /\ w[q + 6] = c.message
    /\ w[q + 7] = Len(c.desc) /\ w[q + 8] = c.desc
    /\ w[q + 9] = c.stamp /\ w[q + 10] = c.place

\* A commit is written as the fields that IsWritten names, in that order.
LEMMA WrittenCommit ==
    ASSUME NEW c
    PROVE  WriteCommit(c) \in Seq(Fields(c)) /\ IsWritten(WriteCommit(c), Before(c), c)
<1> DEFINE U == Fields(c)
           q == Before(c)
           head == <<Flags(c), c.hash>>
           tag == IF c.tag = NoTag THEN <<>> ELSE <<c.tag>>
           l2 == Len(c.name)
           l3 == Len(c.email)
           l4 == Len(c.message)
           l5 == Len(c.desc)
           w1 == head \o tag
           w2 == w1 \o <<l2, c.name>>
           w3 == w2 \o <<l3, c.email>>
           w4 == w3 \o <<l4, c.message>>
           w5 == w4 \o <<l5, c.desc>>
           w6 == w5 \o <<c.stamp, c.place>>
<1>1. WriteCommit(c) = w6
    BY DEF WriteCommit, Text, Flags
<1>2. q \in Nat /\ q \in {2, 3} /\ (q = 3 <=> c.tag # NoTag)
    BY DEF Before
<1>3. /\ Flags(c) \in U /\ c.hash \in U /\ c.tag \in U /\ l2 \in U /\ c.name \in U
      /\ l3 \in U /\ c.email \in U /\ l4 \in U /\ c.message \in U
      /\ l5 \in U /\ c.desc \in U /\ c.stamp \in U /\ c.place \in U
    BY Zenon DEF Fields
<1> HIDE DEF U, q, l2, l3, l4, l5
<1>4. /\ w1 \in Seq(U) /\ Len(w1) = q /\ w1[1] = Flags(c) /\ w1[2] = c.hash
      /\ q = 3 => w1[3] = c.tag
  <2>1. CASE c.tag = NoTag
    <3>1. head \in Seq(U) /\ Len(head) = 2 /\ head[1] = Flags(c) /\ head[2] = c.hash
        BY <1>3
    <3> HIDE DEF head
    <3>2. head \o <<>> = head
        BY <3>1, ConcatEmptySeq
    <3>3. q = 2 /\ q # 3
        BY <1>2, <2>1
    <3>4. w1 = head
        BY <2>1, <3>2
    <3> HIDE DEF w1
    <3>5. QED
        BY <3>1, <3>3, <3>4, Zenon
  <2>2. CASE c.tag # NoTag
    <3>1. q = 3
        BY <1>2, <2>2
    <3>2. w1 = <<Flags(c), c.hash>> \o <<c.tag>>
        BY <2>2
    <3> DEFINE one == <<c.tag>>
    <3>3. one \in Seq(U) /\ Len(one) = 1 /\ one[1] = c.tag
        BY <1>3
    <3>4. head \in Seq(U) /\ Len(head) = 2 /\ head[1] = Flags(c) /\ head[2] = c.hash
        BY <1>3
    <3>5. w1 = head \o one
        BY <3>2
    <3> HIDE DEF head, one, w1
    <3>6. /\ w1 \in Seq(U) /\ Len(w1) = Len(head) + Len(one)
          /\ \A i \in 1 .. Len(head) + Len(one) :
                w1[i] = IF i <= Len(head) THEN head[i] ELSE one[i - Len(head)]
        BY <3>3, <3>4, <3>5, ConcatProperties, Zenon
    <3>7. \A i \in 1 .. 3 : w1[i] = IF i <= 2 THEN head[i] ELSE one[i - 2]
        BY <3>3, <3>4, <3>6
    <3>8. w1[1] = head[1] /\ w1[2] = head[2] /\ w1[3] = one[1]
        BY <3>7
    <3>9. Len(w1) = 3
        BY <3>3, <3>4, <3>6
    <3>10. QED
        BY <3>1, <3>3, <3>4, <3>6, <3>8, <3>9, Zenon
  <2>3. QED
    BY <2>1, <2>2
<1> HIDE DEF w1
<1>5. /\ w2 \in Seq(U) /\ Len(w2) = Len(w1) + 2 /\ \A i \in 1 .. Len(w1) : w2[i] = w1[i]
      /\ w2[Len(w1) + 1] = l2 /\ w2[Len(w1) + 2] = c.name
    BY <1>3, <1>4, TwoMore
<1> HIDE DEF w2
<1>6. /\ w3 \in Seq(U) /\ Len(w3) = Len(w2) + 2 /\ \A i \in 1 .. Len(w2) : w3[i] = w2[i]
      /\ w3[Len(w2) + 1] = l3 /\ w3[Len(w2) + 2] = c.email
    BY <1>3, <1>5, TwoMore
<1> HIDE DEF w3
<1>7. /\ w4 \in Seq(U) /\ Len(w4) = Len(w3) + 2 /\ \A i \in 1 .. Len(w3) : w4[i] = w3[i]
      /\ w4[Len(w3) + 1] = l4 /\ w4[Len(w3) + 2] = c.message
    BY <1>3, <1>6, TwoMore
<1> HIDE DEF w4
<1>8. /\ w5 \in Seq(U) /\ Len(w5) = Len(w4) + 2 /\ \A i \in 1 .. Len(w4) : w5[i] = w4[i]
      /\ w5[Len(w4) + 1] = l5 /\ w5[Len(w4) + 2] = c.desc
    BY <1>3, <1>7, TwoMore
<1> HIDE DEF w5
<1>9. /\ w6 \in Seq(U) /\ Len(w6) = Len(w5) + 2 /\ \A i \in 1 .. Len(w5) : w6[i] = w5[i]
      /\ w6[Len(w5) + 1] = c.stamp /\ w6[Len(w5) + 2] = c.place
    BY <1>3, <1>8, TwoMore
<1> HIDE DEF w6
<1>10. Len(w1) = q /\ Len(w2) = q + 2 /\ Len(w3) = q + 4 /\ Len(w4) = q + 6 /\ Len(w5) = q + 8
       /\ Len(w6) = q + 10
  <2>1. /\ Len(w1) = q /\ Len(w2) = Len(w1) + 2 /\ Len(w3) = Len(w2) + 2
        /\ Len(w4) = Len(w3) + 2 /\ Len(w5) = Len(w4) + 2 /\ Len(w6) = Len(w5) + 2
    BY <1>4, <1>5, <1>6, <1>7, <1>8, <1>9
  <2>2. QED
    BY <1>2, <2>1
<1>11. \A i \in 1 .. q : w6[i] = w1[i]
    <2>1. ASSUME NEW i \in 1 .. q
          PROVE  w6[i] = w1[i]
      <3>1. i \in 1 .. q + 2 /\ i \in 1 .. q + 4 /\ i \in 1 .. q + 6 /\ i \in 1 .. q + 8
        BY <1>2
      <3>2. QED
        BY <1>5, <1>6, <1>7, <1>8, <1>9, <1>10, <3>1, Zenon
    <2>2. QED
      BY <2>1
<1>12. /\ w6[q + 1] = l2 /\ w6[q + 2] = c.name
  <2>1. ASSUME NEW i \in {q + 1, q + 2}
        PROVE  w6[i] = w2[i]
    <3>1. i \in 1 .. q + 2 /\ i \in 1 .. q + 4 /\ i \in 1 .. q + 6 /\ i \in 1 .. q + 8
        BY <1>2
    <3>2. QED
        BY <1>6, <1>7, <1>8, <1>9, <1>10, <3>1, Zenon
  <2>2. QED
    BY <1>5, <1>10, <2>1, Zenon
<1>13. /\ w6[q + 3] = l3 /\ w6[q + 4] = c.email
  <2>1. ASSUME NEW i \in {q + 3, q + 4}
        PROVE  w6[i] = w3[i]
    <3>1. i \in 1 .. q + 4 /\ i \in 1 .. q + 6 /\ i \in 1 .. q + 8
        BY <1>2
    <3>2. QED
        BY <1>7, <1>8, <1>9, <1>10, <3>1, Zenon
  <2>2. q + 2 + 1 = q + 3 /\ q + 2 + 2 = q + 4
    BY <1>2
  <2>3. QED
    BY <1>6, <1>10, <2>1, <2>2, Zenon
<1>14. /\ w6[q + 5] = l4 /\ w6[q + 6] = c.message
  <2>1. ASSUME NEW i \in {q + 5, q + 6}
        PROVE  w6[i] = w4[i]
    <3>1. i \in 1 .. q + 6 /\ i \in 1 .. q + 8
        BY <1>2
    <3>2. QED
        BY <1>8, <1>9, <1>10, <3>1, Zenon
  <2>2. q + 4 + 1 = q + 5 /\ q + 4 + 2 = q + 6
    BY <1>2
  <2>3. QED
    BY <1>7, <1>10, <2>1, <2>2, Zenon
<1>15. /\ w6[q + 7] = l5 /\ w6[q + 8] = c.desc
  <2>1. ASSUME NEW i \in {q + 7, q + 8}
        PROVE  w6[i] = w5[i]
    <3>1. i \in 1 .. q + 8
        BY <1>2
    <3>2. QED
        BY <1>9, <1>10, <3>1, Zenon
  <2>2. q + 6 + 1 = q + 7 /\ q + 6 + 2 = q + 8
    BY <1>2
  <2>3. QED
    BY <1>8, <1>10, <2>1, <2>2, Zenon
<1>16. /\ w6[q + 9] = c.stamp /\ w6[q + 10] = c.place
  <2>2. q + 8 + 1 = q + 9 /\ q + 8 + 2 = q + 10
    BY <1>2
  <2>3. QED
    BY <1>9, <1>10, <2>2, Zenon
<1>17. w6[1] = Flags(c) /\ w6[2] = c.hash /\ (q = 3 => w6[3] = c.tag)
  <2>1. 1 \in 1 .. q /\ 2 \in 1 .. q /\ (q = 3 => 3 \in 1 .. q)
    BY <1>2
  <2>2. QED
    BY <1>4, <1>11, <2>1, Zenon
<1>18. IsWritten(w6, q, c)
    BY <1>10, <1>12, <1>13, <1>14, <1>15, <1>16, <1>17, Zenon DEF IsWritten, l2, l3, l4, l5
<1>19. QED
    BY <1>1, <1>9, <1>18, Zenon DEF U, q

-----------------------------------------------------------------------------
(* All commits in commit.idx *)

\* Where the commits of a file begin, and where the next one would.
Laid(file, at, commits) ==
    LET n == Len(commits)
    IN  /\ at \in [1 .. n + 1 -> Nat] /\ at[1] = 2
        /\ Len(file) + 1 = at[n + 1] /\ file[1] = n
        /\ \A k \in 1 .. n : at[k + 1] = at[k] + Before(commits[k]) + 10
        /\ \A k \in 1 .. n : \A l \in 1 .. n + 1 : k < l => at[k + 1] <= at[l]
        /\ \A k \in 1 .. n : \A i \in 1 .. Before(commits[k]) + 10 :
                file[at[k] + i - 1] = WriteCommit(commits[k])[i]

\* The list of the commits is written with one commit after the other.
LEMMA WrittenList ==
    ASSUME NEW commits, commits \in Seq(Range(commits))
    PROVE  /\ \E U : WriteList(commits) \in Seq(U)
           /\ \E at : Laid(WriteList(commits), at, commits)
<1> DEFINE n == Len(commits)
           lines == [k \in DOMAIN commits |-> WriteCommit(commits[k])]
           V == UNION {Fields(c) : c \in Range(commits)}
           U == V \union Nat
<1>1. n \in Nat /\ DOMAIN commits = 1 .. n
    BY LenProperties
<1>2. ASSUME NEW k \in 1 .. n
      PROVE  /\ lines[k] = WriteCommit(commits[k]) /\ lines[k] \in Seq(U)
             /\ Len(lines[k]) = Before(commits[k]) + 10
  <2>1. commits[k] \in Range(commits)
    BY <1>1 DEF Range
  <2>2. Fields(commits[k]) \subseteq V
    BY <2>1
  <2> HIDE DEF V
  <2>3. Seq(Fields(commits[k])) \subseteq Seq(U)
    BY <2>2
  <2>4. lines[k] = WriteCommit(commits[k])
    BY <1>1
  <2> HIDE DEF lines
  <2>5. QED
    BY <2>3, <2>4, WrittenCommit DEF IsWritten
<1>3. Len(lines) = n /\ (n = 0 => lines = <<>>)
  <2>1. lines = [k \in 1 .. n |-> WriteCommit(commits[k])]
    BY <1>1
  <2> HIDE DEF n
  <2>2. Len(lines) = n
    BY <1>1, <2>1
  <2>3. ASSUME n = 0
        PROVE  lines = <<>>
    BY <2>1, <2>3
  <2>4. QED
    BY <2>2, <2>3
<1> HIDE DEF V
<1>4. Nat \subseteq U
    OBVIOUS
<1> HIDE DEF n, lines, U
<1>5. PICK ends \in [0 .. n -> Seq(U)] : Together(lines, ends, n)
  <2>1. n \in Nat
    BY <1>1
  <2>2. \A k \in 1 .. n : lines[k] \in Seq(U)
    BY <1>2
  <2>3. QED
    BY <1>3, <2>1, <2>2, FlattenedParts, Zenon
<1> DEFINE at == [k \in 1 .. n + 1 |-> 2 + Len(ends[k - 1])]
           flat == FlattenSeq(lines)
           file == WriteList(commits)
<1>6. \A k \in 0 .. n : Len(ends[k]) \in Nat
    BY <1>5, LenProperties
<1>7. file = <<n>> \o flat /\ flat \in Seq(U)
  <2>1. n \in 0 .. n
    BY <1>1
  <2>2. QED
    BY <1>5, <2>1 DEF WriteList, Together, n, lines
<1> HIDE DEF file, flat
<1>8. /\ file \in Seq(U) /\ Len(file) = 1 + Len(flat) /\ file[1] = n
      /\ \A i \in 1 .. Len(flat) : file[1 + i] = flat[i]
  <2> DEFINE first == <<n>>
  <2>1. first \in Seq(U) /\ Len(first) = 1 /\ first[1] = n
    BY <1>1, <1>4
  <2> HIDE DEF first
  <2>2. file = first \o flat
    BY <1>7 DEF first
  <2>3. /\ file \in Seq(U) /\ Len(file) = Len(first) + Len(flat)
        /\ \A i \in 1 .. Len(first) + Len(flat) :
              file[i] = IF i <= Len(first) THEN first[i] ELSE flat[i - Len(first)]
    <3>1. first \in Seq(U) /\ flat \in Seq(U)
        BY <1>7, <2>1
    <3>2. QED
        BY <2>2, <3>1, ConcatProperties
  <2>4. Len(flat) \in Nat
    BY <1>7, LenProperties
  <2> DEFINE m == Len(flat)
  <2>5. \A i \in 1 .. 1 + m : file[i] = IF i <= 1 THEN first[i] ELSE flat[i - 1]
    BY <2>1, <2>3
  <2> HIDE DEF m
  <2>6. file[1] = n
    <3>1. 1 \in 1 .. 1 + m
        BY <2>4 DEF m
    <3>2. QED
        BY <2>1, <2>5, <3>1
  <2>7. \A i \in 1 .. m : file[1 + i] = flat[i]
    <3>1. \A i \in 1 .. m : 1 + i \in 1 .. 1 + m /\ ~(1 + i <= 1) /\ (1 + i) - 1 = i
        BY <2>4 DEF m
    <3>2. QED
        BY <2>5, <3>1
  <2>8. Len(file) = 1 + m
    BY <2>1, <2>3 DEF m
  <2>9. QED
    BY <2>3, <2>6, <2>7, <2>8 DEF m
<1>9. \A k \in 1 .. n : Before(commits[k]) \in Nat
    BY DEF Before
<1>10. at \in [1 .. n + 1 -> Nat] /\ at[1] = 2
  <2>1. \A k \in 1 .. n + 1 : k - 1 \in 0 .. n
    BY <1>1
  <2>2. \A k \in 1 .. n + 1 : 2 + Len(ends[k - 1]) \in Nat
    BY <1>6, <2>1
  <2>3. at[1] = 2 + Len(ends[1 - 1])
    BY <1>1
  <2>4. ends[1 - 1] = <<>>
    BY <1>5 DEF Together
  <2>5. QED
    BY <2>2, <2>3, <2>4
<1>11. Len(file) + 1 = at[n + 1]
  <2>1. at[n + 1] = 2 + Len(ends[n + 1 - 1]) /\ n + 1 - 1 = n /\ n \in 0 .. n
    BY <1>1
  <2>2. Len(flat) = Len(ends[n]) /\ Len(ends[n]) \in Nat
    BY <1>5, <1>6, <2>1 DEF flat, Together
  <2>3. QED
    BY <1>8, <2>1, <2>2
<1>12. ASSUME NEW k \in 1 .. n
       PROVE  /\ at[k + 1] = at[k] + Before(commits[k]) + 10
              /\ \A l \in 1 .. n + 1 : k < l => at[k + 1] <= at[l]
              /\ \A i \in 1 .. Before(commits[k]) + 10 :
                    file[at[k] + i - 1] = WriteCommit(commits[k])[i]
  <2>1. k + 1 \in 1 .. n + 1 /\ k \in 1 .. n + 1 /\ k \in 0 .. n /\ k - 1 \in 0 .. n /\ (k + 1) - 1 = k
    BY <1>1
  <2> DEFINE x == Len(ends[k])
             y == Len(ends[k - 1])
             b == Before(commits[k])
  <2>2. at[k + 1] = 2 + x /\ at[k] = 2 + y /\ x \in Nat /\ y \in Nat /\ b \in Nat
    BY <1>6, <1>9, <2>1
  <2>3. x = y + Len(lines[k]) /\ Len(lines[k]) = b + 10
    BY <1>2, <1>5 DEF Together
  <2>4. ASSUME NEW l \in 1 .. n + 1, k < l
        PROVE  at[k + 1] <= at[l]
    <3>1. l - 1 \in 0 .. n /\ k <= l - 1
        BY <1>1, <2>4
    <3>2. Len(ends[k]) <= Len(ends[l - 1]) /\ Len(ends[l - 1]) \in Nat
        BY <1>5, <1>6, <2>1, <3>1 DEF Together
    <3>3. at[l] = 2 + Len(ends[l - 1])
        OBVIOUS
    <3> HIDE DEF at
    <3>4. QED
        BY <2>2, <3>2, <3>3
  <2>5. ASSUME NEW i \in 1 .. b + 10
        PROVE  file[at[k] + i - 1] = WriteCommit(commits[k])[i]
    <3>1. i \in 1 .. Len(lines[k])
        BY <2>3
    <3>2. flat[y + i] = lines[k][i]
        BY <1>5, <3>1 DEF flat, Together
    <3>3. x <= Len(flat) /\ Len(flat) \in Nat
      <4>1. n \in 0 .. n /\ k <= n
        BY <1>1
      <4>2. QED
        BY <1>5, <1>6, <2>1, <4>1 DEF flat, Together
    <3> HIDE DEF at, b, x, y
    <3>4. y + i \in 1 .. Len(flat) /\ at[k] + i - 1 = 1 + (y + i)
        BY <2>2, <2>3, <3>3
    <3>5. file[1 + (y + i)] = flat[y + i]
        BY <1>8, <3>4
    <3>6. QED
        BY <1>2, <3>2, <3>4, <3>5
  <2> HIDE DEF at, x, y
  <2>6. at[k + 1] = at[k] + b + 10
    BY <2>2, <2>3
  <2>7. QED
    BY <2>4, <2>5, <2>6
<1> HIDE DEF at
<1>13. Laid(file, at, commits)
  <2>1. n = Len(commits)
    BY DEF n
  <2>2. QED
    BY <1>8, <1>10, <1>11, <1>12, <2>1, Zenon DEF Laid
<1>14. QED
    BY <1>8, <1>13, Zenon DEF file

-----------------------------------------------------------------------------
(* The readers of commit.idx, field by field *)

\* A file, or its beginning.
Begun(part, file) ==
    /\ Len(part) \in Nat /\ Len(file) \in Nat /\ Len(part) <= Len(file)
    /\ \A i \in 1 .. Len(part) : part[i] = file[i]

\* A file that lost its end is the beginning of the whole one.
LEMMA CutFile ==
    ASSUME NEW U, NEW file, file \in Seq(U), NEW cut \in Nat
    PROVE  /\ Begun(SubSeq(file, 1, Len(file) - cut), file)
           /\ cut = 0 => Len(SubSeq(file, 1, Len(file) - cut)) = Len(file)
<1> DEFINE n == Len(file)
           m == n - cut
           part == SubSeq(file, 1, m)
<1>1. n \in Nat /\ \A i \in 1 .. n : file[i] \in U
    BY LenProperties
<1> HIDE DEF n
<1>2. m \in Int /\ m <= n /\ \A i \in 1 .. m : i \in 1 .. n
    BY <1>1
<1> HIDE DEF m
<1>3. \A i \in 1 .. m : file[i] \in U
    BY <1>1, <1>2
<1>4. /\ Len(part) = IF 1 <= m THEN m - 1 + 1 ELSE 0
      /\ \A i \in 1 .. m - 1 + 1 : part[i] = file[1 + i - 1]
  <2>1. 1 \in Int
    OBVIOUS
  <2>2. QED
    BY <1>2, <1>3, <2>1, SubSeqProperties
<1> HIDE DEF part
<1>5. Len(part) \in Nat /\ Len(part) <= n /\ (m = n => Len(part) = n)
    BY <1>1, <1>2, <1>4
<1>6. ASSUME NEW i \in 1 .. Len(part)
      PROVE  part[i] = file[i]
  <2>1. i \in 1 .. m - 1 + 1 /\ 1 + i - 1 = i
    BY <1>2, <1>4
  <2>2. part[i] = file[1 + i - 1]
    BY <1>4, <2>1
  <2>3. QED
    BY <2>1, <2>2
<1>7. cut = 0 => m = n
    BY <1>1 DEF m
<1>8. QED
    BY <1>1, <1>5, <1>6, <1>7 DEF Begun, n, m, part

\* The reader goes on two or three fields further, after the tag or without one.
LEMMA AfterTagIs ==
    ASSUME NEW file, NEW p \in Nat
    PROVE  AfterTag(file, p) \in {p + 2, p + 3} /\ AfterTag(file, p) \in Nat
<1>1. AfterTag(file, p) \in {p + 2, p + 3}
    BY Zenon DEF AfterTag
<1>2. QED
    BY <1>1

\* Where a reader thinks that the commits begin.
LEMMA StartsAre ==
    ASSUME NEW file, NEW n \in Nat, Field(file, 1, 0) = n
    PROVE  /\ Starts(file) \in [1 .. n -> Nat]
           /\ 1 \in 1 .. n => Starts(file)[1] = 2
           /\ \A k \in 2 .. n : Starts(file)[k] = AfterTag(file, Starts(file)[k - 1]) + 10
<1> DEFINE Fits(f) == f = [k \in 1 .. Field(file, 1, 0) |->
                                IF k = 1 THEN 2 ELSE AfterTag(file, f[k - 1]) + 10]
           h == CHOOSE f : Fits(f)
           next == [p \in (1 .. n) \X Nat |-> IF p[1] = 1 THEN 2 ELSE AfterTag(file, p[2]) + 10]
<1>1. Starts(file) = h
    BY Zenon DEF Starts
<1>2. ASSUME NEW k \in 1 .. n, NEW s \in Nat
      PROVE  /\ next[<<k, s>>] = IF k = 1 THEN 2 ELSE AfterTag(file, s) + 10
             /\ next[<<k, s>>] \in Nat
  <2>1. next[<<k, s>>] = IF k = 1 THEN 2 ELSE AfterTag(file, s) + 10
    OBVIOUS
  <2>2. AfterTag(file, s) \in Nat
    BY AfterTagIs
  <2>3. QED
    BY <2>1, <2>2
<1> HIDE DEF next
<1>3. PICK g \in [0 .. n -> Nat] : Follows(g, 0, next, n)
    BY <1>2, Recursion
<1> DEFINE f == [k \in 1 .. n |-> g[k]]
<1>4. f \in [1 .. n -> Nat]
    BY <1>3
<1>5. ASSUME NEW k \in 1 .. n
      PROVE  f[k] = IF k = 1 THEN 2 ELSE AfterTag(file, f[k - 1]) + 10
  <2>1. k - 1 \in 0 .. n /\ g[k] = next[<<k, g[k - 1]>>]
    BY <1>3 DEF Follows
  <2>2. g[k] = IF k = 1 THEN 2 ELSE AfterTag(file, g[k - 1]) + 10
    BY <1>2, <1>3, <2>1
  <2>3. k # 1 => k - 1 \in 1 .. n
    OBVIOUS
  <2>4. k # 1 => f[k - 1] = g[k - 1]
    BY <2>3
  <2>5. f[k] = g[k]
    OBVIOUS
  <2> HIDE DEF f
  <2>6. QED
    BY <2>2, <2>4, <2>5
<1>6. Fits(f)
  <2> HIDE DEF f
  <2>1. f = [k \in 1 .. n |-> f[k]]
    BY <1>4
  <2>2. QED
    BY <1>5, <2>1
<1> HIDE DEF f
<1>7. Fits(h)
    BY <1>6, Zenon
<1> HIDE DEF h
<1>8. h = [k \in 1 .. n |-> IF k = 1 THEN 2 ELSE AfterTag(file, h[k - 1]) + 10]
    BY <1>7
<1>9. ASSUME NEW k \in 1 .. n
      PROVE  h[k] = f[k]
  <2> DEFINE T == {m \in 0 .. n : \A l \in 1 .. m : h[l] = f[l]}
  <2>1. 0 \in T
    OBVIOUS
  <2>2. ASSUME NEW m \in 1 .. n, m - 1 \in T
        PROVE  m \in T
    <3>1. m # 1 => m - 1 \in 1 .. m - 1
        OBVIOUS
    <3>2. m # 1 => h[m - 1] = f[m - 1]
        BY <2>2, <3>1
    <3>3. h[m] = f[m]
        BY <1>5, <1>8, <3>2
    <3>4. \A l \in 1 .. m : l = m \/ l \in 1 .. m - 1
        OBVIOUS
    <3>5. QED
        BY <2>2, <3>3, <3>4
  <2> HIDE DEF T
  <2>3. \A m \in 0 .. n : m \in T
    BY <2>1, <2>2, Climb
  <2>4. k \in 0 .. n
    OBVIOUS
  <2>5. k \in T
    BY <2>3, <2>4
  <2>6. QED
    BY <2>5 DEF T
<1>10. h \in [1 .. n -> Nat]
  <2>1. \A k \in 1 .. n : h[k] \in Nat
    BY <1>4, <1>9
  <2>2. QED
    BY <1>8, <2>1
<1>11. \A k \in 2 .. n : h[k] = AfterTag(file, h[k - 1]) + 10
  <2>1. \A k \in 2 .. n : k \in 1 .. n /\ k # 1
    OBVIOUS
  <2>2. QED
    BY <1>8, <2>1
<1>12. 1 \in 1 .. n => h[1] = 2
    BY <1>8
<1>13. QED
    BY <1>1, <1>10, <1>11, <1>12

\* The same in everything that is kept.
Same(c, d) ==
    /\ c.hash = d.hash /\ c.tag = d.tag /\ c.head = d.head
    /\ c.name = d.name /\ c.email = d.email /\ c.message = d.message /\ c.desc = d.desc
    /\ c.stamp = d.stamp /\ c.place = d.place

\* A commit is read where it was written: all of it, if all of it is there.
LEMMA ReadAt ==
    ASSUME NEW file, NEW part, Begun(part, file),
           NEW p \in Nat, p >= 1, p + 1 <= Len(part), NEW c,
           \A i \in 1 .. Before(c) + 10 : file[p + i - 1] = WriteCommit(c)[i]
    PROVE  /\ AfterTag(part, p) = p + Before(c)
           /\ ReadCommit(part, p).hash = c.hash /\ ReadCommit(part, p).head = c.head
           /\ ReadCommit(part, p).tag \in {c.tag, NoTag}
           /\ p + Before(c) + 9 <= Len(part) =>
                /\ Same(ReadCommit(part, p), c)
                /\ ReadFails(part, p) <=>
                        Len(c.name) > Room \/ Len(c.email) > RoomWithName(Len(c.name))
<1> DEFINE q == Before(c)
           m == Len(part)
<1>1. q \in Nat /\ q \in {2, 3} /\ (q = 3 <=> c.tag # NoTag) /\ m \in Nat
    BY DEF Before, Begun
<1>2. ASSUME NEW i \in 0 .. q + 9, p + i <= m
      PROVE  part[p + i] = WriteCommit(c)[i + 1]
  <2>1. i + 1 \in 1 .. q + 10 /\ p + (i + 1) - 1 = p + i /\ p + i \in 1 .. m
    BY <1>1, <1>2
  <2>2. part[p + i] = file[p + i]
    BY <2>1 DEF Begun
  <2>3. file[p + (i + 1) - 1] = WriteCommit(c)[i + 1]
    BY <2>1
  <2>4. QED
    BY <2>1, <2>2, <2>3
<1>3. IsWritten(WriteCommit(c), q, c)
    BY WrittenCommit
<1> HIDE DEF q, m
<1>4. part[p] = Flags(c) /\ part[p + 1] = c.hash
  <2>1. 0 \in 0 .. q + 9 /\ p + 0 = p /\ p + 0 <= m /\ 0 + 1 = 1
        /\ 1 \in 0 .. q + 9 /\ p + 1 <= m /\ 1 + 1 = 2
    BY <1>1 DEF m
  <2>2. part[p + 0] = WriteCommit(c)[0 + 1] /\ part[p + 1] = WriteCommit(c)[1 + 1]
    BY <1>2, <2>1
  <2>3. QED
    BY <1>3, <2>1, <2>2 DEF IsWritten
<1>5. p <= m /\ p + 1 <= m
    BY <1>1 DEF m
<1>6. AfterTag(part, p) = p + q
  <2>1. Field(part, p, [tag |-> FALSE]) = Flags(c)
    BY <1>4, <1>5 DEF Field, m
  <2>2. AfterTag(part, p) = IF Flags(c).tag THEN p + 3 ELSE p + 2
    BY <2>1 DEF AfterTag
  <2>3. Flags(c).tag <=> q = 3
    BY <1>1 DEF Flags
  <2>4. QED
    BY <1>1, <2>2, <2>3
<1> DEFINE r == ReadCommit(part, p)
<1>7. /\ r.hash = Field(part, p + 1, <<>>)
      /\ r.tag = IF p + q = p + 3 THEN Field(part, p + 2, NoTag) ELSE NoTag
      /\ r.head = Field(part, p, [head |-> FALSE]).head
      /\ r.name = Field(part, p + q + 1, <<>>)
      /\ r.email = Field(part, p + q + 3, <<>>)
      /\ r.message = Field(part, p + q + 5, <<>>)
      /\ r.desc = Field(part, p + q + 7, <<>>)
      /\ r.stamp = Field(part, p + q + 8, Now)
      /\ r.place = Field(part, p + q + 9, Junk)
    BY <1>6 DEF ReadCommit
<1> HIDE DEF r
<1>8. r.hash = c.hash /\ r.head = c.head
    BY <1>4, <1>5, <1>7 DEF Field, Flags, m
<1>9. ASSUME p + 2 <= m
      PROVE  r.tag = c.tag
  <2>1. CASE q = 3
    <3>1. 2 \in 0 .. q + 9 /\ 2 + 1 = 3
        BY <1>1
    <3>2. part[p + 2] = WriteCommit(c)[2 + 1]
        BY <1>2, <1>9, <3>1
    <3>3. part[p + 2] = c.tag
        BY <1>3, <2>1, <3>1, <3>2 DEF IsWritten
    <3>4. QED
        BY <1>7, <1>9, <2>1, <3>3 DEF Field, m
  <2>2. CASE q # 3
    <3>1. p + q # p + 3
        BY <1>1, <2>2
    <3>2. QED
        BY <1>1, <1>7, <2>2, <3>1
  <2>3. QED
    BY <2>1, <2>2
<1>10. r.tag \in {c.tag, NoTag}
  <2>1. CASE p + 2 <= m
    BY <1>9, <2>1
  <2>2. CASE ~(p + 2 <= m)
    BY <1>7, <2>2 DEF Field, m
  <2>3. QED
    BY <2>1, <2>2
<1>11. ASSUME p + q + 9 <= m
       PROVE  /\ Same(r, c)
              /\ Field(part, p + q, 0) = Len(c.name)
              /\ Field(part, p + q + 2, Len(c.name)) = Len(c.email)
  <2>1. ASSUME NEW i \in 0 .. 9
        PROVE  p + q + i <= m /\ part[p + q + i] = WriteCommit(c)[q + i + 1]
    <3>0. p + q + 9 <= m /\ q \in Nat /\ m \in Nat /\ p \in Nat
        BY <1>1, <1>11
    <3>1. q + i \in 0 .. q + 9 /\ p + (q + i) = p + q + i /\ p + (q + i) <= m
        BY <3>0
    <3>2. part[p + (q + i)] = WriteCommit(c)[(q + i) + 1]
        BY <1>2, <3>1
    <3>3. QED
        BY <3>1, <3>2
  <2>2. /\ part[p + q + 0] = WriteCommit(c)[q + 0 + 1] /\ p + q + 0 <= m
        /\ part[p + q + 1] = WriteCommit(c)[q + 1 + 1] /\ p + q + 1 <= m
        /\ part[p + q + 2] = WriteCommit(c)[q + 2 + 1] /\ p + q + 2 <= m
        /\ part[p + q + 3] = WriteCommit(c)[q + 3 + 1] /\ p + q + 3 <= m
        /\ part[p + q + 5] = WriteCommit(c)[q + 5 + 1] /\ p + q + 5 <= m
        /\ part[p + q + 7] = WriteCommit(c)[q + 7 + 1] /\ p + q + 7 <= m
        /\ part[p + q + 8] = WriteCommit(c)[q + 8 + 1] /\ p + q + 8 <= m
        /\ part[p + q + 9] = WriteCommit(c)[q + 9 + 1] /\ p + q + 9 <= m
    BY <2>1
  <2>3. /\ q + 0 + 1 = q + 1 /\ q + 1 + 1 = q + 2 /\ q + 2 + 1 = q + 3 /\ q + 3 + 1 = q + 4
        /\ q + 5 + 1 = q + 6 /\ q + 7 + 1 = q + 8 /\ q + 8 + 1 = q + 9 /\ q + 9 + 1 = q + 10
        /\ p + q + 0 = p + q /\ p + 2 <= m
    BY <1>1, <1>11
  <2>4. /\ part[p + q] = Len(c.name) /\ part[p + q + 1] = c.name
        /\ part[p + q + 2] = Len(c.email) /\ part[p + q + 3] = c.email
        /\ part[p + q + 5] = c.message /\ part[p + q + 7] = c.desc
        /\ part[p + q + 8] = c.stamp /\ part[p + q + 9] = c.place
    BY <1>3, <2>2, <2>3, Zenon DEF IsWritten
  <2>5. p + q <= m
    BY <2>2, <2>3
  <2>6. /\ r.name = c.name /\ r.email = c.email /\ r.message = c.message /\ r.desc = c.desc
        /\ r.stamp = c.stamp /\ r.place = c.place
    BY <1>7, <2>2, <2>4, Zenon DEF Field, m
  <2>7. /\ Field(part, p + q, 0) = Len(c.name)
        /\ Field(part, p + q + 2, Len(c.name)) = Len(c.email)
    BY <2>2, <2>4, <2>5, Zenon DEF Field, m
  <2>8. QED
    BY <1>8, <1>9, <2>3, <2>6, <2>7, Zenon DEF Same
<1>12. ASSUME p + q + 9 <= m
       PROVE  ReadFails(part, p) <=>
                Len(c.name) > Room \/ Len(c.email) > RoomWithName(Len(c.name))
  <2>1. ~ (p + 1 > m)
    BY <1>1, <1>5
  <2>2. ReadFails(part, p) <=> \/ p + 1 > m
                               \/ Field(part, p + q, 0) > Room
                               \/ Field(part, p + q + 2, Field(part, p + q, 0))
                                        > RoomWithName(Field(part, p + q, 0))
    BY <1>6, Zenon DEF ReadFails, m
  <2>3. QED
    BY <1>11, <1>12, <2>1, <2>2, Zenon
<1>13. QED
    BY <1>6, <1>8, <1>10, <1>11, <1>12 DEF r, q, m

-----------------------------------------------------------------------------
(* What is read of commit.idx *)

\* What is known of where commits begin.
Places(file, at, commits, n) ==
    /\ at \in [1 .. n + 1 -> Nat] /\ at[1] = 2
    /\ Len(file) + 1 = at[n + 1] /\ file[1] = n
    /\ \A k \in 1 .. n :
          /\ at[k] \in Nat /\ at[k + 1] = at[k] + Before(commits[k]) + 10
          /\ Before(commits[k]) \in {2, 3}
          /\ \A l \in 1 .. n + 1 : k < l => at[k + 1] <= at[l]
          /\ at[k] >= 2 /\ at[k] + Before(commits[k]) + 10 <= at[n + 1]
          /\ \A i \in 1 .. Before(commits[k]) + 10 :
                  file[at[k] + i - 1] = WriteCommit(commits[k])[i]

\* What is known of where commits begin, from how they are laid out.
LEMMA LaidIs ==
    ASSUME NEW commits, NEW n \in Nat, Len(commits) = n, NEW file, NEW at, Laid(file, at, commits)
    PROVE  Places(file, at, commits, n)
<1>1. /\ at \in [1 .. n + 1 -> Nat] /\ at[1] = 2
      /\ Len(file) + 1 = at[n + 1] /\ file[1] = n
      /\ \A k \in 1 .. n : at[k + 1] = at[k] + Before(commits[k]) + 10
      /\ \A k \in 1 .. n : \A l \in 1 .. n + 1 : k < l => at[k + 1] <= at[l]
      /\ \A k \in 1 .. n : \A i \in 1 .. Before(commits[k]) + 10 :
                file[at[k] + i - 1] = WriteCommit(commits[k])[i]
    BY Zenon DEF Laid
<1>2. ASSUME NEW k \in 1 .. n
      PROVE  Before(commits[k]) \in {2, 3}
    BY DEF Before
<1>3. ASSUME NEW k \in 1 .. n
      PROVE  at[k] >= 2
  <2>1. CASE k = 1
    BY <1>1, <2>1
  <2>2. CASE k # 1
    <3>1. 1 \in 1 .. n /\ k \in 1 .. n + 1 /\ 1 < k /\ 1 + 1 = 2 /\ 2 \in 1 .. n + 1
        BY <2>2
    <3>2. at[1 + 1] <= at[k] /\ at[1 + 1] = at[1] + Before(commits[1]) + 10
        BY <1>1, <3>1
    <3>3. Before(commits[1]) \in {2, 3}
        BY <1>2, <3>1
    <3>4. at[1] = 2 /\ at[k] \in Nat /\ at[2] \in Nat
        BY <1>1, <3>1
    <3>5. QED
        BY <3>1, <3>2, <3>3, <3>4
  <2>3. QED
    BY <2>1, <2>2
<1>4. ASSUME NEW k \in 1 .. n
      PROVE  at[k] + Before(commits[k]) + 10 <= at[n + 1]
  <2>1. n + 1 \in 1 .. n + 1 /\ k < n + 1
    OBVIOUS
  <2>2. at[k + 1] <= at[n + 1] /\ at[k + 1] = at[k] + Before(commits[k]) + 10
    BY <1>1, <2>1
  <2>3. QED
    BY <2>2
<1>5. ASSUME NEW k \in 1 .. n
      PROVE  at[k] \in Nat
  <2>1. k \in 1 .. n + 1
    OBVIOUS
  <2>2. QED
    BY <1>1, <2>1
<1>6. QED
    BY <1>1, <1>2, <1>3, <1>4, <1>5, Zenon DEF Places

\* A reader finds the commits where they are.
LEMMA StartsAt ==
    ASSUME NEW commits, NEW n \in Nat, Len(commits) = n, NEW file, NEW at, Laid(file, at, commits),
           NEW part, Begun(part, file), Len(part) >= 1,
           \A k \in 1 .. n : Starts(part)[k] = at[k] => at[k] + 1 <= Len(part)
    PROVE  /\ Starts(part) \in [1 .. n -> Nat] /\ DOMAIN Starts(part) = 1 .. n
           /\ \A k \in 1 .. n : Starts(part)[k] = at[k] /\ at[k] + 1 <= Len(part)
<1> DEFINE h == Starts(part)
           m == Len(part)
<1>0. Places(file, at, commits, n)
    BY LaidIs
<1>1. m \in Nat /\ m >= 1
    BY DEF Begun
<1>2. Field(part, 1, 0) = n
  <2>1. 1 \in 1 .. Len(part)
    BY <1>1
  <2>2. part[1] = file[1] /\ file[1] = n
    BY <2>1, <1>0 DEF Begun, Places
  <2>3. QED
    BY <1>1, <2>2 DEF Field
<1>3. /\ h \in [1 .. n -> Nat]
      /\ 1 \in 1 .. n => h[1] = 2
      /\ \A k \in 2 .. n : h[k] = AfterTag(part, h[k - 1]) + 10
    BY <1>2, StartsAre
<1> DEFINE T == {k \in 0 .. n : k \in 1 .. n => h[k] = at[k]}
<1>4. \A k \in 1 .. n : h[k] = at[k] => at[k] + 1 <= m
    OBVIOUS
<1> HIDE DEF h, m
<1>5. 0 \in T
    OBVIOUS
<1>6. ASSUME NEW k \in 1 .. n, k - 1 \in T
      PROVE  k \in T
  <2>1. CASE k = 1
    <3>1. at[1] = 2
        BY <1>0 DEF Places
    <3>2. QED
        BY <1>3, <2>1, <3>1
  <2>2. CASE k # 1
    <3> DEFINE j == k - 1
    <3>1. j \in 1 .. n /\ k \in 2 .. n /\ j + 1 = k
        BY <2>2
    <3>2. h[j] = at[j]
        BY <1>6, <3>1
    <3>3. h[k] = AfterTag(part, h[j]) + 10
        BY <1>3, <3>1
    <3> HIDE DEF j
    <3>4. at[j] \in Nat /\ at[j] >= 1 /\ at[j + 1] = at[j] + Before(commits[j]) + 10
      <4>1. /\ at \in [1 .. n + 1 -> Nat] /\ at[j] >= 2
            /\ at[j + 1] = at[j] + Before(commits[j]) + 10
        BY <3>1, <1>0 DEF Places
      <4>2. at[j] \in Nat
        BY <3>1, <4>1
      <4>3. QED
        BY <4>1, <4>2
    <3>5. \A i \in 1 .. Before(commits[j]) + 10 :
                file[at[j] + i - 1] = WriteCommit(commits[j])[i]
        BY <3>1, <1>0 DEF Places
    <3>6. at[j] + 1 <= Len(part)
        BY <1>4, <3>1, <3>2 DEF m
    <3>7. AfterTag(part, at[j]) = at[j] + Before(commits[j])
        BY <3>4, <3>5, <3>6, ReadAt
    <3>8. QED
        BY <3>1, <3>2, <3>3, <3>4, <3>7
  <2>3. QED
    BY <2>1, <2>2
<1>7. \A k \in 0 .. n : k \in T
  <2> HIDE DEF T
  <2>1. QED
    BY <1>5, <1>6, Climb
<1>8. ASSUME NEW k \in 1 .. n
      PROVE  h[k] = at[k]
    BY <1>7
<1>9. QED
    BY <1>3, <1>4, <1>8 DEF h, m

\* The commits at their places, and whether all of one is there.
LEMMA CommitsAt ==
    ASSUME NEW commits, NEW n \in Nat, Len(commits) = n, NEW file, NEW at, Laid(file, at, commits),
           NEW part, Begun(part, file), NEW k \in 1 .. n, at[k] + 1 <= Len(part)
    PROVE  /\ AfterTag(part, at[k]) = at[k] + Before(commits[k])
           /\ ReadCommit(part, at[k]).hash = commits[k].hash
           /\ ReadCommit(part, at[k]).head = commits[k].head
           /\ ReadCommit(part, at[k]).tag \in {commits[k].tag, NoTag}
           /\ at[k + 1] <= Len(part) + 1 =>
                /\ Same(ReadCommit(part, at[k]), commits[k])
                /\ AfterTag(part, at[k]) + 9 <= Len(part)
                /\ ReadFails(part, at[k]) <=>
                        \/ Len(commits[k].name) > Room
                        \/ Len(commits[k].email) > RoomWithName(Len(commits[k].name))
<1> DEFINE p == at[k]
           c == commits[k]
           q == Before(c)
<1>0. Places(file, at, commits, n)
    BY LaidIs
<1>1. p \in Nat /\ p >= 1 /\ at[k + 1] = p + q + 10 /\ q \in Nat
  <2>1. at \in [1 .. n + 1 -> Nat] /\ at[k] >= 2 /\ at[k + 1] = at[k] + Before(commits[k]) + 10
        /\ Before(commits[k]) \in {2, 3}
    BY <1>0 DEF Places
  <2>2. at[k] \in Nat
    BY <2>1
  <2>3. QED
    BY <2>1, <2>2
<1>2. \A i \in 1 .. Before(c) + 10 : file[p + i - 1] = WriteCommit(c)[i]
    BY <1>0 DEF Places
<1>3. p + 1 <= Len(part)
    OBVIOUS
<1> HIDE DEF p, c
<1>4. /\ AfterTag(part, p) = p + q
      /\ ReadCommit(part, p).hash = c.hash /\ ReadCommit(part, p).head = c.head
      /\ ReadCommit(part, p).tag \in {c.tag, NoTag}
      /\ p + q + 9 <= Len(part) =>
           /\ Same(ReadCommit(part, p), c)
           /\ ReadFails(part, p) <=>
                Len(c.name) > Room \/ Len(c.email) > RoomWithName(Len(c.name))
    BY <1>1, <1>2, <1>3, ReadAt
<1>5. at[k + 1] <= Len(part) + 1 => p + q + 9 <= Len(part)
  <2>1. Len(part) \in Nat
    BY DEF Begun
  <2> HIDE DEF q
  <2>2. QED
    BY <1>1, <2>1
<1> HIDE DEF q
<1>6. QED
    BY <1>4, <1>5 DEF p, c, q

\* What a reader gets of commits that were written: all of them, without some
\* data of the last if the file was cut, or none.
ReadBack(reading, commits, cut) ==
    \/ reading = Unreadable
    \/ /\ reading.readable
       /\ \/ reading.commits = <<>> /\ cut # 0
          \/ /\ DOMAIN reading.commits = 1 .. Len(commits)
             /\ reading.commits \in Seq(Range(reading.commits))
             /\ Len(reading.commits) = Len(commits)
             /\ \A k \in 1 .. Len(commits) :
                    /\ reading.commits[k].hash = commits[k].hash
                    /\ reading.commits[k].head = commits[k].head
                    /\ reading.commits[k].tag \in {commits[k].tag, NoTag}
                    /\ k < Len(commits) \/ cut = 0 => Same(reading.commits[k], commits[k])

\* What a process may read of a list that was written, and perhaps cut short:
\* that it is unreadable, or every commit under its own hash, and with all of
\* its own fields unless it is the last one of a list that was cut.  Only a
\* list that was cut may be taken for an empty one.
LEMMA ReadingsAre ==
    ASSUME NEW commits, commits \in Seq(Range(commits)), NEW cut \in Nat,
           NEW reading \in Readings(SubSeq(WriteList(commits), 1, Len(WriteList(commits)) - cut))
    PROVE  ReadBack(reading, commits, cut)
<1> DEFINE file == WriteList(commits)
           part == SubSeq(file, 1, Len(file) - cut)
           n == Len(commits)
           m == Len(part)
           h == Starts(part)
<1>1. n \in Nat /\ Len(commits) = n
    BY LenProperties
<1>2. (\E U : file \in Seq(U)) /\ (\E at : Laid(file, at, commits))
    BY WrittenList
<1>3. PICK at : Laid(file, at, commits)
    BY <1>2
<1>4. Begun(part, file) /\ (cut = 0 => m = Len(file))
    BY <1>2, CutFile
<1>5. /\ (\E k \in DOMAIN h : ReadFails(part, h[k])) => reading = Unreadable
      /\ reading = Unreadable \/ reading = [readable |-> TRUE,
                                            commits |-> [k \in DOMAIN h |-> ReadCommit(part, h[k])]]
    BY Zenon DEF Readings
<1> HIDE DEF file, n, m, h, part
<1>0. Places(file, at, commits, n)
    BY <1>1, <1>3, LaidIs
<1>6. /\ at \in [1 .. n + 1 -> Nat] /\ at[1] = 2 /\ Len(file) + 1 = at[n + 1]
      /\ \A k \in 1 .. n : at[k] >= 2 /\ at[k + 1] <= at[n + 1]
                           /\ \A l \in 1 .. n + 1 : k < l => at[k + 1] <= at[l]
  <2>1. \A k \in 1 .. n : n + 1 \in 1 .. n + 1 /\ k < n + 1
    BY <1>1
  <2>2. QED
    BY <1>1, <1>3, <2>1, <1>0 DEF Places
<1>7. m \in Nat /\ Len(file) \in Nat /\ Len(file) >= 1
  <2>1. m \in Nat /\ Len(file) \in Nat
    BY <1>4 DEF Begun, m
  <2>2. at[n + 1] >= 2
    <3>1. CASE n = 0
        BY <1>6, <3>1
    <3>2. CASE n # 0
      <4>1. n \in 1 .. n /\ n + 1 \in 1 .. n + 1 /\ n < n + 1 /\ n \in 1 .. n + 1
        BY <1>1, <3>2
      <4>2. at[n] >= 2 /\ at[n + 1] = at[n] + Before(commits[n]) + 10
            /\ Before(commits[n]) \in {2, 3} /\ at \in [1 .. n + 1 -> Nat]
        BY <1>1, <1>3, <4>1, <1>0 DEF Places
      <4>3. at[n] \in Nat /\ at[n + 1] \in Nat
        BY <4>1, <4>2
      <4>4. QED
        BY <4>2, <4>3
    <3>3. QED
        BY <3>1, <3>2
  <2>3. QED
    BY <1>6, <2>1, <2>2
<1>8. CASE m = 0
  <2>1. cut # 0
    BY <1>4, <1>7, <1>8
  <2>2. Field(part, 1, 0) = 0
    BY <1>8 DEF Field, m
  <2>3. DOMAIN h = {}
    <3>1. h \in [1 .. 0 -> Nat]
        BY <2>2, StartsAre DEF h
    <3>2. QED
        BY <3>1
  <2>4. [k \in DOMAIN h |-> ReadCommit(part, h[k])] = <<>>
    BY <2>3
  <2>5. CASE reading = Unreadable
    BY <2>5 DEF ReadBack
  <2>6. CASE reading = [readable |-> TRUE, commits |-> <<>>]
    <3>1. reading.readable /\ reading.commits = <<>>
        BY <2>6
    <3>2. QED
        BY <2>1, <3>1, Zenon DEF ReadBack
  <2>7. QED
    BY <1>5, <2>4, <2>5, <2>6
<1>9. CASE m # 0 /\ reading # Unreadable
  <2>1. Field(part, 1, 0) = n
    <3>1. 1 \in 1 .. Len(part) /\ 1 <= Len(part)
        BY <1>7, <1>9 DEF m
    <3>2. part[1] = file[1]
        BY <1>4, <3>1 DEF Begun
    <3>3. file[1] = n
        BY <1>1, <1>3, <1>0 DEF Places
    <3>4. QED
        BY <3>1, <3>2, <3>3 DEF Field
  <2>2. DOMAIN h = 1 .. n
    <3>1. h \in [1 .. n -> Nat]
        BY <1>1, <2>1, StartsAre DEF h
    <3>2. QED
        BY <3>1
  <2>3. \A k \in 1 .. n : ~ ReadFails(part, h[k])
    BY <1>5, <1>9, <2>2
  <2>4. \A k \in 1 .. n : h[k] = at[k] => at[k] + 1 <= Len(part)
    <3>1. ASSUME NEW k \in 1 .. n, h[k] = at[k]
          PROVE  at[k] + 1 <= Len(part)
      <4>1. ~ (at[k] + 1 > Len(part))
        BY <2>3, <3>1, Zenon DEF ReadFails
      <4>2. at[k] \in Nat
        <5>1. k \in 1 .. n + 1
            BY <1>1
        <5>2. QED
            BY <1>6, <5>1
      <4>3. QED
        BY <1>7, <4>1, <4>2 DEF m
    <3>2. QED
        BY <3>1
  <2>5. \A k \in 1 .. n : h[k] = at[k] /\ at[k] + 1 <= Len(part)
    <3>1. Len(part) >= 1
        BY <1>7, <1>9 DEF m
    <3>2. QED
        BY <1>1, <1>3, <1>4, <2>4, <3>1, StartsAt DEF h
  <2> DEFINE cl == [k \in 1 .. n |-> ReadCommit(part, at[k])]
  <2>6. reading = [readable |-> TRUE, commits |-> cl]
    <3>1. [k \in DOMAIN h |-> ReadCommit(part, h[k])] = cl
        BY <2>2, <2>5
    <3>2. QED
        BY <1>5, <1>9, <3>1
  <2>7. ASSUME NEW k \in 1 .. n
        PROVE  /\ cl[k].hash = commits[k].hash /\ cl[k].head = commits[k].head
               /\ cl[k].tag \in {commits[k].tag, NoTag}
               /\ k < n \/ cut = 0 => Same(cl[k], commits[k])
    <3>1. cl[k] = ReadCommit(part, at[k])
        OBVIOUS
    <3>2. /\ ReadCommit(part, at[k]).hash = commits[k].hash
          /\ ReadCommit(part, at[k]).head = commits[k].head
          /\ ReadCommit(part, at[k]).tag \in {commits[k].tag, NoTag}
          /\ at[k + 1] <= Len(part) + 1 => Same(ReadCommit(part, at[k]), commits[k])
        BY <1>1, <1>3, <1>4, <2>5, CommitsAt
    <3>3. k < n \/ cut = 0 => at[k + 1] <= Len(part) + 1
      <4>0. k + 1 \in 1 .. n + 1 /\ n + 1 \in 1 .. n + 1 /\ n \in 1 .. n /\ n \in 1 .. n + 1
        BY <1>1
      <4>1. at[k + 1] \in Nat /\ at[n + 1] \in Nat /\ at[n] \in Nat
        BY <1>6, <4>0
      <4>2. ASSUME k < n
            PROVE  at[k + 1] <= Len(part) + 1
        <5>1. at[k + 1] <= at[n] /\ at[n] + 1 <= Len(part)
            BY <1>6, <2>5, <4>0, <4>2
        <5>2. QED
            BY <1>7, <4>1, <5>1 DEF m
      <4>3. ASSUME cut = 0
            PROVE  at[k + 1] <= Len(part) + 1
        <5>1. at[k + 1] <= at[n + 1] /\ Len(file) + 1 = at[n + 1] /\ Len(part) = Len(file)
            BY <1>4, <1>6, <4>3 DEF m
        <5>2. QED
            BY <1>7, <4>1, <5>1 DEF m
      <4>4. QED
        BY <4>2, <4>3
    <3> HIDE DEF cl
    <3>4. QED
        BY <3>1, <3>2, <3>3
  <2>8. DOMAIN cl = 1 .. n /\ cl \in Seq(Range(cl)) /\ Len(cl) = n
    <3>1. DOMAIN cl = 1 .. n /\ cl \in [1 .. n -> Range(cl)]
      <4>1. DOMAIN cl = 1 .. n /\ cl = [k \in 1 .. n |-> cl[k]]
        OBVIOUS
      <4> HIDE DEF cl
      <4>2. \A k \in 1 .. n : cl[k] \in Range(cl)
        BY <4>1 DEF Range
      <4>3. QED
        BY <4>1, <4>2
    <3> HIDE DEF cl
    <3>2. cl \in Seq(Range(cl))
        BY <1>1, <3>1, SeqDef
    <3>3. QED
        BY <1>1, <3>1, <3>2
  <2> HIDE DEF cl
  <2>9. reading.readable /\ reading.commits = cl
    BY <2>6
  <2>10. QED
    BY <2>7, <2>8, <2>9, Zenon DEF ReadBack, n
<1>10. QED
    BY <1>8, <1>9 DEF ReadBack

\* A file that is whole is refused if, and only if, a name does not fit.
LEMMA WholeIsReadable ==
    ASSUME NEW commits, commits \in Seq(Range(commits)),
           \A c \in Range(commits) : Len(c.name) \in Nat /\ Len(c.email) \in Nat
    PROVE  LET file == WriteList(commits)
               readings == Readings(SubSeq(file, 1, Len(file) - 0))
           IN  /\ (\E k \in DOMAIN commits : Len(commits[k].name) > Room)
                    => readings = {Unreadable}
               /\ Unreadable \in readings
                    => \E k \in DOMAIN commits :
                            Len(commits[k].name) > Room \/ Len(commits[k].email) > Room
<1> DEFINE file == WriteList(commits)
           part == SubSeq(file, 1, Len(file) - 0)
           n == Len(commits)
           h == Starts(part)
<1>1. n \in Nat /\ Len(commits) = n /\ DOMAIN commits = 1 .. n
    BY LenProperties
<1>2. (\E U : file \in Seq(U)) /\ (\E at : Laid(file, at, commits))
    BY WrittenList
<1>3. PICK at : Laid(file, at, commits)
    BY <1>2
<1>4. Begun(part, file) /\ Len(part) = Len(file)
  <2>1. 0 \in Nat
    OBVIOUS
  <2>2. QED
    BY <1>2, <2>1, CutFile
<1>5. /\ (\E k \in DOMAIN h : ReadFails(part, h[k])) => Readings(part) = {Unreadable}
      /\ Unreadable \in Readings(part) =>
            \E k \in DOMAIN h : ReadFails(part, h[k]) \/ AfterTag(part, h[k]) + 4 > Len(part)
  <2>1. Unreadable # [readable |-> TRUE, commits |-> [k \in DOMAIN h |-> ReadCommit(part, h[k])]]
    <3>1. ~ Unreadable.readable
        BY DEF Unreadable
    <3>2. QED
        BY <3>1
  <2>2. QED
    BY <2>1, Zenon DEF Readings
<1> HIDE DEF file, n, h, part
<1>0. Places(file, at, commits, n)
    BY <1>1, <1>3, LaidIs
<1>6. /\ at \in [1 .. n + 1 -> Nat] /\ Len(file) + 1 = at[n + 1] /\ at[1] = 2
      /\ \A k \in 1 .. n : at[k] >= 2 /\ at[k] + Before(commits[k]) + 10 <= at[n + 1]
                           /\ Before(commits[k]) \in {2, 3}
                           /\ at[k + 1] = at[k] + Before(commits[k]) + 10
    BY <1>1, <1>3, <1>0 DEF Places
<1>7. Len(file) \in Nat
    BY <1>4 DEF Begun
<1>8. ASSUME NEW k \in 1 .. n
      PROVE  at[k] + 1 <= Len(part) /\ at[k + 1] <= Len(part) + 1
  <2>1. k \in 1 .. n + 1 /\ n + 1 \in 1 .. n + 1
    BY <1>1
  <2>2. at[k] \in Nat /\ at[n + 1] \in Nat
    BY <1>6, <2>1
  <2>3. QED
    BY <1>4, <1>6, <1>7, <2>2
<1>9. Len(part) >= 1
  <2>1. CASE n = 0
    <3>1. at[n + 1] = 2
        BY <1>6, <2>1
    <3>2. QED
        BY <1>4, <1>6, <1>7, <3>1
  <2>2. CASE n # 0
    <3>1. 1 \in 1 .. n
        BY <1>1, <2>2
    <3>2. at[1] + 1 <= Len(part) /\ at[1] = 2
        BY <1>6, <1>8, <3>1
    <3>3. QED
        BY <1>4, <1>7, <3>2
  <2>3. QED
    BY <2>1, <2>2
<1>10. DOMAIN h = 1 .. n /\ \A k \in 1 .. n : h[k] = at[k]
  <2>1. \A k \in 1 .. n : h[k] = at[k] => at[k] + 1 <= Len(part)
    BY <1>8
  <2>2. QED
    BY <1>1, <1>3, <1>4, <1>9, <2>1, StartsAt DEF h
<1>11. ASSUME NEW k \in 1 .. n
       PROVE  /\ ReadFails(part, h[k]) <=>
                    \/ Len(commits[k].name) > Room
                    \/ Len(commits[k].email) > RoomWithName(Len(commits[k].name))
              /\ ~ (AfterTag(part, h[k]) + 4 > Len(part))
  <2>1. /\ AfterTag(part, at[k]) + 9 <= Len(part)
        /\ AfterTag(part, at[k]) = at[k] + Before(commits[k])
        /\ ReadFails(part, at[k]) <=>
                    \/ Len(commits[k].name) > Room
                    \/ Len(commits[k].email) > RoomWithName(Len(commits[k].name))
    BY <1>1, <1>3, <1>4, <1>8, CommitsAt
  <2>2. k \in 1 .. n + 1
    BY <1>1
  <2>3. at[k] \in Nat /\ Before(commits[k]) \in {2, 3}
    BY <1>6, <2>2
  <2>4. ~ (AfterTag(part, at[k]) + 4 > Len(part))
    BY <1>4, <1>7, <2>1, <2>3
  <2>5. QED
    BY <1>10, <2>1, <2>4
<1>12. ASSUME NEW k \in 1 .. n
       PROVE  RoomWithName(Len(commits[k].name)) \in Nat
              /\ RoomWithName(Len(commits[k].name)) >= Room
              /\ Len(commits[k].name) \in Nat /\ Len(commits[k].email) \in Nat
  <2>1. Len(commits[k].name) \in Nat /\ Len(commits[k].email) \in Nat
    <3>1. commits[k] \in Range(commits)
        BY <1>1 DEF Range
    <3>2. QED
        BY <3>1
  <2> DEFINE l == Len(commits[k].name)
             grown == ((Room + 16) * 3) \div 2
  <2>2. Room \in Nat /\ grown \in Nat /\ l + 1 \in Nat
    BY <2>1, RoomAssumption
  <2>3. CASE l + 1 > Room
    <3> DEFINE T == {l + 1, grown}
    <3>1. RoomWithName(l) = Max(T)
        BY <2>3 DEF RoomWithName
    <3> HIDE DEF l, grown
    <3>2. T \in SUBSET Nat /\ T # {} /\ l + 1 + grown \in Nat /\ \A y \in T : y <= l + 1 + grown
        BY <2>2
    <3>3. l + 1 \in T
        OBVIOUS
    <3> HIDE DEF T
    <3>4. Max(T) \in T /\ l + 1 <= Max(T)
        BY <3>2, <3>3, MaxIs
    <3>5. Max(T) \in Nat
        BY <3>2, <3>4
    <3>6. QED
        BY <2>1, <2>2, <2>3, <3>1, <3>4, <3>5 DEF l
  <2>4. CASE ~(l + 1 > Room)
    BY <2>1, <2>2, <2>4 DEF RoomWithName
  <2>5. QED
    BY <2>3, <2>4
<1>13. ASSUME NEW k \in DOMAIN commits, Len(commits[k].name) > Room
       PROVE  Readings(part) = {Unreadable}
    BY <1>1, <1>5, <1>10, <1>11, <1>13
<1>14. ASSUME Unreadable \in Readings(part)
       PROVE  \E k \in DOMAIN commits : Len(commits[k].name) > Room \/ Len(commits[k].email) > Room
  <2>1. PICK k \in 1 .. n : ReadFails(part, h[k]) \/ AfterTag(part, h[k]) + 4 > Len(part)
    BY <1>5, <1>10, <1>14
  <2>2. \/ Len(commits[k].name) > Room
        \/ Len(commits[k].email) > RoomWithName(Len(commits[k].name))
    BY <1>11, <2>1
  <2>3. Len(commits[k].name) > Room \/ Len(commits[k].email) > Room
    BY <1>12, <2>2, RoomAssumption
  <2>4. QED
    BY <1>1, <2>3
<1>15. QED
    BY <1>13, <1>14 DEF file, part

-----------------------------------------------------------------------------
(* The arguments of compare and list *)

\* Arguments as processes are given them.
AreArguments(args) ==
    /\ args \in Seq(Range(args))
    /\ \A a \in Range(args) : a.word \in Seq(Range(a.word)) /\ a.num \in Nat

\* The words and the numbers of the arguments of a process.
LEMMA ArgumentsAre ==
    ASSUME NEW args, AreArguments(args)
    PROVE  /\ Len(args) \in Nat /\ DOMAIN args = 1 .. Len(args)
           /\ \A k \in 1 .. Len(args) : /\ args[k] \in Range(args)
                                        /\ args[k].word \in Seq(Range(args[k].word))
                                        /\ args[k].num \in Nat
<1>1. Len(args) \in Nat /\ DOMAIN args = 1 .. Len(args)
    BY LenProperties DEF AreArguments
<1>2. \A k \in 1 .. Len(args) : args[k] \in Range(args)
    BY <1>1 DEF Range
<1>3. QED
    BY <1>1, <1>2 DEF AreArguments

-----------------------------------------------------------------------------
(* compare *)

Words(args) == {a.word : a \in Range(args)}

\* Where the parser of compare is.
CompareStates(args) ==
    [commit : BOOLEAN, file : BOOLEAN, deep : BOOLEAN, fails : BOOLEAN,
     path : {<<>>} \union Words(args) \union {PegPath(w) : w \in Words(args)},
     hashes : Seq(Words(args))]

\* One more argument of compare leaves a state of its parser.
LEMMA CompareArgumentIs ==
    ASSUME NEW tree, NEW args, NEW p \in CompareStates(args), NEW a \in Range(args)
    PROVE  CompareArgument(tree, p, a) \in CompareStates(args)
<1> DEFINE W == Words(args)
           P == {<<>>} \union W \union {PegPath(w) : w \in W}
           S == [commit : BOOLEAN, file : BOOLEAN, deep : BOOLEAN, fails : BOOLEAN,
                 path : P, hashes : Seq(W)]
           kind == Stat(tree, a.word)
           hashes == IF p.hashes = <<>> THEN <<a.word>> ELSE <<p.hashes[1], a.word>>
           Path(stored) == [p EXCEPT !.file = TRUE, !.path = stored, !.deep = @ \/ kind = "dir"]
<1>1. S = CompareStates(args) /\ p \in S
    BY DEF CompareStates
<1>2. a.word \in W /\ a.word \in P /\ PegPath(a.word) \in P
    BY DEF Words
<1> HIDE DEF W, P
<1>3. hashes \in Seq(W)
  <2>1. p.hashes \in Seq(W)
    BY <1>1
  <2>2. CASE p.hashes = <<>>
    BY <1>2, <2>2
  <2>3. CASE p.hashes # <<>>
    <3> DEFINE w == p.hashes[1]
    <3>1. w \in W
        BY <2>1, <2>3
    <3> HIDE DEF w
    <3>2. <<w, a.word>> \in Seq(W)
        BY <1>2, <3>1
    <3>3. QED
        BY <2>3, <3>2 DEF w
  <2>4. QED
    BY <2>2, <2>3
<1> HIDE DEF hashes
<1>4. CompareArgument(tree, p, a) \in
            {p, [p EXCEPT !.commit = TRUE], [p EXCEPT !.file = TRUE], [p EXCEPT !.fails = TRUE],
             Path(a.word), Path(PegPath(a.word)), [p EXCEPT !.commit = TRUE, !.hashes = hashes]}
    BY Zenon DEF CompareArgument, hashes
<1> HIDE DEF kind
<1>5. Path(a.word) \in S /\ Path(PegPath(a.word)) \in S
    BY <1>1, <1>2
<1>6. [p EXCEPT !.commit = TRUE, !.hashes = hashes] \in S
    BY <1>1, <1>3
<1>7. [p EXCEPT !.commit = TRUE] \in S /\ [p EXCEPT !.file = TRUE] \in S /\ [p EXCEPT !.fails = TRUE] \in S
    BY <1>1
<1> HIDE DEF S, Path
<1>8. QED
    BY <1>1, <1>4, <1>5, <1>6, <1>7

\* The states of a parser: the first, and each after the one before.
ComparedBy(h, tree, args) ==
    /\ h[0] = CompareStart
    /\ \A k \in 0 .. Len(args) : h[k] \in CompareStates(args)
    /\ \A k \in 1 .. Len(args) : h[k] = CompareArgument(tree, h[k - 1], args[k])

\* The parser of compare goes from one state to the next, argument by argument.
LEMMA CompareParses ==
    ASSUME NEW tree, NEW args, AreArguments(args)
    PROVE  ComparedBy(CompareParsed(tree, args), tree, args)
<1> DEFINE n == Len(args)
           S == CompareStates(args)
           next == [p \in (1 .. n) \X S |-> CompareArgument(tree, p[2], args[p[1]])]
           Fits(f) == f = [k \in 0 .. n |-> IF k = 0 THEN CompareStart
                                            ELSE CompareArgument(tree, f[k - 1], args[k])]
           h == CHOOSE f : Fits(f)
<1>1. n \in Nat /\ \A k \in 1 .. n : args[k] \in Range(args)
    BY ArgumentsAre
<1>2. CompareParsed(tree, args) = h
    BY Zenon DEF CompareParsed
<1>3. CompareStart \in S
    BY DEF CompareStart, CompareStates
<1>4. ASSUME NEW p \in S, NEW k \in 1 .. n
      PROVE  /\ next[<<k, p>>] = CompareArgument(tree, p, args[k])
             /\ CompareArgument(tree, p, args[k]) \in S
    BY <1>1, CompareArgumentIs
<1> HIDE DEF S, next
<1>5. PICK g \in [0 .. n -> S] : Follows(g, CompareStart, next, n)
  <2>1. \A k \in 1 .. n, p \in S : next[<<k, p>>] \in S
    BY <1>4
  <2>2. n \in Nat
    BY <1>1
  <2> HIDE DEF n
  <2>3. QED
    BY <1>3, <2>1, <2>2, Recursion
<1>6. Fits(g)
  <2>1. ASSUME NEW k \in 0 .. n
        PROVE  g[k] = IF k = 0 THEN CompareStart ELSE CompareArgument(tree, g[k - 1], args[k])
    <3>1. CASE k = 0
        BY <1>5, <3>1 DEF Follows
    <3>2. CASE k # 0
        <4>1. k \in 1 .. n /\ k - 1 \in 0 .. n
            BY <1>1, <3>2
        <4>2. g[k - 1] \in S /\ g[k] = next[<<k, g[k - 1]>>]
            BY <1>5, <4>1 DEF Follows
        <4>3. QED
            BY <1>4, <3>2, <4>1, <4>2
    <3>3. QED
        BY <3>1, <3>2
  <2>2. QED
    BY <1>5, <2>1
<1>7. Fits(h)
    BY <1>6, Zenon
<1> HIDE DEF h, n
<1>8. /\ h[0] = CompareStart
      /\ \A k \in 1 .. n : h[k] = CompareArgument(tree, h[k - 1], args[k])
    BY <1>1, <1>7
<1> DEFINE T == {k \in 0 .. n : h[k] \in S}
<1>9. 0 \in T
    BY <1>1, <1>3, <1>8
<1>10. ASSUME NEW k \in 1 .. n, k - 1 \in T
       PROVE  k \in T
  <2>1. h[k] = CompareArgument(tree, h[k - 1], args[k])
    BY <1>8
  <2>2. h[k - 1] \in S /\ k \in 0 .. n
    BY <1>1, <1>10
  <2>3. h[k] \in S
    BY <1>4, <2>1, <2>2
  <2>4. QED
    BY <2>2, <2>3
<1>11. \A k \in 0 .. n : k \in T
  <2> HIDE DEF T
  <2>1. QED
    BY <1>1, <1>9, <1>10, Climb
<1>12. QED
    BY <1>2, <1>8, <1>11 DEF ComparedBy, S, n

-----------------------------------------------------------------------------
(* list *)

\* Where the parser of list is.
ListStates == [commit : Nat, html : BOOLEAN, fails : BOOLEAN]

\* The smallest of a set of numbers, or 0.
LEMMA FirstIs ==
    ASSUME NEW T \in SUBSET Nat
    PROVE  First(T) \in Nat /\ (First(T) # 0 => First(T) \in T) /\ (0 \notin T /\ First(T) = 0 => T = {})
<1>1. CASE T = {}
    BY <1>1 DEF First
<1>2. CASE T # {}
  <2>1. Min(T) \in T
    BY <1>2, MinIs
  <2>2. QED
    BY <1>2, <2>1 DEF First
<1>3. QED
    BY <1>1, <1>2

\* What is found among commits.
LEMMA FoundIs ==
    ASSUME NEW cl, NEW n \in Nat, DOMAIN cl = 1 .. n, NEW w
    PROVE  /\ FindHash(cl, w) \in Nat /\ FindTag(cl, w) \in Nat /\ Find(cl, w) \in Nat
           /\ HeadOf(cl) \in Nat
           /\ FindHash(cl, w) # 0 => /\ FindHash(cl, w) \in 1 .. n
                                     /\ IsPrefix(w, cl[FindHash(cl, w)].hash)
           /\ FindHash(cl, w) = 0 => \A k \in 1 .. n : ~ IsPrefix(w, cl[k].hash)
           /\ FindTag(cl, w) # 0 => /\ FindTag(cl, w) \in 1 .. n
                                    /\ cl[FindTag(cl, w)].tag # NoTag
                                    /\ cl[FindTag(cl, w)].tag = w
           /\ HeadOf(cl) # 0 => HeadOf(cl) \in 1 .. n /\ cl[HeadOf(cl)].head
<1> DEFINE H == {k \in DOMAIN cl : IsPrefix(w, cl[k].hash)}
           G == {k \in DOMAIN cl : cl[k].tag # NoTag /\ cl[k].tag = w}
           D == {k \in DOMAIN cl : cl[k].head}
<1>1. H \in SUBSET Nat /\ G \in SUBSET Nat /\ D \in SUBSET Nat /\ 0 \notin H
    OBVIOUS
<1>2. FindHash(cl, w) = First(H) /\ FindTag(cl, w) = First(G) /\ HeadOf(cl) = First(D)
    BY Zenon DEF FindHash, FindTag, HeadOf
<1>3. \A k \in H : k \in 1 .. n /\ IsPrefix(w, cl[k].hash)
    OBVIOUS
<1>4. \A k \in G : k \in 1 .. n /\ cl[k].tag # NoTag /\ cl[k].tag = w
    OBVIOUS
<1>5. \A k \in D : k \in 1 .. n /\ cl[k].head
    OBVIOUS
<1>6. \A k \in 1 .. n : IsPrefix(w, cl[k].hash) => k \in H
    OBVIOUS
<1> HIDE DEF H, G, D
<1>7. /\ First(H) \in Nat /\ First(G) \in Nat /\ First(D) \in Nat
      /\ First(H) # 0 => First(H) \in H
      /\ First(G) # 0 => First(G) \in G
      /\ First(D) # 0 => First(D) \in D
      /\ First(H) = 0 => H = {}
    BY <1>1, FirstIs
<1>8. Find(cl, w) \in Nat
    BY <1>2, <1>7 DEF Find
<1>9. QED
    BY <1>2, <1>3, <1>4, <1>5, <1>6, <1>7, <1>8

\* One more argument of list leaves a state of its parser.
LEMMA ListArgumentIs ==
    ASSUME NEW cl, NEW n \in Nat, DOMAIN cl = 1 .. n, NEW p \in ListStates, NEW a
    PROVE  ListArgument(cl, p, a) \in ListStates
<1> DEFINE found == Find(cl, a.word)
           bad == a.opt # "" \/ found = 0
<1>1. found \in Nat
    BY FoundIs
<1>2. ListArgument(cl, p, a) \in
            {p, [p EXCEPT !.html = TRUE], [p EXCEPT !.commit = found, !.fails = bad]}
    BY Zenon DEF ListArgument
<1>3. bad \in BOOLEAN
    OBVIOUS
<1> HIDE DEF found, bad
<1>4. QED
    BY <1>1, <1>2, <1>3 DEF ListStates

ListedBy(h, cl, args) ==
    /\ h[0] = ListStart
    /\ \A k \in 0 .. Len(args) : h[k] \in ListStates
    /\ \A k \in 1 .. Len(args) : h[k] = ListArgument(cl, h[k - 1], args[k])

\* The parser of list goes from one state to the next, argument by argument.
LEMMA ListParses ==
    ASSUME NEW cl, NEW m \in Nat, DOMAIN cl = 1 .. m, NEW args, AreArguments(args)
    PROVE  ListedBy(ListParsed(cl, args), cl, args)
<1> DEFINE n == Len(args)
           S == ListStates
           next == [p \in (1 .. n) \X S |-> ListArgument(cl, p[2], args[p[1]])]
           Fits(f) == f = [k \in 0 .. n |-> IF k = 0 THEN ListStart
                                            ELSE ListArgument(cl, f[k - 1], args[k])]
           h == CHOOSE f : Fits(f)
<1>1. n \in Nat
    BY ArgumentsAre
<1>2. ListParsed(cl, args) = h
    BY Zenon DEF ListParsed
<1>3. ListStart \in S
    BY DEF ListStart, ListStates
<1>4. ASSUME NEW p \in S, NEW k \in 1 .. n
      PROVE  /\ next[<<k, p>>] = ListArgument(cl, p, args[k])
             /\ ListArgument(cl, p, args[k]) \in S
    BY <1>1, ListArgumentIs
<1> HIDE DEF S, next
<1>5. PICK g \in [0 .. n -> S] : Follows(g, ListStart, next, n)
  <2>1. \A k \in 1 .. n, p \in S : next[<<k, p>>] \in S
    BY <1>4
  <2>2. n \in Nat
    BY <1>1
  <2> HIDE DEF n
  <2>3. QED
    BY <1>3, <2>1, <2>2, Recursion
<1>6. Fits(g)
  <2>1. ASSUME NEW k \in 0 .. n
        PROVE  g[k] = IF k = 0 THEN ListStart ELSE ListArgument(cl, g[k - 1], args[k])
    <3>1. CASE k = 0
        BY <1>5, <3>1 DEF Follows
    <3>2. CASE k # 0
        <4>1. k \in 1 .. n /\ k - 1 \in 0 .. n
            BY <1>1, <3>2
        <4>2. g[k - 1] \in S /\ g[k] = next[<<k, g[k - 1]>>]
            BY <1>5, <4>1 DEF Follows
        <4>3. QED
            BY <1>4, <3>2, <4>1, <4>2
    <3>3. QED
        BY <3>1, <3>2
  <2>2. QED
    BY <1>5, <2>1
<1>7. Fits(h)
    BY <1>6, Zenon
<1> HIDE DEF h, n
<1>8. /\ h[0] = ListStart
      /\ \A k \in 1 .. n : h[k] = ListArgument(cl, h[k - 1], args[k])
    BY <1>1, <1>7
<1> DEFINE T == {k \in 0 .. n : h[k] \in S}
<1>9. 0 \in T
    BY <1>1, <1>3, <1>8
<1>10. ASSUME NEW k \in 1 .. n, k - 1 \in T
       PROVE  k \in T
  <2>1. h[k] = ListArgument(cl, h[k - 1], args[k])
    BY <1>8
  <2>2. h[k - 1] \in S /\ k \in 0 .. n
    BY <1>1, <1>10
  <2>3. h[k] \in S
    BY <1>4, <2>1, <2>2
  <2>4. QED
    BY <2>2, <2>3
<1>11. \A k \in 0 .. n : k \in T
  <2> HIDE DEF T
  <2>1. QED
    BY <1>1, <1>9, <1>10, Climb
<1>12. QED
    BY <1>2, <1>8, <1>11 DEF ListedBy, S, n

-----------------------------------------------------------------------------
(* The arguments of revert and insert *)

\* Characters of arguments, and of the paths that are made of them.
Characters(args) == {".", "/"} \union UNION {Range(a.word) : a \in Range(args)}

\* The path that a word is made into is a text of the same characters, of "."
\* and of "/".
LEMMA PegPathIs ==
    ASSUME NEW args, AreArguments(args), NEW a \in Range(args)
    PROVE  a.word \in Seq(Characters(args)) /\ PegPath(a.word) \in Seq(Characters(args))
<1> DEFINE C == UNION {Range(b.word) : b \in Range(args)}
           U == {".", "/"} \union C
<1>1. Range(a.word) \subseteq C
    OBVIOUS
<1> HIDE DEF C
<1>2. Range(a.word) \subseteq U /\ "." \in U /\ "/" \in U
    BY <1>1
<1>3. a.word \in Seq(Range(a.word))
    BY DEF AreArguments
<1> HIDE DEF U
<1>4. a.word \in Seq(U)
    BY <1>2, <1>3
<1>5. <<".", "/">> \in Seq(U)
    BY <1>2
<1> DEFINE prefix == <<".", "/">>
<1> HIDE DEF prefix
<1>6. prefix \o a.word \in Seq(U)
    BY <1>4, <1>5, ConcatProperties DEF prefix
<1>7. PegPath(a.word) \in {prefix \o a.word, a.word}
    BY Zenon DEF PegPath, prefix
<1>8. U = Characters(args)
    BY DEF U, C, Characters
<1>9. QED
    BY <1>4, <1>6, <1>7, <1>8

-----------------------------------------------------------------------------
(* revert *)

\* Where the parser of revert is.
RevertStates(tree, args, stale) ==
    [n : Nat, buf : Seq(Characters(args)), kind : {stale, "none"} \union Range(tree),
     files : Seq(Seq(Characters(args))), dirs : Seq(Seq(Characters(args)) \X Nat),
     hard : BOOLEAN, ends : {Nothing, Dies, Crashes}]

\* The parser of revert begins in one of its states.
LEMMA RevertStartIs ==
    ASSUME NEW tree, NEW args, NEW stale
    PROVE  RevertStart(stale) \in RevertStates(tree, args, stale)
<1> DEFINE V == Seq(Characters(args))
           D == V \X Nat
           K == {stale, "none"} \union Range(tree)
<1>1. <<>> \in V /\ <<>> \in Seq(V) /\ <<>> \in Seq(D)
    BY EmptySeq
<1>2. stale \in K
    OBVIOUS
<1> HIDE DEF V, D, K
<1>3. RevertStart(stale) \in [n : Nat, buf : V, kind : K, files : Seq(V), dirs : Seq(D),
                              hard : BOOLEAN, ends : {Nothing, Dies, Crashes}]
    BY <1>1, <1>2 DEF RevertStart
<1>4. QED
    BY <1>3 DEF RevertStates, V, D, K

\* One more argument of revert leaves a state of its parser.
LEMMA RevertArgumentIs ==
    ASSUME NEW cl, NEW tree, NEW stale, NEW mixed, NEW args, AreArguments(args),
           NEW p \in RevertStates(tree, args, stale), NEW a \in Range(args)
    PROVE  RevertArgument(cl, tree, mixed, p, a) \in RevertStates(tree, args, stale)
<1> DEFINE V == Seq(Characters(args))
           D == V \X Nat
           K == {stale, "none"} \union Range(tree)
           E == {Nothing, Dies, Crashes}
           S == [n : Nat, buf : V, kind : K, files : Seq(V), dirs : Seq(D),
                 hard : BOOLEAN, ends : E]
           buf == p.buf \o PegPath(a.word)
           kind == IF Stat(tree, buf) = "none" THEN p.kind ELSE Stat(tree, buf)
           end == RevertEnds(cl, tree, mixed, buf, p.n, a.word)
           q == [p EXCEPT !.buf = buf, !.kind = kind]
<1>1. S = RevertStates(tree, args, stale) /\ p \in S
    BY DEF RevertStates
<1>2. PegPath(a.word) \in V
    BY PegPathIs
<1>3. Stat(tree, buf) = "none" \/ Stat(tree, buf) \in Range(tree)
    BY Zenon DEF Stat, Range
<1>4. end \in E
    BY Zenon DEF RevertEnds
<1>5. p.n \in Nat /\ p.buf \in V /\ p.kind \in K /\ p.files \in Seq(V) /\ p.dirs \in Seq(D)
    BY <1>1
<1>6. buf \in V
    BY <1>2, <1>5, ConcatProperties
<1>7. kind \in K
    BY <1>3, <1>5
<1>8. a.num \in Nat
    BY DEF AreArguments
<1>9. RevertArgument(cl, tree, mixed, p, a) \in
            {p, [p EXCEPT !.n = a.num], [p EXCEPT !.hard = TRUE],
             [q EXCEPT !.files = Append(@, buf)],
             [q EXCEPT !.dirs = Append(@, <<buf, p.n>>), !.ends = end], q}
    BY Zenon DEF RevertArgument
<1> HIDE DEF buf, kind, end
<1>10. <<buf, p.n>> \in D
    BY <1>5, <1>6
<1> HIDE DEF V, D, K, E
<1>11. q \in S /\ q.files = p.files /\ q.dirs = p.dirs
    BY <1>1, <1>6, <1>7
<1> HIDE DEF q
<1>12. Append(q.files, buf) \in Seq(V)
    BY <1>5, <1>6, <1>11, AppendProperties
<1>13. Append(q.dirs, <<buf, p.n>>) \in Seq(D)
    BY <1>5, <1>10, <1>11, AppendProperties
<1>14. [q EXCEPT !.files = Append(@, buf)] \in S
    BY <1>11, <1>12
<1>15. [q EXCEPT !.dirs = Append(@, <<buf, p.n>>), !.ends = end] \in S
    BY <1>4, <1>11, <1>13
<1>16. [p EXCEPT !.n = a.num] \in S /\ [p EXCEPT !.hard = TRUE] \in S
    BY <1>1, <1>8
<1> HIDE DEF S
<1>17. QED
    BY <1>1, <1>9, <1>11, <1>14, <1>15, <1>16

RevertedBy(h, cl, tree, args, stale, mixed) ==
    /\ h[0] = RevertStart(stale)
    /\ \A k \in 0 .. Len(args) : h[k] \in RevertStates(tree, args, stale)
    /\ \A k \in 1 .. Len(args) : h[k] = RevertArgument(cl, tree, mixed, h[k - 1], args[k])

\* The parser of revert goes from one state to the next, argument by argument.
LEMMA RevertParses ==
    ASSUME NEW cl, NEW tree, NEW args, NEW stale, NEW mixed, AreArguments(args)
    PROVE  RevertedBy(RevertParsed(cl, tree, args, stale, mixed), cl, tree, args, stale, mixed)
<1> DEFINE n == Len(args)
           S == RevertStates(tree, args, stale)
           start == RevertStart(stale)
           next == [p \in (1 .. n) \X S |-> RevertArgument(cl, tree, mixed, p[2], args[p[1]])]
           Fits(f) == f = [k \in 0 .. n |-> IF k = 0 THEN start
                                            ELSE RevertArgument(cl, tree, mixed, f[k - 1], args[k])]
           h == CHOOSE f : Fits(f)
<1>1. n \in Nat /\ \A k \in 1 .. n : args[k] \in Range(args)
    BY ArgumentsAre
<1>2. RevertParsed(cl, tree, args, stale, mixed) = h
    BY Zenon DEF RevertParsed
<1>3. start \in S
    BY RevertStartIs
<1>4. ASSUME NEW p \in S, NEW k \in 1 .. n
      PROVE  /\ next[<<k, p>>] = RevertArgument(cl, tree, mixed, p, args[k])
             /\ RevertArgument(cl, tree, mixed, p, args[k]) \in S
    BY <1>1, RevertArgumentIs
<1> HIDE DEF S, next, start
<1>5. PICK g \in [0 .. n -> S] : Follows(g, start, next, n)
  <2>1. \A k \in 1 .. n, p \in S : next[<<k, p>>] \in S
    BY <1>4
  <2>2. n \in Nat
    BY <1>1
  <2> HIDE DEF n
  <2>3. QED
    BY <1>3, <2>1, <2>2, Recursion
<1>6. Fits(g)
  <2>1. ASSUME NEW k \in 0 .. n
        PROVE  g[k] = IF k = 0 THEN start ELSE RevertArgument(cl, tree, mixed, g[k - 1], args[k])
    <3>1. CASE k = 0
        BY <1>5, <3>1 DEF Follows
    <3>2. CASE k # 0
        <4>1. k \in 1 .. n /\ k - 1 \in 0 .. n
            BY <1>1, <3>2
        <4>2. g[k - 1] \in S /\ g[k] = next[<<k, g[k - 1]>>]
            BY <1>5, <4>1 DEF Follows
        <4>3. QED
            BY <1>4, <3>2, <4>1, <4>2
    <3>3. QED
        BY <3>1, <3>2
  <2>2. QED
    BY <1>5, <2>1
<1>7. Fits(h)
    BY <1>6, Zenon
<1> HIDE DEF h, n
<1>8. /\ h[0] = start
      /\ \A k \in 1 .. n : h[k] = RevertArgument(cl, tree, mixed, h[k - 1], args[k])
    BY <1>1, <1>7
<1> DEFINE T == {k \in 0 .. n : h[k] \in S}
<1>9. 0 \in T
    BY <1>1, <1>3, <1>8
<1>10. ASSUME NEW k \in 1 .. n, k - 1 \in T
       PROVE  k \in T
  <2>1. h[k] = RevertArgument(cl, tree, mixed, h[k - 1], args[k])
    BY <1>8
  <2>2. h[k - 1] \in S /\ k \in 0 .. n
    BY <1>1, <1>10
  <2>3. h[k] \in S
    BY <1>4, <2>1, <2>2
  <2>4. QED
    BY <2>2, <2>3
<1>11. \A k \in 0 .. n : k \in T
  <2> HIDE DEF T
  <2>1. QED
    BY <1>1, <1>9, <1>10, Climb
<1>12. QED
    BY <1>2, <1>8, <1>11 DEF RevertedBy, S, n, start

-----------------------------------------------------------------------------
(* insert *)

PegPaths(args) == {PegPath(w) : w \in Words(args)}

\* Where the parser of insert is.
InsertStates(args) ==
    [all : BOOLEAN, patterns : SUBSET PegPaths(args),
     picks : Seq([path : PegPaths(args), patterns : SUBSET PegPaths(args)]), fails : BOOLEAN]

\* The parser of insert begins in one of its states.
LEMMA InsertStartIs ==
    ASSUME NEW args
    PROVE  InsertStart \in InsertStates(args)
<1> DEFINE Q == PegPaths(args)
           P == [path : Q, patterns : SUBSET Q]
<1>1. <<>> \in Seq(P)
    BY EmptySeq
<1> HIDE DEF P, Q
<1>2. InsertStart \in [all : BOOLEAN, patterns : SUBSET Q, picks : Seq(P), fails : BOOLEAN]
    BY <1>1 DEF InsertStart
<1>3. QED
    BY <1>2 DEF InsertStates, P, Q

\* One more argument of insert leaves a state of its parser.
LEMMA InsertArgumentIs ==
    ASSUME NEW tree, NEW args, NEW k, args[k] \in Range(args), NEW p \in InsertStates(args)
    PROVE  InsertArgument(tree, args, p, k) \in InsertStates(args)
<1> DEFINE Q == PegPaths(args)
           P == [path : Q, patterns : SUBSET Q]
           S == [all : BOOLEAN, patterns : SUBSET Q, picks : Seq(P), fails : BOOLEAN]
           a == args[k]
           pick == [path |-> PegPath(a.word), patterns |-> p.patterns]
<1>1. S = InsertStates(args) /\ p \in S
    BY DEF InsertStates
<1>2. PegPath(a.word) \in Q
    BY DEF PegPaths, Words
<1>3. InsertArgument(tree, args, p, k) \in
            {p, [p EXCEPT !.all = TRUE], [p EXCEPT !.patterns = {PegPath(a.word)}],
             [p EXCEPT !.fails = TRUE], [p EXCEPT !.picks = Append(@, pick)]}
    BY Zenon DEF InsertArgument
<1> HIDE DEF Q
<1>4. pick \in P /\ p.picks \in Seq(P)
    BY <1>1, <1>2
<1> HIDE DEF P, pick
<1>5. Append(p.picks, pick) \in Seq(P)
    BY <1>4, AppendProperties
<1>6. [p EXCEPT !.picks = Append(@, pick)] \in S
    BY <1>1, <1>5
<1>7. [p EXCEPT !.all = TRUE] \in S /\ [p EXCEPT !.fails = TRUE] \in S
      /\ [p EXCEPT !.patterns = {PegPath(a.word)}] \in S
    BY <1>1, <1>2
<1> HIDE DEF S
<1>8. QED
    BY <1>1, <1>3, <1>6, <1>7

InsertedBy(h, tree, args) ==
    /\ h[0] = InsertStart
    /\ \A k \in 0 .. Len(args) : h[k] \in InsertStates(args)
    /\ \A k \in 1 .. Len(args) : h[k] = InsertArgument(tree, args, h[k - 1], k)

\* The parser of insert goes from one state to the next, argument by argument.
LEMMA InsertParses ==
    ASSUME NEW tree, NEW args, AreArguments(args)
    PROVE  InsertedBy(InsertParsed(tree, args), tree, args)
<1> DEFINE n == Len(args)
           S == InsertStates(args)
           start == InsertStart
           next == [p \in (1 .. n) \X S |-> InsertArgument(tree, args, p[2], p[1])]
           Fits(f) == f = [k \in 0 .. n |-> IF k = 0 THEN start
                                            ELSE InsertArgument(tree, args, f[k - 1], k)]
           h == CHOOSE f : Fits(f)
<1>1. n \in Nat /\ \A k \in 1 .. n : args[k] \in Range(args)
    BY ArgumentsAre
<1>2. InsertParsed(tree, args) = h
    BY Zenon DEF InsertParsed
<1>3. start \in S
    BY InsertStartIs
<1>4. ASSUME NEW p \in S, NEW k \in 1 .. n
      PROVE  /\ next[<<k, p>>] = InsertArgument(tree, args, p, k)
             /\ InsertArgument(tree, args, p, k) \in S
    BY <1>1, InsertArgumentIs
<1> HIDE DEF S, next, start
<1>5. PICK g \in [0 .. n -> S] : Follows(g, start, next, n)
  <2>1. \A k \in 1 .. n, p \in S : next[<<k, p>>] \in S
    BY <1>4
  <2>2. n \in Nat
    BY <1>1
  <2> HIDE DEF n
  <2>3. QED
    BY <1>3, <2>1, <2>2, Recursion
<1>6. Fits(g)
  <2>1. ASSUME NEW k \in 0 .. n
        PROVE  g[k] = IF k = 0 THEN start ELSE InsertArgument(tree, args, g[k - 1], k)
    <3>1. CASE k = 0
        BY <1>5, <3>1 DEF Follows
    <3>2. CASE k # 0
        <4>1. k \in 1 .. n /\ k - 1 \in 0 .. n
            BY <1>1, <3>2
        <4>2. g[k - 1] \in S /\ g[k] = next[<<k, g[k - 1]>>]
            BY <1>5, <4>1 DEF Follows
        <4>3. QED
            BY <1>4, <3>2, <4>1, <4>2
    <3>3. QED
        BY <3>1, <3>2
  <2>2. QED
    BY <1>5, <2>1
<1>7. Fits(h)
    BY <1>6, Zenon
<1> HIDE DEF h, n
<1>8. /\ h[0] = start
      /\ \A k \in 1 .. n : h[k] = InsertArgument(tree, args, h[k - 1], k)
    BY <1>1, <1>7
<1> DEFINE T == {k \in 0 .. n : h[k] \in S}
<1>9. 0 \in T
    BY <1>1, <1>3, <1>8
<1>10. ASSUME NEW k \in 1 .. n, k - 1 \in T
       PROVE  k \in T
  <2>1. h[k] = InsertArgument(tree, args, h[k - 1], k)
    BY <1>8
  <2>2. h[k - 1] \in S /\ k \in 0 .. n
    BY <1>1, <1>10
  <2>3. h[k] \in S
    BY <1>4, <2>1, <2>2
  <2>4. QED
    BY <2>2, <2>3
<1>11. \A k \in 0 .. n : k \in T
  <2> HIDE DEF T
  <2>1. QED
    BY <1>1, <1>9, <1>10, Climb
<1>12. QED
    BY <1>2, <1>8, <1>11 DEF InsertedBy, S, n, start

-----------------------------------------------------------------------------
(* What compare and list make of their words *)

\* Where the first arguments are words.
WordsTo(args, k) == {x \in 1 .. k : args[x].opt = ""}

\* One more argument is one more word, or none.
LEMMA OneMoreWord ==
    ASSUME NEW args, NEW k \in Nat \ {0}
    PROVE  /\ args[k].opt # "" => WordsTo(args, k) = WordsTo(args, k - 1)
           /\ args[k].opt = "" => WordsTo(args, k) = WordsTo(args, k - 1) \union {k}
           /\ \A x \in WordsTo(args, k - 1) : x \in Nat /\ x < k
<1>1. 1 .. k = (1 .. k - 1) \union {k} /\ \A x \in 1 .. k - 1 : x \in Nat /\ x < k
    OBVIOUS
<1>2. QED
    BY <1>1 DEF WordsTo

\* The words that compare takes for hashes are the first and the last one.
HashesAre(args, k, hashes) ==
    \/ hashes = <<>> /\ WordsTo(args, k) = {}
    \/ \E i, j \in WordsTo(args, k) :
          /\ \A x \in WordsTo(args, k) : i <= x /\ x <= j
          /\ hashes[1] = args[i].word
          /\ \/ i = j /\ Len(hashes) = 1
             \/ i < j /\ Len(hashes) = 2 /\ hashes[2] = args[j].word

\* What compare takes for the names of commits are the words it was given, in
\* their order, unless it was asked for files or fails.
LEMMA ComparesWords ==
    ASSUME NEW tree, NEW args, AreArguments(args),
           ~ CompareParsed(tree, args)[Len(args)].fails,
           ~ CompareParsed(tree, args)[Len(args)].file
    PROVE  HashesAre(args, Len(args), CompareParsed(tree, args)[Len(args)].hashes)
<1> DEFINE h == CompareParsed(tree, args)
           n == Len(args)
           T == {k \in 0 .. n : ~ h[k].fails /\ ~ h[k].file => HashesAre(args, k, h[k].hashes)}
<1>1. n \in Nat /\ \A k \in 1 .. n : args[k] \in Range(args)
    BY ArgumentsAre
<1>2. ComparedBy(h, tree, args)
    BY CompareParses
<1> HIDE DEF h
<1>3. 0 \in T
  <2>1. h[0].hashes = <<>>
    BY <1>2 DEF ComparedBy, CompareStart
  <2>2. WordsTo(args, 0) = {}
    BY DEF WordsTo
  <2>3. QED
    BY <1>1, <2>1, <2>2 DEF HashesAre
<1>4. ASSUME NEW k \in 1 .. n, k - 1 \in T
      PROVE  k \in T
  <2> SUFFICES ASSUME ~ h[k].fails, ~ h[k].file
               PROVE  HashesAre(args, k, h[k].hashes)
    BY <1>1
  <2> DEFINE p == h[k - 1]
             a == args[k]
             W == Words(args)
             P == {<<>>} \union W \union {PegPath(w) : w \in W}
             kind == Stat(tree, a.word)
             hashes == IF p.hashes = <<>> THEN <<a.word>> ELSE <<p.hashes[1], a.word>>
             Path(stored) == [p EXCEPT !.file = TRUE, !.path = stored, !.deep = @ \/ kind = "dir"]
             r == h[k]
  <2>1. k \in 0 .. n /\ k - 1 \in 0 .. n
    BY <1>1
  <2>2. r = CompareArgument(tree, p, a) /\ p \in CompareStates(args)
    BY <1>2, <2>1 DEF ComparedBy
  <2>3. p \in [commit : BOOLEAN, file : BOOLEAN, deep : BOOLEAN, fails : BOOLEAN,
               path : P, hashes : Seq(W)]
    BY <2>2 DEF CompareStates
  <2>4. ~ p.fails /\ ~ p.file => HashesAre(args, k - 1, p.hashes)
    BY <1>4
  <2>5. r = (IF a.opt = "--hash" THEN [p EXCEPT !.commit = TRUE]
             ELSE IF a.opt = "-f" THEN [p EXCEPT !.file = TRUE]
             ELSE IF a.opt # "" THEN p
             ELSE IF p.commit /\ p.file THEN [p EXCEPT !.fails = TRUE]
             ELSE IF p.file
                  THEN IF kind = "none" THEN [p EXCEPT !.fails = TRUE] ELSE Path(a.word)
             ELSE IF p.commit \/ kind = "none" THEN [p EXCEPT !.commit = TRUE, !.hashes = hashes]
             ELSE Path(PegPath(a.word)))
    BY <2>2, Zenon DEF CompareArgument
  <2>6. a.word \in W
    BY <1>1 DEF Words
  <2>7. ~ r.fails /\ ~ r.file
    OBVIOUS
  <2> HIDE DEF p, a, W, P, kind, hashes, r
  <2>8. Path(a.word).file /\ Path(PegPath(a.word)).file /\ [p EXCEPT !.fails = TRUE].fails
    BY <2>3
  <2>9. k \in Nat \ {0}
    OBVIOUS
  <2>10. CASE a.opt # ""
    <3>1. r \in {p, [p EXCEPT !.commit = TRUE], [p EXCEPT !.file = TRUE]}
        BY <2>5, <2>10
    <3>2. r.hashes = p.hashes /\ (~ r.fails /\ ~ r.file => ~ p.fails /\ ~ p.file)
        BY <2>3, <3>1
    <3>3. WordsTo(args, k) = WordsTo(args, k - 1)
        BY <2>9, <2>10, OneMoreWord DEF a
    <3>4. HashesAre(args, k - 1, r.hashes)
        BY <2>4, <2>7, <3>2
    <3>5. QED
        BY <3>3, <3>4 DEF HashesAre, r
  <2>11. CASE a.opt = ""
    <3>1. r = [p EXCEPT !.commit = TRUE, !.hashes = hashes] /\ ~ p.file
        BY <2>5, <2>7, <2>8, <2>11
    <3>2. r.hashes = hashes /\ r.fails = p.fails
        BY <2>3, <3>1
    <3>3. HashesAre(args, k - 1, p.hashes)
        BY <2>4, <2>7, <3>1, <3>2
    <3>4. WordsTo(args, k) = WordsTo(args, k - 1) \union {k}
          /\ \A x \in WordsTo(args, k - 1) : x \in Nat /\ x < k
        BY <2>9, <2>11, OneMoreWord DEF a
    <3>5. CASE p.hashes = <<>>
      <4>1. hashes = <<a.word>>
        BY <3>5 DEF hashes
      <4>2. WordsTo(args, k - 1) = {}
        <5>1. Len(p.hashes) = 0
            BY <3>5
        <5>2. QED
            BY <3>3, <5>1 DEF HashesAre
      <4>3. WordsTo(args, k) = {k}
        BY <3>4, <4>2
      <4>4. hashes[1] = args[k].word /\ Len(hashes) = 1 /\ k <= k
        BY <2>9, <4>1 DEF a
      <4>5. HashesAre(args, k, hashes)
        BY <4>3, <4>4, Zenon DEF HashesAre
      <4>6. QED
        BY <3>2, <4>5 DEF r
    <3>6. CASE p.hashes # <<>>
      <4>1. hashes = <<p.hashes[1], a.word>>
        BY <3>6 DEF hashes
      <4>2. PICK i \in WordsTo(args, k - 1) :
                /\ \A x \in WordsTo(args, k - 1) : i <= x
                /\ p.hashes[1] = args[i].word
        BY <3>3, <3>6 DEF HashesAre
      <4>3. i \in WordsTo(args, k) /\ k \in WordsTo(args, k) /\ i < k
        BY <3>4, <4>2
      <4>4. \A x \in WordsTo(args, k) : i <= x /\ x <= k
        BY <2>9, <3>4, <4>2
      <4>5. hashes[1] = args[i].word /\ hashes[2] = args[k].word /\ Len(hashes) = 2
        BY <4>1, <4>2 DEF a
      <4>6. HashesAre(args, k, hashes)
        BY <4>3, <4>4, <4>5, Zenon DEF HashesAre
      <4>7. QED
        BY <3>2, <4>6 DEF r
    <3>7. QED
        BY <3>5, <3>6
  <2>12. QED
    BY <2>10, <2>11
<1>5. \A k \in 0 .. n : k \in T
  <2> HIDE DEF T, n
  <2>1. QED
    BY <1>1, <1>3, <1>4, Climb
<1>6. n \in T
    BY <1>1, <1>5
<1>7. QED
    BY <1>6 DEF h

\* The commit that list shows is the one that its last word names.
ListsOf(cl, args, k, commit) ==
    \/ commit = 0 /\ WordsTo(args, k) = {}
    \/ \E j \in WordsTo(args, k) :
          /\ \A x \in WordsTo(args, k) : x <= j
          /\ commit = Find(cl, args[j].word) /\ commit # 0

\* What list shows is the commit that the last of its words names.
LEMMA ListsLastWord ==
    ASSUME NEW cl, NEW m \in Nat, DOMAIN cl = 1 .. m, NEW args, AreArguments(args),
           ~ ListParsed(cl, args)[Len(args)].fails,
           ~ ListParsed(cl, args)[Len(args)].html
    PROVE  ListsOf(cl, args, Len(args), ListParsed(cl, args)[Len(args)].commit)
<1> DEFINE h == ListParsed(cl, args)
           n == Len(args)
           T == {k \in 0 .. n : ~ h[k].fails /\ ~ h[k].html => ListsOf(cl, args, k, h[k].commit)}
<1>1. n \in Nat
    BY ArgumentsAre
<1>2. ListedBy(h, cl, args)
    BY ListParses
<1> HIDE DEF h
<1>3. 0 \in T
  <2>1. h[0].commit = 0
    BY <1>2 DEF ListedBy, ListStart
  <2>2. WordsTo(args, 0) = {}
    BY DEF WordsTo
  <2>3. QED
    BY <1>1, <2>1, <2>2 DEF ListsOf
<1>4. ASSUME NEW k \in 1 .. n, k - 1 \in T
      PROVE  k \in T
  <2> SUFFICES ASSUME ~ h[k].fails, ~ h[k].html
               PROVE  ListsOf(cl, args, k, h[k].commit)
    BY <1>1
  <2> DEFINE p == h[k - 1]
             a == args[k]
             found == Find(cl, a.word)
             bad == a.opt # "" \/ found = 0
             r == h[k]
  <2>1. k \in 0 .. n /\ k - 1 \in 0 .. n
    BY <1>1
  <2>2. r = ListArgument(cl, p, a) /\ p \in ListStates
    BY <1>2, <2>1 DEF ListedBy
  <2>3. p \in [commit : Nat, html : BOOLEAN, fails : BOOLEAN] /\ found \in Nat /\ bad \in BOOLEAN
    BY <2>2, FoundIs DEF ListStates
  <2>4. ~ p.fails /\ ~ p.html => ListsOf(cl, args, k - 1, p.commit)
    BY <1>4
  <2>5. r = (IF p.html \/ p.fails \/ a.opt \in {"-f=size", "-f=pack", "-f=both", "-c"} THEN p
             ELSE IF a.opt \in {"--html", "-h"} THEN [p EXCEPT !.html = TRUE]
             ELSE [p EXCEPT !.commit = found, !.fails = bad])
    BY <2>2, Zenon DEF ListArgument
  <2>6. ~ r.fails /\ ~ r.html
    OBVIOUS
  <2>7. k \in Nat \ {0}
    OBVIOUS
  <2>8. bad <=> a.opt # "" \/ found = 0
    OBVIOUS
  <2> HIDE DEF p, a, found, bad, r
  <2>9. CASE a.opt # ""
    <3>1. r.commit = p.commit /\ ~ p.fails /\ ~ p.html
        BY <2>3, <2>5, <2>6, <2>8, <2>9
    <3>2. WordsTo(args, k) = WordsTo(args, k - 1)
        BY <2>7, <2>9, OneMoreWord DEF a
    <3>3. ListsOf(cl, args, k - 1, r.commit)
        BY <2>4, <3>1
    <3>4. QED
        BY <3>2, <3>3 DEF ListsOf, r
  <2>10. CASE a.opt = ""
    <3>1. a.opt \notin {"-f=size", "-f=pack", "-f=both", "-c", "--html", "-h"}
        BY <2>10
    <3>2. r = p \/ r = [p EXCEPT !.commit = found, !.fails = bad]
        BY <2>5, <3>1
    <3>3. ~ p.html /\ ~ p.fails
        BY <2>3, <2>5, <2>6
    <3>4. r = [p EXCEPT !.commit = found, !.fails = bad]
        BY <2>5, <3>1, <3>3
    <3>5. r.commit = found /\ ~ bad
        BY <2>3, <2>6, <3>4
    <3>6. WordsTo(args, k) = WordsTo(args, k - 1) \union {k}
          /\ \A x \in WordsTo(args, k - 1) : x \in Nat /\ x < k
        BY <2>7, <2>10, OneMoreWord DEF a
    <3>7. k \in WordsTo(args, k) /\ \A x \in WordsTo(args, k) : x <= k
        BY <2>7, <3>6
    <3>8. found # 0 /\ found = Find(cl, args[k].word)
        BY <2>8, <3>5 DEF found, a
    <3>9. ListsOf(cl, args, k, found)
        BY <3>7, <3>8, Zenon DEF ListsOf
    <3>10. QED
        BY <3>5, <3>9 DEF r
  <2>11. QED
    BY <2>9, <2>10
<1>5. \A k \in 0 .. n : k \in T
  <2> HIDE DEF T, n
  <2>1. QED
    BY <1>1, <1>3, <1>4, Climb
<1>6. n \in T
    BY <1>1, <1>5
<1>7. QED
    BY <1>6 DEF h

-----------------------------------------------------------------------------
(* What revert and insert make of their words *)

\* The number that revert counts back by is the last one given, or 0.
CountsBack(args, k, n) == n = 0 \/ \E i \in 1 .. k : args[i].opt = "~" /\ n = args[i].num

\* Up to k arguments, none is a path: nothing was collected.
NoPath(args, k, p) ==
    /\ \A i \in 1 .. k : args[i].opt = "~"
    /\ p.buf = <<>> /\ p.files = <<>> /\ ~ p.hard /\ p.ends = Nothing

\* The first argument that is not a number has been looked at; it is the first
\* of the files, if it is a file by itself.
PathSeen(tree, args, k, p) ==
    \E f \in 1 .. k :
        /\ args[f].opt # "~"
        /\ \A i \in 1 .. f - 1 : args[i].opt = "~"
        /\ args[f].opt = "" /\ Stat(tree, PegPath(args[f].word)) = "file"
                => p.files # <<>> /\ p.files[1] = PegPath(args[f].word)

\* What revert counts back by is a number it was given, and the first of the
\* files it collects is the first path it was given.
LEMMA RevertsFirst ==
    ASSUME NEW cl, NEW tree, NEW args, NEW stale, NEW mixed, AreArguments(args)
    PROVE  LET p == RevertParsed(cl, tree, args, stale, mixed)[Len(args)]
           IN  /\ p \in RevertStates(tree, args, stale)
               /\ CountsBack(args, Len(args), p.n)
               /\ p.files # <<>> => PathSeen(tree, args, Len(args), p)
<1> DEFINE h == RevertParsed(cl, tree, args, stale, mixed)
           n == Len(args)
           T == {k \in 0 .. n : /\ CountsBack(args, k, h[k].n)
                                /\ NoPath(args, k, h[k]) \/ PathSeen(tree, args, k, h[k])}
<1>1. n \in Nat /\ \A k \in 1 .. n : args[k] \in Range(args)
    BY ArgumentsAre
<1>2. RevertedBy(h, cl, tree, args, stale, mixed)
    BY RevertParses
<1> HIDE DEF h
<1>3. 0 \in T
  <2>1. h[0] = RevertStart(stale)
    BY <1>2 DEF RevertedBy
  <2>2. CountsBack(args, 0, h[0].n) /\ NoPath(args, 0, h[0])
    BY <2>1 DEF CountsBack, NoPath, RevertStart
  <2>3. QED
    BY <1>1, <2>2
<1>4. ASSUME NEW k \in 1 .. n, k - 1 \in T
      PROVE  k \in T
  <2> DEFINE V == Seq(Characters(args))
             D == V \X Nat
             K == {stale, "none"} \union Range(tree)
             E == {Nothing, Dies, Crashes}
             S == [n : Nat, buf : V, kind : K, files : Seq(V), dirs : Seq(D),
                   hard : BOOLEAN, ends : E]
             p == h[k - 1]
             a == args[k]
             r == h[k]
             path == PegPath(a.word)
             buf == p.buf \o path
             kind == IF Stat(tree, buf) = "none" THEN p.kind ELSE Stat(tree, buf)
             end == RevertEnds(cl, tree, mixed, buf, p.n, a.word)
             q == [p EXCEPT !.buf = buf, !.kind = kind]
             stays == p.hard \/ p.ends # Nothing
  <2>1. k \in 0 .. n /\ k - 1 \in 0 .. n /\ k \in Nat \ {0} /\ 1 .. k = (1 .. k - 1) \union {k}
        /\ k \in 1 .. k
    BY <1>1
  <2>2. r = RevertArgument(cl, tree, mixed, p, a) /\ p \in RevertStates(tree, args, stale)
    BY <1>2, <2>1 DEF RevertedBy
  <2>3. p \in S
    BY <2>2 DEF RevertStates
  <2>4. r = (IF stays THEN p
             ELSE IF a.opt = "~" THEN [p EXCEPT !.n = a.num]
             ELSE IF a.opt = "--hard" THEN [p EXCEPT !.hard = TRUE]
             ELSE IF kind = "file" THEN [q EXCEPT !.files = Append(@, buf)]
             ELSE IF kind = "dir"
             THEN [q EXCEPT !.dirs = Append(@, <<buf, p.n>>), !.ends = end]
             ELSE q)
    BY <2>2, Zenon DEF RevertArgument
  <2>5. /\ CountsBack(args, k - 1, p.n)
        /\ NoPath(args, k - 1, p) \/ PathSeen(tree, args, k - 1, p)
    BY <1>4
  <2>6. path \in V /\ a.num \in Nat
    <3>1. a \in Range(args)
        BY <1>1
    <3>2. QED
        BY <3>1, PegPathIs DEF AreArguments
  <2>7. stays <=> p.hard \/ p.ends # Nothing
    OBVIOUS
  <2>8. buf \in V
    <3>1. p.buf \in V
        BY <2>3
    <3>2. QED
        BY <2>6, <3>1, ConcatProperties
  <2>9. /\ buf = p.buf \o path
        /\ kind = IF Stat(tree, buf) = "none" THEN p.kind ELSE Stat(tree, buf)
    OBVIOUS
  <2> DEFINE files == Append(p.files, buf)
             dirs == Append(p.dirs, <<buf, p.n>>)
  <2> HIDE DEF V, D, K, E, p, a, r, path, buf, kind, end, stays
  <2>10. /\ files # <<>> /\ files[1] = IF p.files = <<>> THEN buf ELSE p.files[1]
    <3>1. p.files \in Seq(V)
        BY <2>3
    <3> DEFINE l == Len(p.files)
    <3>2. /\ files # <<>>
          /\ \A i \in 1 .. l : files[i] = p.files[i]
          /\ files[l + 1] = buf
        BY <2>8, <3>1, AppendProperties
    <3>3. l \in Nat /\ (p.files = <<>> <=> l = 0)
        BY <3>1
    <3> HIDE DEF l, files
    <3>4. CASE p.files = <<>>
        BY <3>2, <3>3, <3>4
    <3>5. CASE p.files # <<>>
      <4>1. 1 \in 1 .. l
        BY <3>3, <3>5
      <4>2. QED
        BY <3>2, <3>5, <4>1
    <3>6. QED
        BY <3>4, <3>5
  <2>11. q.files = p.files /\ q.dirs = p.dirs /\ q.n = p.n
         /\ q = [p EXCEPT !.buf = buf, !.kind = kind]
    BY <2>3
  <2>12. \/ r.n = p.n
         \/ a.opt = "~" /\ r.n = a.num
    <3>1. [p EXCEPT !.n = a.num].n = a.num /\ [p EXCEPT !.hard = TRUE].n = p.n
        BY <2>3
    <3>2. [q EXCEPT !.files = Append(@, buf)].n = p.n
        BY <2>3
    <3>3. [q EXCEPT !.dirs = Append(@, <<buf, p.n>>), !.ends = end].n = p.n
        BY <2>3
    <3> HIDE DEF q
    <3>4. QED
        BY <2>4, <2>11, <3>1, <3>2, <3>3
  <2>13. \/ r.files = p.files
         \/ r.files = files /\ a.opt # "~" /\ ~ stays
    <3>1. [p EXCEPT !.n = a.num].files = p.files /\ [p EXCEPT !.hard = TRUE].files = p.files
        BY <2>3
    <3>2. [q EXCEPT !.files = Append(@, buf)].files = files
        BY <2>3
    <3>3. [q EXCEPT !.dirs = Append(@, <<buf, p.n>>), !.ends = end].files = p.files
        BY <2>3
    <3> HIDE DEF q, files
    <3>4. QED
        BY <2>4, <2>11, <3>1, <3>2, <3>3
  <2>14. CountsBack(args, k, r.n)
    <3>1. CASE r.n = p.n
        BY <2>1, <2>5, <3>1 DEF CountsBack
    <3>2. CASE a.opt = "~" /\ r.n = a.num
        BY <2>1, <3>2 DEF CountsBack, a
    <3>3. QED
        BY <2>12, <3>1, <3>2
  <2>15. CASE PathSeen(tree, args, k - 1, p)
    <3>1. PICK f \in 1 .. k - 1 :
                /\ args[f].opt # "~"
                /\ \A i \in 1 .. f - 1 : args[i].opt = "~"
                /\ args[f].opt = "" /\ Stat(tree, PegPath(args[f].word)) = "file"
                        => p.files # <<>> /\ p.files[1] = PegPath(args[f].word)
        BY <2>15 DEF PathSeen
    <3>2. p.files # <<>> => r.files # <<>> /\ r.files[1] = p.files[1]
        BY <2>10, <2>13
    <3>3. f \in 1 .. k
        BY <2>1, <3>1
    <3>4. PathSeen(tree, args, k, r)
        BY <3>1, <3>2, <3>3 DEF PathSeen
    <3>5. QED
        BY <2>1, <2>14, <3>4 DEF r
  <2>16. CASE NoPath(args, k - 1, p) /\ a.opt = "~"
    <3>1. r = [p EXCEPT !.n = a.num]
        BY <2>4, <2>7, <2>16 DEF NoPath
    <3>2. r.buf = p.buf /\ r.files = p.files /\ r.hard = p.hard /\ r.ends = p.ends
        BY <2>3, <3>1
    <3>3. \A i \in 1 .. k : args[i].opt = "~"
        BY <2>1, <2>16 DEF NoPath, a
    <3>4. NoPath(args, k, r)
        BY <2>16, <3>2, <3>3 DEF NoPath
    <3>5. QED
        BY <2>1, <2>14, <3>4 DEF r
  <2>17. CASE NoPath(args, k - 1, p) /\ a.opt # "~"
    <3>1. \A i \in 1 .. k - 1 : args[i].opt = "~"
        BY <2>17 DEF NoPath
    <3>2. ~ stays /\ p.files = <<>>
        BY <2>7, <2>17 DEF NoPath
    <3>3. buf = path
      <4>1. p.buf = <<>>
        BY <2>17 DEF NoPath
      <4>2. <<>> \o path = path
        BY <2>6, ConcatEmptySeq DEF V
      <4>3. QED
        BY <2>9, <4>1, <4>2
    <3>4. ASSUME a.opt = "", Stat(tree, path) = "file"
          PROVE  r.files # <<>> /\ r.files[1] = path
      <4>1. kind = "file"
        BY <2>9, <3>3, <3>4
      <4>2. r = [q EXCEPT !.files = Append(@, buf)]
        BY <2>4, <3>2, <3>4, <4>1
      <4>3. r.files = files
        BY <2>3, <4>2
      <4>4. QED
        BY <2>10, <3>2, <3>3, <4>3
    <3>5. PathSeen(tree, args, k, r)
        BY <2>1, <2>17, <3>1, <3>4 DEF PathSeen, a, path
    <3>6. QED
        BY <2>1, <2>14, <3>5 DEF r
  <2>18. QED
    BY <2>5, <2>15, <2>16, <2>17
<1>5. \A k \in 0 .. n : k \in T
  <2> HIDE DEF T, n
  <2>1. QED
    BY <1>1, <1>3, <1>4, Climb
<1>6. n \in T /\ n \in 0 .. n
    BY <1>1, <1>5
<1>7. h[n] \in RevertStates(tree, args, stale)
    BY <1>2, <1>6 DEF RevertedBy
<1>8. h[n].files # <<>> => PathSeen(tree, args, n, h[n])
    BY <1>6 DEF NoPath
<1>9. QED
    BY <1>6, <1>7, <1>8 DEF h

\* What insert looks at are words that name what is there.
PicksAre(tree, args, k, picks) ==
    \A x \in DOMAIN picks : \E i \in 1 .. k :
        /\ args[i].opt = "" /\ (Stat(tree, args[i].word) # "none" \/ args[i].word = <<".">>)
        /\ picks[x].path = PegPath(args[i].word)

\* The pattern is that of one of the arguments, once there is one.
PatternsAre(args, k, patterns) ==
    (\E i \in 1 .. k : args[i].opt = "-i") =>
        \E j \in 1 .. k : args[j].opt = "-i" /\ patterns = {PegPath(args[j].word)}

\* Every file that insert picks and every pattern it uses comes from one of its
\* words.
LEMMA InsertsWords ==
    ASSUME NEW tree, NEW args, AreArguments(args),
           ~ InsertParsed(tree, args)[Len(args)].fails
    PROVE  LET p == InsertParsed(tree, args)[Len(args)]
           IN  PicksAre(tree, args, Len(args), p.picks) /\ PatternsAre(args, Len(args), p.patterns)
<1> DEFINE h == InsertParsed(tree, args)
           n == Len(args)
           T == {k \in 0 .. n : ~ h[k].fails => /\ PicksAre(tree, args, k, h[k].picks)
                                                /\ PatternsAre(args, k, h[k].patterns)}
<1>1. n \in Nat /\ \A k \in 1 .. n : args[k] \in Range(args)
    BY ArgumentsAre
<1>2. InsertedBy(h, tree, args)
    BY InsertParses
<1> HIDE DEF h
<1>3. 0 \in T
  <2>1. h[0] = InsertStart
    BY <1>2 DEF InsertedBy
  <2>2. DOMAIN h[0].picks = {}
    BY <2>1 DEF InsertStart
  <2>3. PicksAre(tree, args, 0, h[0].picks)
    BY <2>2 DEF PicksAre
  <2>4. PatternsAre(args, 0, h[0].patterns)
    BY DEF PatternsAre
  <2>5. QED
    BY <1>1, <2>3, <2>4
<1>4. ASSUME NEW k \in 1 .. n, k - 1 \in T
      PROVE  k \in T
  <2> DEFINE Q == PegPaths(args)
             P == [path : Q, patterns : SUBSET Q]
             S == [all : BOOLEAN, patterns : SUBSET Q, picks : Seq(P), fails : BOOLEAN]
             p == h[k - 1]
             a == args[k]
             r == h[k]
             path == PegPath(a.word)
             pick == [path |-> path, patterns |-> p.patterns]
             picks == Append(p.picks, pick)
             there == Stat(tree, a.word) # "none" \/ a.word = <<".">>
  <2> SUFFICES ASSUME ~ r.fails
               PROVE  PicksAre(tree, args, k, r.picks) /\ PatternsAre(args, k, r.patterns)
    BY <1>1
  <2>1. k \in 0 .. n /\ k - 1 \in 0 .. n /\ k \in Nat \ {0} /\ 1 .. k = (1 .. k - 1) \union {k}
        /\ k \in 1 .. k
    BY <1>1
  <2>2. r = InsertArgument(tree, args, p, k) /\ p \in InsertStates(args)
    BY <1>2, <2>1 DEF InsertedBy
  <2>3. p \in S /\ path \in Q
    <3>1. a \in Range(args)
        BY <1>1
    <3>2. QED
        BY <2>2, <3>1 DEF InsertStates, PegPaths, Words
  <2>4. r = (IF p.fails THEN p
             ELSE IF a.opt = "-a" \/ (k = 1 /\ a.opt = "" /\ a.word = <<".">>)
             THEN [p EXCEPT !.all = TRUE]
             ELSE IF a.opt = "-i" THEN [p EXCEPT !.patterns = {path}]
             ELSE IF a.opt # "" \/ p.all THEN p
             ELSE IF ~ there THEN [p EXCEPT !.fails = TRUE]
             ELSE [p EXCEPT !.picks = picks])
    BY <2>2, Zenon DEF InsertArgument
  <2>5. ~ p.fails => /\ PicksAre(tree, args, k - 1, p.picks)
                     /\ PatternsAre(args, k - 1, p.patterns)
    BY <1>4
  <2>6. ~ r.fails
    OBVIOUS
  <2>7. there <=> Stat(tree, a.word) # "none" \/ a.word = <<".">>
    OBVIOUS
  <2> HIDE DEF Q
  <2>8. pick \in P /\ p.picks \in Seq(P) /\ pick.path = path
    BY <2>3
  <2> HIDE DEF P, p, a, r, path, pick, there
  <2>9. /\ picks \in Seq(P) /\ DOMAIN picks = DOMAIN p.picks \union {Len(p.picks) + 1}
        /\ \A x \in DOMAIN p.picks : picks[x] = p.picks[x]
        /\ picks[Len(p.picks) + 1] = pick
    <3> DEFINE l == Len(p.picks)
    <3>1. /\ picks \in Seq(P) /\ Len(picks) = l + 1
          /\ \A i \in 1 .. l : picks[i] = p.picks[i]
          /\ picks[l + 1] = pick
        BY <2>8, AppendProperties
    <3>2. l \in Nat /\ DOMAIN p.picks = 1 .. l /\ DOMAIN picks = 1 .. Len(picks)
        BY <2>8, <3>1, LenProperties
    <3> HIDE DEF l, picks
    <3>3. 1 .. l + 1 = (1 .. l) \union {l + 1}
        BY <3>2
    <3>4. QED
        BY <3>1, <3>2, <3>3 DEF l
  <2> HIDE DEF picks
  <2>10. ~ p.fails
    BY <2>4, <2>6
  <2>11. PicksAre(tree, args, k, p.picks)
    BY <2>1, <2>5, <2>10 DEF PicksAre
  <2>12. \/ a.opt # "-i" /\ r.patterns = p.patterns
         \/ a.opt = "-i" /\ r.patterns = {path}
    <3>1. [p EXCEPT !.all = TRUE].patterns = p.patterns
          /\ [p EXCEPT !.patterns = {path}].patterns = {path}
          /\ [p EXCEPT !.picks = picks].patterns = p.patterns
        BY <2>3
    <3>2. [p EXCEPT !.fails = TRUE].fails
        BY <2>3
    <3>3. QED
        BY <2>4, <2>6, <2>10, <3>1, <3>2
  <2>13. \/ r.picks = p.picks
         \/ r.picks = picks /\ a.opt = "" /\ there
    <3>1. [p EXCEPT !.all = TRUE].picks = p.picks
          /\ [p EXCEPT !.patterns = {path}].picks = p.picks
          /\ [p EXCEPT !.picks = picks].picks = picks
        BY <2>3, <2>9
    <3>2. [p EXCEPT !.fails = TRUE].fails
        BY <2>3
    <3>3. QED
        BY <2>4, <2>6, <2>10, <3>1, <3>2
  <2>14. PicksAre(tree, args, k, r.picks)
    <3>1. CASE r.picks = p.picks
        BY <2>11, <3>1
    <3>2. CASE r.picks = picks /\ a.opt = "" /\ there
      <4>1. ASSUME NEW x \in DOMAIN picks
            PROVE  \E i \in 1 .. k :
                    /\ args[i].opt = ""
                    /\ Stat(tree, args[i].word) # "none" \/ args[i].word = <<".">>
                    /\ picks[x].path = PegPath(args[i].word)
        <5>1. CASE x \in DOMAIN p.picks
            BY <2>9, <2>11, <5>1 DEF PicksAre
        <5>2. CASE x = Len(p.picks) + 1
          <6>1. picks[x].path = path
            <7>1. picks[x] = pick
                BY <2>9, <5>2
            <7>2. pick.path = path
                BY <2>8
            <7>3. QED
                BY <7>1, <7>2, Zenon
          <6>2. a = args[k] /\ path = PegPath(a.word)
            BY DEF a, path
          <6>3. /\ a.opt = ""
                /\ Stat(tree, a.word) # "none" \/ a.word = <<".">>
                /\ picks[x].path = PegPath(a.word)
            BY <2>7, <3>2, <6>1, <6>2
          <6>4. QED
            BY <2>1, <6>2, <6>3
        <5>3. QED
            BY <2>9, <5>1, <5>2
      <4>2. QED
        BY <3>2, <4>1 DEF PicksAre
    <3>3. QED
        BY <2>13, <3>1, <3>2
  <2>15. PatternsAre(args, k, r.patterns)
    <3>1. CASE a.opt = "-i" /\ r.patterns = {path}
        BY <2>1, <3>1 DEF PatternsAre, a, path
    <3>2. CASE a.opt # "-i" /\ r.patterns = p.patterns
        BY <2>1, <2>5, <2>10, <3>2 DEF PatternsAre, a
    <3>3. QED
        BY <2>12, <3>1, <3>2
  <2>16. QED
    BY <2>14, <2>15
<1>5. \A k \in 0 .. n : k \in T
  <2> HIDE DEF T, n
  <2>1. QED
    BY <1>1, <1>3, <1>4, Climb
<1>6. n \in T
    BY <1>1, <1>5
<1>7. QED
    BY <1>6 DEF h

-----------------------------------------------------------------------------
(* The configuration: the lines of its text *)

\* What lines are made of.
InLine == Letter \union Digit \union Stray \union {" ", "=", "#"}

\* Kinds of characters that are not to be confused.
Distinct ==
    /\ \A ch \in Letter : /\ ch \notin Digit /\ ch \notin Stray /\ ch \notin Blank
                          /\ ch # "=" /\ ch # "#" /\ ch # " " /\ ch \in KeyCharacter
    /\ \A ch \in Stray : /\ ch \notin Digit /\ ch \notin Letter /\ ch \notin Blank
                         /\ ch # "=" /\ ch # "#"
    /\ \A ch \in {"=", "#"} : ch \notin Digit /\ ch \notin Letter /\ ch \notin Blank
    /\ "=" # "#" /\ "=" \notin KeyCharacter /\ " " \notin KeyCharacter
    /\ " " \in Blank /\ "\n" \in Blank /\ "\n" \notin InLine
    /\ \A ch \in Blank : ch = " " \/ ch = "\n"
    /\ \A ch \in Character : ch \in InLine \/ ch = "\n"

\* The kinds of characters are distinct.
LEMMA KindsAreDistinct == Distinct
<1> DEFINE kinds == <<Letter, Digit, Stray, Blank, {"="}, {"#"}>>
<1>1. \A k, l \in 1 .. 6 : k # l => kinds[k] \intersect kinds[l] = {}
    BY ConfigAssumption
<1>2. /\ Letter \intersect Digit = {} /\ Letter \intersect Stray = {}
      /\ Letter \intersect Blank = {} /\ Letter \intersect {"="} = {} /\ Letter \intersect {"#"} = {}
  <2>1. /\ kinds[1] \intersect kinds[2] = {} /\ kinds[1] \intersect kinds[3] = {}
        /\ kinds[1] \intersect kinds[4] = {} /\ kinds[1] \intersect kinds[5] = {}
        /\ kinds[1] \intersect kinds[6] = {}
    <3> HIDE DEF kinds
    <3>1. QED
        BY <1>1
  <2>2. QED
    BY <2>1
<1>3. /\ Stray \intersect Digit = {} /\ Stray \intersect Blank = {}
      /\ Stray \intersect {"="} = {} /\ Stray \intersect {"#"} = {}
  <2>1. /\ kinds[3] \intersect kinds[2] = {} /\ kinds[3] \intersect kinds[4] = {}
        /\ kinds[3] \intersect kinds[5] = {} /\ kinds[3] \intersect kinds[6] = {}
    <3> HIDE DEF kinds
    <3>1. QED
        BY <1>1
  <2>2. QED
    BY <2>1
<1>4. /\ Digit \intersect Blank = {} /\ Digit \intersect {"="} = {} /\ Digit \intersect {"#"} = {}
  <2>1. /\ kinds[2] \intersect kinds[4] = {} /\ kinds[2] \intersect kinds[5] = {}
        /\ kinds[2] \intersect kinds[6] = {}
    <3> HIDE DEF kinds
    <3>1. QED
        BY <1>1
  <2>2. QED
    BY <2>1
<1> HIDE DEF kinds
<1>5. " " \notin KeyCharacter /\ "=" \notin KeyCharacter
    BY <1>2, <1>4 DEF KeyCharacter, Blank
<1>6. "\n" \notin InLine
    BY <1>2, <1>3, <1>4 DEF InLine, Blank
<1>7. QED
    BY <1>2, <1>3, <1>4, <1>5, <1>6 DEF Distinct, KeyCharacter, Blank, Character, InLine

\* Where characters of a set end.
LEMMA PastIs ==
    ASSUME NEW n \in Nat, Len(text) = n, NEW set, NEW k \in 0 .. n
    PROVE  /\ Past(set, k) \in k .. n
           /\ Past(set, k) = n \/ text[Past(set, k) + 1] \notin set
           /\ \A l \in k + 1 .. Past(set, k) : text[l] \in set
<1> DEFINE T == {l \in k .. n : l = n \/ text[l + 1] \notin set}
<1>1. T \in SUBSET Nat /\ n \in T
    OBVIOUS
<1>2. Past(set, k) = Min(T)
    BY DEF Past
<1>3. Min(T) \in T /\ \A y \in T : Min(T) <= y
  <2> HIDE DEF T
  <2>1. QED
    BY <1>1, MinIs
<1>4. Past(set, k) \in T /\ \A y \in T : Past(set, k) <= y
    BY <1>2, <1>3
<1>5. ASSUME NEW l \in k + 1 .. Past(set, k)
      PROVE  text[l] \in set
  <2>1. Past(set, k) \in k .. n
    BY <1>4
  <2>2. l - 1 \in k .. n /\ ~(Past(set, k) <= l - 1) /\ (l - 1) + 1 = l /\ l - 1 # n
    BY <1>5, <2>1
  <2>3. l - 1 \notin T
    BY <1>4, <2>2
  <2>4. QED
    BY <2>2, <2>3
<1>6. QED
    BY <1>4, <1>5

\* They end in one place only.
LEMMA PastOnly ==
    ASSUME NEW n \in Nat, Len(text) = n, NEW set, NEW k \in 0 .. n, NEW e \in k .. n,
           e = n \/ text[e + 1] \notin set, \A l \in k + 1 .. e : text[l] \in set
    PROVE  Past(set, k) = e
<1>1. Past(set, k) \in k .. n /\ (Past(set, k) = n \/ text[Past(set, k) + 1] \notin set)
      /\ \A l \in k + 1 .. Past(set, k) : text[l] \in set
    BY PastIs
<1>2. CASE Past(set, k) < e
  <2>1. Past(set, k) + 1 \in k + 1 .. e /\ Past(set, k) # n
    BY <1>1, <1>2
  <2>2. QED
    BY <1>1, <2>1
<1>3. CASE e < Past(set, k)
  <2>1. e + 1 \in k + 1 .. Past(set, k) /\ e # n
    BY <1>1, <1>3
  <2>2. QED
    BY <1>1, <2>1
<1>4. QED
    BY <1>1, <1>2, <1>3

\* A line of the text: where it ends, and what is in it.
IsLine(b, e) ==
    /\ b \in 1 .. Len(text) + 1 /\ Len(text) \in Nat
    /\ e \in Nat /\ EndOf(text, b) = e + 1 /\ b <= e + 1 /\ e <= Len(text)
    /\ e = Len(text) \/ text[e + 1] = "\n"
    /\ \A l \in b .. e : text[l] \in InLine /\ text[l] # "\n"
    /\ LineAt(text, b) = SubSeq(text, b, e)
    /\ LineAt(text, b) \in Seq(Character)
    /\ Len(LineAt(text, b)) = (e + 1) - b
    /\ DOMAIN LineAt(text, b) = 1 .. (e + 1) - b
    /\ \A i \in 1 .. (e + 1) - b : LineAt(text, b)[i] = text[(b + i) - 1]
    /\ LineAt(text, b) = <<>> <=> b = e + 1
    /\ b <= e => LineAt(text, b)[1] = text[b]

\* Where lines begin there are lines.
LEMMA LineIs ==
    ASSUME text \in Seq(Character), NEW b \in Begins(text)
    PROVE  \E e \in Nat : IsLine(b, e)
<1> DEFINE n == Len(text)
           T == {x \in b .. n + 1 : x = n + 1 \/ text[x] = "\n"}
           e == EndOf(text, b) - 1
<1>1. n \in Nat /\ DOMAIN text = 1 .. n /\ \A l \in 1 .. n : text[l] \in Character
    OBVIOUS
<1>2. b \in 1 .. n + 1
    BY <1>1 DEF Begins
<1>3. EndOf(text, b) = Min(T)
    BY DEF EndOf
<1> HIDE DEF n, e
<1>4. Min(T) \in T /\ \A y \in T : Min(T) <= y
  <2>1. T \in SUBSET Nat /\ n + 1 \in T
    BY <1>1, <1>2
  <2> HIDE DEF T
  <2>2. QED
    BY <2>1, MinIs
<1>5. EndOf(text, b) \in T /\ \A y \in T : EndOf(text, b) <= y
    BY <1>3, <1>4
<1>6. e \in Nat /\ EndOf(text, b) = e + 1 /\ b <= e + 1 /\ e <= n
    BY <1>1, <1>2, <1>5 DEF e
<1>7. e = n \/ text[e + 1] = "\n"
    BY <1>1, <1>5, <1>6
<1>8. ASSUME NEW l \in b .. e
      PROVE  text[l] \in InLine /\ text[l] # "\n"
  <2>1. l \in b .. n + 1 /\ ~(e + 1 <= l) /\ l \in 1 .. n
    BY <1>1, <1>2, <1>6, <1>8
  <2>2. l \notin T
    BY <1>5, <1>6, <2>1
  <2>3. text[l] # "\n"
    BY <2>1, <2>2
  <2>4. QED
    BY <1>1, <2>1, <2>3, KindsAreDistinct DEF Distinct
<1>9. LineAt(text, b) = SubSeq(text, b, e)
  <2>1. EndOf(text, b) - 1 = e
    BY DEF e
  <2>2. QED
    BY <2>1 DEF LineAt
<1>10. /\ SubSeq(text, b, e) \in Seq(Character)
       /\ Len(SubSeq(text, b, e)) = (e + 1) - b
       /\ \A i \in 1 .. (e + 1) - b : SubSeq(text, b, e)[i] = text[(b + i) - 1]
  <2>1. b \in 1 .. n + 1 /\ e \in b - 1 .. n
    BY <1>1, <1>2, <1>6
  <2>2. QED
    BY <2>1, SubSeqProperties DEF n
<1> DEFINE line == LineAt(text, b)
<1> HIDE DEF line
<1>11. /\ line \in Seq(Character) /\ Len(line) = (e + 1) - b
       /\ \A i \in 1 .. (e + 1) - b : line[i] = text[(b + i) - 1]
    BY <1>9, <1>10 DEF line
<1>12. DOMAIN line = 1 .. (e + 1) - b /\ (line = <<>> <=> (e + 1) - b = 0)
    BY <1>11
<1>13. (e + 1) - b = 0 <=> b = e + 1
    BY <1>1, <1>2, <1>6
<1>14. b <= e => line[1] = text[b]
  <2>1. b <= e => 1 \in 1 .. (e + 1) - b /\ (b + 1) - 1 = b
    BY <1>1, <1>2, <1>6
  <2>2. QED
    BY <1>11, <2>1
<1>15. IsLine(b, e)
    BY <1>1, <1>2, <1>6, <1>7, <1>8, <1>9, <1>11, <1>12, <1>13, <1>14 DEF IsLine, n, line
<1>16. QED
    BY <1>6, <1>15

\* A line begins at the start, and after a newline.
LEMMA LinesBegin ==
    ASSUME text \in Seq(Character), NEW p \in 0 .. Len(text), p = 0 \/ text[p] = "\n"
    PROVE  p + 1 \in Begins(text)
BY DEF Begins

\* The next line begins after the end of this one.
LEMMA NextBegins ==
    ASSUME text \in Seq(Character), NEW b, NEW e, IsLine(b, e),
           NEW d \in Begins(text), b < d
    PROVE  d \in Nat /\ e + 1 < d
<1>1. d \in 1 .. Len(text) + 1 /\ (d = 1 \/ (d - 1 \in 1 .. Len(text) /\ text[d - 1] = "\n"))
    BY DEF Begins
<1>2. /\ b \in 1 .. Len(text) + 1 /\ e \in Nat /\ Len(text) \in Nat
      /\ \A l \in b .. e : text[l] # "\n"
    BY DEF IsLine
<1>3. d - 1 \notin b .. e
    BY <1>1, <1>2
<1>4. QED
    BY <1>1, <1>2, <1>3

\* A line that defines something: its key ends at y, the sign is at g, and the
\* value begins at f.
IsShaped(b, e, y, g, f) ==
    /\ y \in Nat /\ g \in Nat /\ f \in Nat /\ b <= y /\ y < g /\ g < f /\ f <= e
    /\ \A l \in b .. y : text[l] \in KeyCharacter
    /\ \A l \in y + 1 .. g - 1 : text[l] = " "
    /\ text[g] = "="
    /\ \A l \in g + 1 .. f - 1 : text[l] \in {" ", "="} \union Stray
    /\ text[f] \in Letter /\ text[b] \in Letter
    /\ Definition(LineAt(text, b)) = [key |-> SubSeq(text, b, y), value |-> SubSeq(text, f, e)]

\* A part of a part.
LEMMA PartOfPart ==
    ASSUME NEW s \in Seq(Character), NEW a \in 1 .. Len(s) + 1, NEW c \in a - 1 .. Len(s),
           NEW x \in Nat \ {0}, NEW y \in x - 1 .. (c + 1) - a
    PROVE  SubSeq(SubSeq(s, a, c), x, y) = SubSeq(s, (a + x) - 1, (a + y) - 1)
<1> DEFINE t == SubSeq(s, a, c)
           u == SubSeq(t, x, y)
           v == SubSeq(s, (a + x) - 1, (a + y) - 1)
<1>1. t \in Seq(Character) /\ Len(t) = (c + 1) - a /\ \A i \in 1 .. (c + 1) - a : t[i] = s[(a + i) - 1]
    BY SubSeqProperties
<1> HIDE DEF t
<1>2. Len(t) \in Nat /\ Len(s) \in Nat
    BY <1>1
<1>3. x \in 1 .. Len(t) + 1 /\ y \in x - 1 .. Len(t)
    BY <1>1, <1>2
<1>4. /\ u \in Seq(Character) /\ Len(u) = (y + 1) - x
      /\ \A i \in 1 .. (y + 1) - x : u[i] = t[(x + i) - 1]
    BY <1>1, <1>3, SubSeqProperties
<1>5. (a + x) - 1 \in 1 .. Len(s) + 1 /\ (a + y) - 1 \in ((a + x) - 1) - 1 .. Len(s)
    BY <1>1, <1>2, <1>3
<1>6. /\ v \in Seq(Character) /\ Len(v) = ((a + y) - 1 + 1) - ((a + x) - 1)
      /\ \A i \in 1 .. ((a + y) - 1 + 1) - ((a + x) - 1) : v[i] = s[((a + x) - 1 + i) - 1]
    BY <1>5, SubSeqProperties
<1>7. ((a + y) - 1 + 1) - ((a + x) - 1) = (y + 1) - x /\ (y + 1) - x \in Nat
    BY <1>2, <1>3
<1>8. ASSUME NEW i \in 1 .. (y + 1) - x
      PROVE  u[i] = v[i]
  <2>1. (x + i) - 1 \in 1 .. (c + 1) - a /\ (a + ((x + i) - 1)) - 1 = ((a + x) - 1 + i) - 1
    BY <1>1, <1>2, <1>3
  <2>2. QED
    BY <1>1, <1>4, <1>6, <1>7, <2>1
<1> HIDE DEF u, v
<1>9. u = v
    BY <1>4, <1>6, <1>7, <1>8, SeqEqual
<1>10. QED
    BY <1>9 DEF u, v, t

\* A line that defines something has the shape of a definition.
LEMMA ShapeIs ==
    ASSUME text \in Seq(Character), NEW b, NEW e, IsLine(b, e), IsDefinition(LineAt(text, b))
    PROVE  \E y, g, f \in Nat : IsShaped(b, e, y, g, f)
<1> DEFINE line == LineAt(text, b)
           m == (e + 1) - b
           T == {k \in DOMAIN line : \A l \in 1 .. k : line[l] \in KeyCharacter}
           M == Max(T)
           rest == Rest(line)
<1>1. /\ line \in Seq(Character) /\ Len(line) = m /\ DOMAIN line = 1 .. m
      /\ \A i \in 1 .. m : line[i] = text[(b + i) - 1]
      /\ b \in Nat \ {0} /\ e \in Nat /\ b <= e + 1 /\ e <= Len(text) /\ Len(text) \in Nat
      /\ line = SubSeq(text, b, e)
    BY DEF IsLine
<1>2. line # <<>> /\ line[1] \in Letter
    BY DEF IsDefinition
<1>3. b <= e /\ m \in Nat \ {0} /\ text[b] \in Letter
    BY <1>1, <1>2 DEF IsLine
<1>4. PICK k \in DOMAIN rest :
            /\ rest[k] \in Letter
            /\ \A l \in 1 .. k - 1 : rest[l] \in {" ", "="} \union Stray
            /\ \E l \in 1 .. k - 1 : rest[l] = "=" /\ \A x \in 1 .. l - 1 : rest[x] = " "
    BY DEF IsDefinition
<1>5. PICK l \in 1 .. k - 1 : rest[l] = "=" /\ \A x \in 1 .. l - 1 : rest[x] = " "
    BY <1>4
<1> HIDE DEF line, m, rest
<1>6. M \in T /\ \A x \in T : x <= M
  <2>1. T \in SUBSET Nat /\ (\A x \in T : x <= m) /\ 1 \in T
    <3>1. \A x \in 1 .. 1 : line[x] \in KeyCharacter
      <4>1. line[1] \in KeyCharacter
        BY <1>2, KindsAreDistinct DEF Distinct
      <4>2. \A x \in 1 .. 1 : x = 1
        OBVIOUS
      <4>3. QED
        BY <4>1, <4>2
    <3>2. 1 \in DOMAIN line
        BY <1>1, <1>3
    <3>3. QED
        BY <1>1, <3>1, <3>2
  <2> HIDE DEF T
  <2>2. QED
    BY <1>3, <2>1, MaxIs
<1>7. M \in 1 .. m /\ \A x \in 1 .. M : line[x] \in KeyCharacter
    BY <1>1, <1>6
<1>7a. b \in Nat /\ 1 <= b /\ m \in Nat /\ M \in Nat /\ 1 <= M /\ M <= m
  <2>1. b \in Nat /\ 1 <= b
    BY <1>1
  <2>2. M \in Nat /\ 1 <= M /\ M <= m
    BY <1>3, <1>7
  <2>3. QED
    BY <1>3, <2>1, <2>2
<1>8. KeyOf(line) = SubSeq(line, 1, M)
    BY DEF KeyOf
<1> HIDE DEF T, M
<1>9. Len(KeyOf(line)) = M
  <2>1. 1 \in 1 .. Len(line) + 1 /\ M \in 1 - 1 .. Len(line)
    BY <1>1, <1>3, <1>7
  <2>2. Len(SubSeq(line, 1, M)) = (M + 1) - 1
    BY <1>1, <2>1, SubSeqProperties
  <2>3. QED
    BY <1>7, <1>8, <2>2
<1>10. rest = SubSeq(line, M + 1, m)
    BY <1>1, <1>9 DEF Rest, rest
<1>11. /\ rest \in Seq(Character) /\ Len(rest) = m - M
       /\ \A x \in 1 .. m - M : rest[x] = line[M + x]
  <2>1. M + 1 \in 1 .. Len(line) + 1 /\ m \in (M + 1) - 1 .. Len(line)
        /\ M + 1 \in Int /\ m \in Int /\ \A i \in M + 1 .. m : i \in 1 .. m
    BY <1>1, <1>3, <1>7
  <2>a. \A i \in M + 1 .. m : line[i] \in Character
    BY <1>1, <2>1, ElementOfSeq
  <2>b. Len(SubSeq(line, M + 1, m)) = (IF M + 1 <= m THEN m - (M + 1) + 1 ELSE 0)
        /\ m - (M + 1) + 1 = (m + 1) - (M + 1)
        /\ (~(M + 1 <= m) => (m + 1) - (M + 1) = 0)
    BY <1>3, <1>7, <2>1, <2>a, SubSeqProperties
  <2>c. SubSeq(line, M + 1, m) \in Seq(Character)
    BY <2>1, <2>a, SubSeqProperties
  <2>d. \A x \in 1 .. m - (M + 1) + 1 : SubSeq(line, M + 1, m)[x] = line[M + 1 + x - 1]
    BY <2>1, <2>a, SubSeqProperties
  <2>2. /\ SubSeq(line, M + 1, m) \in Seq(Character) /\ Len(SubSeq(line, M + 1, m)) = (m + 1) - (M + 1)
        /\ \A x \in 1 .. (m + 1) - (M + 1) : SubSeq(line, M + 1, m)[x] = line[((M + 1) + x) - 1]
    BY <2>b, <2>c, <2>d
  <2>3. (m + 1) - (M + 1) = m - M /\ \A x \in 1 .. m - M : ((M + 1) + x) - 1 = M + x
    BY <1>7a
  <2>4. QED
    BY <1>10, <2>2, <2>3
<1>12. DOMAIN rest = 1 .. m - M /\ m - M \in Nat
    BY <1>3, <1>7, <1>11
<1>13. k \in 1 .. m - M /\ l \in 1 .. k - 1
    BY <1>12
<1>14. \A x \in 1 .. m - M : rest[x] = text[(b + M + x) - 1]
  <2>1. ASSUME NEW x \in 1 .. m - M
        PROVE  rest[x] = text[(b + M + x) - 1]
    <3>1. M + x \in 1 .. m /\ (b + (M + x)) - 1 = (b + M + x) - 1
        BY <1>7a
    <3>2. rest[x] = line[M + x]
        BY <1>11
    <3>3. line[M + x] = text[(b + (M + x)) - 1]
        BY <1>1, <3>1
    <3>4. QED
        BY <3>1, <3>2, <3>3
  <2>2. QED
    BY <2>1
<1>15. FirstLetter(rest) = k
  <2> DEFINE S == {x \in DOMAIN rest : rest[x] \in Letter}
  <2>1. S \in SUBSET Nat /\ k \in S
    <3>1. \A x \in DOMAIN rest : x \in Nat
        BY <1>12
    <3>2. rest[k] \in Letter
        BY <1>4
    <3>3. QED
        BY <3>1, <3>2
  <2>2. ASSUME NEW x \in S
        PROVE  k <= x
    <3>1. x \in Nat \ {0} /\ rest[x] \in Letter /\ k \in Nat
        BY <1>12
    <3>2. rest[x] \notin {" ", "="} \union Stray
        BY <3>1, KindsAreDistinct DEF Distinct
    <3>3. x \notin 1 .. k - 1
        BY <1>4, <3>2
    <3>4. QED
        BY <3>1, <3>3
  <2>3. FirstLetter(rest) = Min(S)
    BY DEF FirstLetter
  <2> HIDE DEF S
  <2>4. QED
    BY <2>1, <2>2, <2>3, MinOnly
<1> DEFINE y == (b + M) - 1
           g == (b + M + l) - 1
           f == (b + M + k) - 1
<1>16. /\ y \in Nat /\ g \in Nat /\ f \in Nat /\ b <= y /\ y < g /\ g < f /\ f <= e
       /\ e = (b + m) - 1
    BY <1>1, <1>3, <1>7, <1>13 DEF m
<1>16a. y = (b + M) - 1 /\ g = (b + M + l) - 1 /\ f = (b + M + k) - 1
    OBVIOUS
<1> HIDE DEF y, g, f
<1>16b. /\ b \in Nat /\ e \in Nat /\ m \in Nat /\ M \in Nat /\ k \in Nat /\ l \in Nat /\ y \in Nat
        /\ M <= m /\ k <= m - M /\ 1 <= l /\ l <= k - 1 /\ e = (b + m) - 1
  <2>1. M \in Nat /\ M <= m /\ y \in Nat /\ e = (b + m) - 1
    BY <1>3, <1>7, <1>16
  <2>2. k \in Nat /\ l \in Nat /\ k <= m - M /\ 1 <= l /\ l <= k - 1
    BY <1>12, <1>13
  <2>3. QED
    BY <1>1, <1>3, <2>1, <2>2
<1>17. ASSUME NEW x \in b .. y
       PROVE  text[x] \in KeyCharacter
  <2>1. (x + 1) - b \in 1 .. M /\ (x + 1) - b \in 1 .. m /\ (b + ((x + 1) - b)) - 1 = x
    BY <1>1, <1>3, <1>7, <1>16a
  <2>2. QED
    BY <1>1, <1>7, <2>1
<1>18. ASSUME NEW x \in y + 1 .. e
       PROVE  (x - y) \in 1 .. m - M /\ rest[x - y] = text[x]
  <2>1. x - y \in 1 .. m - M /\ (b + M + (x - y)) - 1 = x
    BY <1>16a, <1>16b
  <2>2. QED
    BY <1>14, <2>1
<1>19. ASSUME NEW x \in y + 1 .. g - 1
       PROVE  text[x] = " "
  <2>1. x \in y + 1 .. e /\ x - y \in 1 .. l - 1
    BY <1>16a, <1>16b
  <2>2. QED
    BY <1>5, <1>18, <2>1
<1>20. text[g] = "=" /\ text[f] \in Letter
  <2>1. l \in 1 .. m - M /\ k \in 1 .. m - M
    BY <1>12, <1>13
  <2>2. rest[l] = text[g] /\ rest[k] = text[f]
    BY <1>14, <1>16a, <2>1
  <2>3. QED
    BY <1>4, <1>5, <2>2
<1>21. ASSUME NEW x \in g + 1 .. f - 1
       PROVE  text[x] \in {" ", "="} \union Stray
  <2>1. x \in y + 1 .. e /\ x - y \in 1 .. k - 1
    BY <1>16a, <1>16b
  <2>2. QED
    BY <1>4, <1>18, <2>1
<1>22. KeyOf(line) = SubSeq(text, b, y)
  <2>1. b \in 1 .. Len(text) + 1 /\ e \in b - 1 .. Len(text) /\ 1 \in Nat \ {0} /\ M \in 1 - 1 .. (e + 1) - b
    BY <1>1, <1>3, <1>7 DEF m
  <2>2. SubSeq(SubSeq(text, b, e), 1, M) = SubSeq(text, (b + 1) - 1, (b + M) - 1)
    BY <2>1, PartOfPart
  <2>3. (b + 1) - 1 = b
    BY <1>1
  <2>4. QED
    BY <1>1, <1>8, <1>16a, <2>2, <2>3
<1>23. SubSeq(rest, k, Len(rest)) = SubSeq(text, f, e)
  <2>1. m = (e + 1) - b
    BY DEF m
  <2>2. b \in 1 .. Len(text) + 1 /\ e \in b - 1 .. Len(text) /\ M + 1 \in Nat \ {0}
        /\ m \in (M + 1) - 1 .. (e + 1) - b
    BY <1>1, <1>3, <1>7, <2>1
  <2>3. SubSeq(SubSeq(text, b, e), M + 1, m) = SubSeq(text, (b + (M + 1)) - 1, (b + m) - 1)
    BY <2>2, PartOfPart
  <2>4. (b + (M + 1)) - 1 = b + M /\ (b + m) - 1 = e
    BY <1>1, <1>7, <1>16
  <2>5. rest = SubSeq(text, b + M, e)
    BY <1>1, <1>10, <2>3, <2>4
  <2>6. b + M \in 1 .. Len(text) + 1 /\ e \in (b + M) - 1 .. Len(text) /\ k \in Nat \ {0}
        /\ m - M \in k - 1 .. (e + 1) - (b + M)
    <3>1. Len(text) \in Nat /\ e <= Len(text) /\ 1 <= k
      <4>1. Len(text) \in Nat /\ e <= Len(text)
        BY <1>1
      <4>2. QED
        BY <1>16b, <4>1
    <3>2. QED
        BY <1>7a, <1>16b, <3>1
  <2>7. SubSeq(SubSeq(text, b + M, e), k, m - M) = SubSeq(text, ((b + M) + k) - 1, ((b + M) + (m - M)) - 1)
    BY <2>6, PartOfPart
  <2>8. ((b + M) + (m - M)) - 1 = e /\ ((b + M) + k) - 1 = f
    BY <1>7a, <1>16a, <1>16b
  <2>9. QED
    BY <1>11, <2>5, <2>7, <2>8
<1>24. Definition(line) = [key |-> SubSeq(text, b, y), value |-> SubSeq(text, f, e)]
    BY <1>15, <1>22, <1>23 DEF Definition, rest
<1>25. IsShaped(b, e, y, g, f)
    BY <1>3, <1>16, <1>17, <1>19, <1>20, <1>21, <1>24 DEF IsShaped, line
<1>26. QED
    BY <1>16, <1>25

-----------------------------------------------------------------------------
(* The configuration: what was read of it *)

Node == [key : Seq(Character), value : Seq(Character)]

\* The definitions of t that begin up to p are in the list l, the last one
\* first.
Listed(t, l, p) ==
    LET order == Ascending(Defining(t))
        all == Cardinality(Defining(t))
    IN  /\ Len(l) <= all
        /\ \A k \in 1 .. all : k <= Len(l) <=> order[k] <= p
        /\ \A k \in 1 .. Len(l) : l[(Len(l) - k) + 1] = Definition(LineAt(t, order[k]))

\* A line that defines something is not empty.
LEMMA DefiningIs ==
    ASSUME text \in Seq(Character), NEW d \in Defining(text)
    PROVE  /\ d \in Begins(text) /\ d \in 1 .. Len(text) /\ text[d] \in Letter
           /\ IsDefinition(LineAt(text, d))
           /\ \E e \in Nat : IsLine(d, e) /\ d <= e
<1>1. d \in Begins(text) /\ IsDefinition(LineAt(text, d))
    BY DEF Defining
<1>2. PICK e \in Nat : IsLine(d, e)
    BY <1>1, LineIs
<1>3. LineAt(text, d) # <<>> /\ LineAt(text, d)[1] \in Letter
    BY <1>1 DEF IsDefinition
<1>4. d <= e /\ text[d] \in Letter /\ d \in 1 .. Len(text) + 1 /\ e <= Len(text) /\ Len(text) \in Nat
    BY <1>2, <1>3 DEF IsLine
<1>5. d \in 1 .. Len(text)
    BY <1>2, <1>4
<1>6. QED
    BY <1>1, <1>2, <1>4, <1>5

\* The lines that define something, in their order.
LEMMA OrderIs ==
    ASSUME text \in Seq(Character)
    PROVE  LET order == Ascending(Defining(text))
               all == Cardinality(Defining(text))
           IN  /\ all \in Nat /\ DOMAIN order = 1 .. all
               /\ \A k \in 1 .. all : order[k] \in Defining(text) /\ order[k] \in Nat
               /\ \A k, l \in 1 .. all : k < l => order[k] < order[l]
               /\ \A d \in Defining(text) : \E k \in 1 .. all : order[k] = d
<1>1. Len(text) \in Nat
    OBVIOUS
<1>2. \A d \in Defining(text) : d \in 1 .. Len(text)
    BY DefiningIs
<1>3. Defining(text) \in SUBSET Nat /\ Defining(text) \subseteq 1 .. Len(text)
    BY <1>2
<1>4. IsFiniteSet(Defining(text))
  <2>1. IsFiniteSet(1 .. Len(text))
    BY <1>1, FS_Interval
  <2>2. QED
    BY <1>3, <2>1, FS_Subset
<1>5. /\ Cardinality(Defining(text)) \in Nat
      /\ Ascending(Defining(text)) \in [1 .. Cardinality(Defining(text)) -> Defining(text)]
      /\ \A k, l \in 1 .. Cardinality(Defining(text)) :
            k < l => Ascending(Defining(text))[k] < Ascending(Defining(text))[l]
      /\ \A x \in Defining(text) : \E k \in 1 .. Cardinality(Defining(text)) :
            Ascending(Defining(text))[k] = x
    BY <1>3, <1>4, AscendingOrder
<1>6. QED
    BY <1>3, <1>5

\* The list says the same up to where no other definition begins.
LEMMA ListedOn ==
    ASSUME text \in Seq(Character), NEW l, NEW p, NEW q, Listed(text, l, p),
           \A d \in Defining(text) : d <= p <=> d <= q
    PROVE  Listed(text, l, q)
<1> DEFINE order == Ascending(Defining(text))
           all == Cardinality(Defining(text))
<1>1. \A k \in 1 .. all : order[k] \in Defining(text)
    BY OrderIs
<1>2. Len(l) <= all /\ (\A k \in 1 .. all : k <= Len(l) <=> order[k] <= p)
      /\ \A k \in 1 .. Len(l) : l[(Len(l) - k) + 1] = Definition(LineAt(text, order[k]))
    BY DEF Listed
<1> HIDE DEF order, all
<1>3. \A k \in 1 .. all : k <= Len(l) <=> order[k] <= q
    BY <1>1, <1>2
<1>4. QED
    BY <1>2, <1>3 DEF Listed, order, all

\* One more definition is put in front.
LEMMA ListedMore ==
    ASSUME text \in Seq(Character), NEW l \in Seq(Node), NEW b \in Defining(text),
           Listed(text, l, b - 1), NEW q \in Nat, \A d \in Defining(text) : d <= q <=> d <= b,
           NEW def \in Node, def = Definition(LineAt(text, b))
    PROVE  Listed(text, <<def>> \o l, q)
<1> DEFINE order == Ascending(Defining(text))
           all == Cardinality(Defining(text))
           m == Len(l)
           more == <<def>> \o l
<1>1. /\ all \in Nat
      /\ \A k \in 1 .. all : order[k] \in Defining(text) /\ order[k] \in Nat
      /\ \A k, j \in 1 .. all : k < j => order[k] < order[j]
      /\ \A d \in Defining(text) : \E k \in 1 .. all : order[k] = d
    BY OrderIs
<1>2. m <= all /\ (\A k \in 1 .. all : k <= m <=> order[k] <= b - 1)
      /\ \A k \in 1 .. m : l[(m - k) + 1] = Definition(LineAt(text, order[k]))
    BY DEF Listed
<1>3. m \in Nat /\ more \in Seq(Node) /\ Len(more) = m + 1 /\ more[1] = def
      /\ \A i \in 1 .. m : more[i + 1] = l[i]
  <2>1. <<def>> \in Seq(Node) /\ Len(<<def>>) = 1 /\ <<def>>[1] = def
    OBVIOUS
  <2> HIDE DEF m, more
  <2>2. m \in Nat
    BY DEF m
  <2>3. /\ more \in Seq(Node) /\ Len(more) = 1 + m
        /\ \A i \in 1 .. 1 + m : more[i] = IF i <= 1 THEN <<def>>[i] ELSE l[i - 1]
    BY <2>1, ConcatProperties DEF m, more
  <2>4. more[1] = def
    BY <2>1, <2>2, <2>3
  <2>5. ASSUME NEW i \in 1 .. m
        PROVE  more[i + 1] = l[i]
    <3>1. i + 1 \in 1 .. 1 + m /\ ~(i + 1 <= 1) /\ (i + 1) - 1 = i
        BY <2>2
    <3>2. QED
        BY <2>3, <3>1
  <2>6. QED
    BY <2>2, <2>3, <2>4, <2>5
<1>4. PICK j \in 1 .. all : order[j] = b
    BY <1>1
<1> HIDE DEF order, all, m, more
<1>5. b \in Nat
    BY <1>1, <1>4
<1>6. j = m + 1
  <2>1. ~(j <= m)
    BY <1>2, <1>4, <1>5
  <2>2. CASE m + 1 < j
    <3>1. m + 1 \in 1 .. all /\ ~(m + 1 <= m)
        BY <1>1, <1>3, <2>2
    <3>2. order[m + 1] < b /\ order[m + 1] \in Nat
        BY <1>1, <1>4, <2>2, <3>1
    <3>3. order[m + 1] <= b - 1
        BY <1>5, <3>2
    <3>4. QED
        BY <1>2, <3>1, <3>3
  <2>3. QED
    BY <1>1, <1>3, <2>1, <2>2
<1>7. ASSUME NEW k \in 1 .. all
      PROVE  k <= m + 1 <=> order[k] <= q
  <2>1. k \in Nat /\ order[k] \in Nat /\ order[k] \in Defining(text)
    BY <1>1
  <2>2. order[k] <= q <=> order[k] <= b
    BY <2>1
  <2>3. k < j => order[k] < b
    BY <1>1, <1>4
  <2>4. j < k => b < order[k]
    BY <1>1, <1>4
  <2>5. k = j => order[k] = b
    BY <1>4
  <2>6. k <= m + 1 <=> order[k] <= b
    BY <1>3, <1>5, <1>6, <2>1, <2>3, <2>4, <2>5
  <2>7. QED
    BY <2>2, <2>6
<1>8. ASSUME NEW k \in 1 .. m + 1
      PROVE  more[((m + 1) - k) + 1] = Definition(LineAt(text, order[k]))
  <2>1. CASE k = m + 1
    <3>1. ((m + 1) - k) + 1 = 1
        BY <1>3, <2>1
    <3>2. QED
        BY <1>3, <1>4, <1>6, <2>1, <3>1
  <2>2. CASE k # m + 1
    <3>1. k \in 1 .. m /\ ((m + 1) - k) + 1 = ((m - k) + 1) + 1 /\ (m - k) + 1 \in 1 .. m
        BY <1>3, <2>2
    <3>2. more[((m - k) + 1) + 1] = l[(m - k) + 1]
        BY <1>3, <3>1
    <3>3. QED
        BY <1>2, <3>1, <3>2
  <2>3. QED
    BY <2>1, <2>2
<1>9. m + 1 <= all
    BY <1>1, <1>6
<1>10. /\ Len(more) <= all
       /\ \A k \in 1 .. all : k <= Len(more) <=> order[k] <= q
       /\ \A k \in 1 .. Len(more) : more[(Len(more) - k) + 1] = Definition(LineAt(text, order[k]))
    BY <1>3, <1>7, <1>8, <1>9
<1>11. QED
    BY <1>10 DEF Listed, order, all, more

\* A list of all definitions is what the text defines.
LEMMA ListedAll ==
    ASSUME text \in Seq(Character), NEW l \in Seq(Node), Listed(text, l, Len(text) + 1)
    PROVE  l = Reverse(Defined(text))
<1> DEFINE order == Ascending(Defining(text))
           all == Cardinality(Defining(text))
           m == Len(l)
           defs == Defined(text)
<1>1. all \in Nat /\ DOMAIN order = 1 .. all
    BY OrderIs
<1>2. \A k \in 1 .. all : order[k] \in Defining(text) /\ order[k] \in Nat
    BY OrderIs
<1>3. m <= all /\ (\A k \in 1 .. all : k <= m <=> order[k] <= Len(text) + 1)
      /\ \A k \in 1 .. m : l[(m - k) + 1] = Definition(LineAt(text, order[k]))
    BY DEF Listed
<1>4. defs = [k \in 1 .. all |-> Definition(LineAt(text, order[k]))]
    BY <1>1 DEF Defined
<1>5. m \in Nat /\ l = [i \in 1 .. m |-> l[i]]
    OBVIOUS
<1> HIDE DEF order, all, m, defs
<1>6. m = all
  <2>1. ASSUME m < all
        PROVE  FALSE
    <3>1. all \in 1 .. all /\ ~(all <= m)
        BY <1>1, <1>5, <2>1
    <3>2. order[all] \in 1 .. Len(text)
        BY <1>2, <3>1, DefiningIs
    <3>3. order[all] <= Len(text) + 1
      <4>1. Len(text) \in Nat
        OBVIOUS
      <4>2. QED
        BY <3>2, <4>1
    <3>4. QED
        BY <1>3, <3>1, <3>3
  <2>2. QED
    BY <1>1, <1>3, <1>5, <2>1
<1>7. Len(defs) = m
    BY <1>4, <1>5, <1>6
<1>8. Reverse(defs) = [i \in 1 .. m |-> defs[(m - i) + 1]]
    BY <1>7 DEF Reverse
<1>9. ASSUME NEW i \in 1 .. m
      PROVE  l[i] = defs[(m - i) + 1]
  <2>1. (m - i) + 1 \in 1 .. m /\ (m - ((m - i) + 1)) + 1 = i
    BY <1>5
  <2>2. l[i] = Definition(LineAt(text, order[(m - i) + 1]))
    BY <1>3, <2>1
  <2>3. QED
    BY <1>4, <1>6, <2>1, <2>2
<1>10. l = [i \in 1 .. m |-> defs[(m - i) + 1]]
    BY <1>5, <1>9
<1>11. QED
    BY <1>8, <1>10 DEF defs

\* Between two lines: where one ends, or before the first.
AtLineEnd ==
    /\ ~hasKey
    /\ pos = 0 \/ pos = Len(text) \/ text[pos + 1] = "\n"
    /\ Listed(text, list, pos)

\* The key of a definition was read, and perhaps its sign and more; the value is
\* still ahead.
InDefinition ==
    /\ hasKey /\ ~hasValue
    /\ \E b \in Defining(text), e \in Nat, y \in Nat, g \in Nat, f \in Nat :
          /\ IsLine(b, e) /\ IsShaped(b, e, y, g, f)
          /\ node = [key |-> SubSeq(text, b, y), value |-> <<>>]
          /\ Listed(text, list, b - 1)
          /\ \/ pos = y
             \/ curr = "assign" /\ g <= pos /\ pos < f

\* A definition was read and is still to be stored.
HasDefinition ==
    /\ hasKey /\ hasValue
    /\ \E b \in Defining(text), e \in Nat :
          /\ IsLine(b, e) /\ pos = e
          /\ node = Definition(LineAt(text, b))
          /\ Listed(text, list, b - 1)

ConfigType ==
    /\ text \in Seq(Character) /\ pos \in 0 .. Len(text)
    /\ node \in Node /\ list \in Seq(Node)
    /\ hasKey \in BOOLEAN /\ hasValue \in BOOLEAN /\ advances = ~hasValue
    /\ hasValue => hasKey

\* A well-formed text is read line by line.
ReadInv ==
    WellFormed(text) =>
        /\ parser # "died"
        /\ parser = "read" => Listed(text, list, Len(text) + 1)
        /\ parser = "reads" => AtLineEnd \/ InDefinition \/ HasDefinition

ConfigInv == ConfigType /\ ReadInv

\* What a part of the text is.
LEMMA PartIs ==
    ASSUME text \in Seq(Character), NEW a \in Nat, NEW c \in Nat, a >= 1, c <= Len(text)
    PROVE  SubSeq(text, a, c) \in Seq(Character)
<1>1. \A i \in a .. c : i \in 1 .. Len(text)
    OBVIOUS
<1>2. \A i \in a .. c : text[i] \in Character
    BY <1>1, ElementOfSeq
<1>3. a \in Int /\ c \in Int
    OBVIOUS
<1>4. QED
    BY <1>2, <1>3, SubSeqProperties

\* Before the first line nothing is listed.
LEMMA NoneListed ==
    ASSUME NEW file \in Seq(Character)
    PROVE  Listed(file, <<>>, 0)
<1> DEFINE D == Defining(file)
           order == Ascending(D)
           all == Cardinality(D)
<1>1. Len(file) \in Nat /\ DOMAIN file = 1 .. Len(file)
    OBVIOUS
<1>2. D \subseteq 1 .. Len(file) + 1
    BY <1>1 DEF Defining, Begins
<1> HIDE DEF D
<1>3. IsFiniteSet(D)
  <2>1. IsFiniteSet(1 .. Len(file) + 1)
    BY <1>1, FS_Interval
  <2>2. QED
    BY <1>2, <2>1, FS_Subset
<1>4. all \in Nat /\ order \in [1 .. all -> D]
  <2>1. D \in SUBSET Nat
    BY <1>1, <1>2
  <2>2. QED
    BY <1>3, <2>1, AscendingOrder
<1> HIDE DEF all, order
<1>5. ASSUME NEW k \in 1 .. all
      PROVE  k <= 0 <=> order[k] <= 0
  <2>1. order[k] \in 1 .. Len(file) + 1
    BY <1>2, <1>4
  <2>2. QED
    BY <1>1, <1>4, <2>1
<1>6. Len(<<>>) = 0 /\ 0 <= all /\ 1 .. 0 = {}
    BY <1>4
<1>7. /\ Len(<<>>) <= all
      /\ \A k \in 1 .. all : k <= Len(<<>>) <=> order[k] <= 0
      /\ \A k \in 1 .. Len(<<>>) :
            <<>>[(Len(<<>>) - k) + 1] = Definition(LineAt(file, order[k]))
    BY <1>5, <1>6
<1>8. QED
    BY <1>7 DEF Listed, D, order, all

\* The parser starts at the beginning of a text.
LEMMA ParserStarts ==
    ASSUME NEW file \in Seq(Character), NEW state \in {"reads", "off"}, StartParser(file, state)
    PROVE  ConfigInv'
<1>1. /\ text' = file /\ pos' = 0 /\ node' = NewNode /\ hasKey' = FALSE /\ hasValue' = FALSE
      /\ advances' = TRUE /\ list' = <<>> /\ parser' = state
    BY DEF StartParser
<1>2. ConfigType'
  <2>1. 0 \in 0 .. Len(file) /\ <<>> \in Seq(Node) /\ <<>> \in Seq(Character)
    OBVIOUS
  <2>2. NewNode \in Node
    BY <2>1 DEF NewNode, Node
  <2>3. QED
    BY <1>1, <2>1, <2>2 DEF ConfigType
<1>3. Listed(file, <<>>, 0)
    BY NoneListed
<1>4. QED
    BY <1>1, <1>2, <1>3 DEF ConfigInv, ReadInv, AtLineEnd

\* The next token: where it is and of which kind.
LEMMA TokenIs ==
    ASSUME ConfigType, ~(hasKey /\ hasValue), ~AtEnd
    PROVE  /\ advances /\ ~hasValue /\ AfterBlanks = Past(Blank, pos)
           /\ AfterBlanks \in pos .. Len(text) /\ AfterBlanks < Len(text)
           /\ Len(text) \in Nat /\ AfterBlanks \in Nat /\ pos \in Nat
           /\ text[AfterBlanks + 1] \notin Blank /\ text[AfterBlanks + 1] \in Character
           /\ \A l \in pos + 1 .. AfterBlanks : text[l] \in Blank
           /\ Kind = KindOf(text[AfterBlanks + 1])
<1>1. advances /\ ~hasValue
    BY DEF ConfigType
<1>2. AfterBlanks = Past(Blank, pos) /\ AfterBlanks # Len(text)
    BY <1>1 DEF AfterBlanks, AtEnd
<1>3. Len(text) \in Nat /\ pos \in 0 .. Len(text)
    BY DEF ConfigType
<1>4. /\ AfterBlanks \in pos .. Len(text)
      /\ AfterBlanks = Len(text) \/ text[AfterBlanks + 1] \notin Blank
      /\ \A l \in pos + 1 .. AfterBlanks : text[l] \in Blank
    BY <1>2, <1>3, PastIs
<1>5. AfterBlanks < Len(text) /\ AfterBlanks \in Nat /\ AfterBlanks + 1 \in 1 .. Len(text)
    BY <1>2, <1>3, <1>4
<1>6. text[AfterBlanks + 1] \in Character
    BY <1>5 DEF ConfigType
<1>7. Kind = KindOf(text[AfterBlanks + 1])
    BY <1>1 DEF Kind
<1>8. QED
    BY <1>1, <1>2, <1>3, <1>4, <1>5, <1>6, <1>7

\* What characters are taken for.
LEMMA KindIs ==
    ASSUME NEW ch
    PROVE  /\ ch \in Letter => KindOf(ch) = "string"
           /\ ch = "=" => KindOf(ch) = "assign"
           /\ ch = "#" => KindOf(ch) = "comment"
           /\ ch \in Stray => KindOf(ch) = curr
BY KindsAreDistinct DEF KindOf, Distinct

\* Each step keeps to the text.
LEMMA TypeStep ==
    ASSUME ConfigType, Parse
    PROVE  ConfigType' /\ text' = text
<1>1. text' = text
    BY DEF Parse, EndOfText, Store, StrayFirst, Number, Key, Value, Assign, Comment
<1> USE DEF ConfigType
<1>2. CASE EndOfText
    BY <1>2 DEF EndOfText
<1>3. CASE Store
  <2>1. <<node>> \o list \in Seq(Node)
    <3>1. <<node>> \in Seq(Node)
        OBVIOUS
    <3>2. QED
        BY <3>1, ConcatProperties
  <2>2. QED
    BY <1>3, <2>1 DEF Store
<1>4. CASE StrayFirst \/ Number
    BY <1>4 DEF StrayFirst, Number, Finds
<1>5. CASE Key
  <2>1. ~AtEnd /\ ~(hasKey /\ hasValue)
    BY <1>5 DEF Key, Finds
  <2>2. AfterBlanks \in 0 .. Len(text) /\ Len(text) \in Nat /\ AfterBlanks \in Nat
    BY <2>1, TokenIs
  <2>3. pos' \in AfterBlanks .. Len(text)
    BY <1>5, <2>2, PastIs DEF Key
  <2>4. AfterBlanks + 1 \in Nat /\ AfterBlanks + 1 >= 1 /\ pos' \in Nat /\ pos' <= Len(text)
    BY <2>2, <2>3
  <2>5. SubSeq(text, AfterBlanks + 1, pos') \in Seq(Character)
    BY <2>4, PartIs
  <2>6. node' = [key |-> SubSeq(text, AfterBlanks + 1, pos'), value |-> <<>>]
    BY <1>5 DEF Key, NewNode
  <2>7. <<>> \in Seq(Character)
    OBVIOUS
  <2>8. node' \in Node
    BY <2>5, <2>6, <2>7 DEF Node
  <2>9. pos' \in 0 .. Len(text)
    BY <2>4
  <2>10. QED
    BY <1>5, <2>8, <2>9 DEF Key
<1>6. CASE Value
  <2>1. ~AtEnd /\ ~(hasKey /\ hasValue)
    BY <1>6 DEF Value, Finds
  <2>2. AfterBlanks \in 0 .. Len(text) /\ Len(text) \in Nat /\ AfterBlanks \in Nat
    BY <2>1, TokenIs
  <2>3. pos' \in AfterBlanks .. Len(text)
    BY <1>6, <2>2, PastIs DEF Value
  <2>4. AfterBlanks + 1 \in Nat /\ AfterBlanks + 1 >= 1 /\ pos' \in Nat /\ pos' <= Len(text)
    BY <2>2, <2>3
  <2>5. SubSeq(text, AfterBlanks + 1, pos') \in Seq(Character)
    BY <2>4, PartIs
  <2>6. node' = [node EXCEPT !.value = SubSeq(text, AfterBlanks + 1, pos')]
    BY <1>6 DEF Value
  <2>7. node' \in Node
    BY <2>5, <2>6 DEF Node
  <2>8. pos' \in 0 .. Len(text)
    BY <2>4
  <2>9. QED
    BY <1>6, <2>7, <2>8 DEF Value
<1>7. CASE Assign \/ Comment
  <2>1. ~AtEnd /\ ~(hasKey /\ hasValue)
    BY <1>7 DEF Assign, Comment, Finds
  <2>2. AfterBlanks \in 0 .. Len(text) /\ Len(text) \in Nat /\ AfterBlanks \in Nat /\ AfterBlanks < Len(text)
    BY <2>1, TokenIs
  <2>3. Current \in Node
    <3>1. <<>> \in Seq(Character)
        OBVIOUS
    <3>2. QED
        BY <3>1 DEF Current, NewNode, Node
  <2>4. CASE Assign
    <3>1. pos' = AfterBlanks + 1 /\ node' = Current
          /\ UNCHANGED <<text, hasKey, hasValue, advances, list>>
        BY <2>4 DEF Assign
    <3>2. pos' \in 0 .. Len(text)
        BY <2>2, <3>1
    <3>3. QED
        BY <2>3, <3>1, <3>2
  <2>5. CASE Comment
    <3>1. pos' = Past(InLine, AfterBlanks) /\ node' = Current
          /\ UNCHANGED <<text, hasKey, hasValue, advances, list>>
        BY <2>5 DEF Comment, InLine
    <3>2. pos' \in AfterBlanks .. Len(text)
        BY <2>2, <3>1, PastIs
    <3>3. pos' \in 0 .. Len(text)
        BY <2>2, <3>2
    <3>4. QED
        BY <2>3, <3>1, <3>3
  <2>6. QED
    BY <1>7, <2>4, <2>5
<1>8. QED
    BY <1>1, <1>2, <1>3, <1>4, <1>5, <1>6, <1>7 DEF Parse

\* No line defines anything as long as there are only blanks.
LEMMA OnlyBlanks ==
    ASSUME text \in Seq(Character), NEW p \in Nat, NEW q \in Nat, p <= q, q <= Len(text),
           \A l \in p + 1 .. q : text[l] \in Blank, NEW d \in Defining(text)
    PROVE  d <= p <=> d <= q
<1>1. d \in 1 .. Len(text) /\ text[d] \in Letter
    BY DefiningIs
<1>2. d \notin p + 1 .. q
    BY <1>1, KindsAreDistinct DEF Distinct
<1>3. d \in Nat
  <2>1. Len(text) \in Nat
    OBVIOUS
  <2>2. QED
    BY <1>1, <2>1
<1>4. QED
    BY <1>2, <1>3

\* After the blanks between two lines there is a comment or a definition.
LEMMA LineAhead ==
    ASSUME ConfigType, WellFormed(text), AtLineEnd, NEW q \in Nat, pos <= q, q < Len(text),
           text[q + 1] \notin Blank, \A l \in pos + 1 .. q : text[l] \in Blank
    PROVE  /\ q + 1 \in Begins(text)
           /\ \E e \in Nat : IsLine(q + 1, e) /\ q + 1 <= e
           /\ IsComment(LineAt(text, q + 1)) \/ IsDefinition(LineAt(text, q + 1))
<1>1. text \in Seq(Character) /\ Len(text) \in Nat /\ pos \in Nat /\ pos <= Len(text)
    BY DEF ConfigType
<1> DEFINE T == {l \in pos .. q + 1 : l = 0 \/ (l # 0 /\ text[l] = "\n")}
<1>2. T \in SUBSET Nat /\ (\A x \in T : x <= q + 1) /\ T # {}
  <2>1. CASE pos = 0
    <3>1. 0 \in T
        BY <1>1, <2>1
    <3>2. QED
        BY <1>1, <3>1
  <2>2. CASE pos # 0
    <3>1. text[pos + 1] = "\n"
        BY <1>1, <2>2 DEF AtLineEnd
    <3>2. pos + 1 \in T
        BY <1>1, <3>1
    <3>3. QED
        BY <1>1, <3>2
  <2>3. QED
    BY <2>1, <2>2
<1>3. PICK p \in T : \A x \in T : x <= p
  <2> HIDE DEF T
  <2>1. q + 1 \in Nat
    OBVIOUS
  <2>2. Max(T) \in T /\ \A x \in T : x <= Max(T)
    BY <1>2, <2>1, MaxIs
  <2>3. QED
    BY <2>2
<1>4. /\ p \in pos .. q + 1 /\ p \in Nat /\ (p = 0 \/ text[p] = "\n")
      /\ \A l \in p + 1 .. q + 1 : text[l] # "\n"
  <2>1. p \in pos .. q + 1 /\ p \in Nat /\ (p = 0 \/ text[p] = "\n")
    BY <1>1
  <2>2. ASSUME NEW l \in p + 1 .. q + 1, text[l] = "\n"
        PROVE  FALSE
    <3>1. l \in pos .. q + 1 /\ l # 0 /\ ~(l <= p)
        BY <1>1, <2>1
    <3>2. QED
        BY <1>3, <2>2, <3>1
  <2>3. QED
    BY <2>1, <2>2
<1> HIDE DEF T
<1>5. p <= q
  <2>1. p = q + 1 => text[q + 1] = "\n"
    BY <1>1, <1>4
  <2>2. "\n" \in Blank
    BY DEF Blank
  <2>3. QED
    BY <1>1, <1>4, <2>1, <2>2
<1>6. p + 1 \in Begins(text)
  <2>1. p \in 0 .. Len(text)
    BY <1>1, <1>4, <1>5
  <2>2. QED
    BY <1>1, <1>4, <2>1, LinesBegin
<1>7. PICK e \in Nat : IsLine(p + 1, e)
    BY <1>1, <1>6, LineIs
<1>8. q + 1 <= e
  <2>1. e + 1 >= p + 1 /\ (e = Len(text) \/ text[e + 1] = "\n")
    BY <1>7 DEF IsLine
  <2>2. e + 1 \notin p + 1 .. q + 1 \/ e = Len(text)
    BY <1>4, <2>1
  <2>3. QED
    BY <1>1, <1>4, <2>1, <2>2
<1> DEFINE line == LineAt(text, p + 1)
<1>9. /\ IsBlank(line) \/ IsComment(line) \/ IsDefinition(line)
      /\ DOMAIN line = 1 .. (e + 1) - (p + 1)
      /\ \A i \in 1 .. (e + 1) - (p + 1) : line[i] = text[((p + 1) + i) - 1]
  <2>1. IsBlank(line) \/ IsComment(line) \/ IsDefinition(line)
    BY <1>6 DEF WellFormed
  <2>2. QED
    BY <1>7, <2>1 DEF IsLine
<1> HIDE DEF line
<1>10. ~IsBlank(line)
  <2>1. (q + 1) - p \in 1 .. (e + 1) - (p + 1) /\ ((p + 1) + ((q + 1) - p)) - 1 = q + 1
    BY <1>4, <1>5, <1>8
  <2>2. line[(q + 1) - p] = text[q + 1]
    BY <1>9, <2>1
  <2>3. " " \in Blank
    BY DEF Blank
  <2>4. QED
    BY <1>9, <2>1, <2>2, <2>3 DEF IsBlank
<1>11. p = q
  <2>1. ASSUME p < q
        PROVE  FALSE
    <3>1. p + 1 \in pos + 1 .. q /\ p + 1 \in p + 1 .. q + 1 /\ 1 \in 1 .. (e + 1) - (p + 1)
          /\ ((p + 1) + 1) - 1 = p + 1
        BY <1>1, <1>4, <1>8, <2>1
    <3>2. line[1] = text[p + 1] /\ text[p + 1] \in Blank /\ text[p + 1] # "\n"
        BY <1>4, <1>9, <3>1
    <3>3. line[1] = " "
        BY <3>2, KindsAreDistinct DEF Distinct
    <3>4. " " \notin Letter /\ " " # "#"
        BY KindsAreDistinct DEF Distinct
    <3>5. QED
        BY <1>9, <1>10, <3>3, <3>4 DEF IsComment, IsDefinition
  <2>2. QED
    BY <1>4, <1>5, <2>1
<1>12. QED
    BY <1>6, <1>7, <1>8, <1>9, <1>10, <1>11 DEF line

\* What is known of a line stays known while the text is the same.
LEMMA SameLine ==
    ASSUME text' = text, NEW b, NEW e, IsLine(b, e)
    PROVE  IsLine(b, e)'
BY DEF IsLine

\* What is known of a definition stays known, too.
LEMMA SameShape ==
    ASSUME text' = text, NEW b, NEW e, NEW y, NEW g, NEW f, IsShaped(b, e, y, g, f)
    PROVE  IsShaped(b, e, y, g, f)'
BY DEF IsShaped

\* Up to the end of its line no other line begins.
LEMMA OneLine ==
    ASSUME text \in Seq(Character), NEW b, NEW e, IsLine(b, e), b <= e, NEW d \in Defining(text)
    PROVE  d <= e <=> d <= b
<1>1. d \in Begins(text) /\ d \in 1 .. Len(text) /\ Len(text) \in Nat
    BY DefiningIs
<1>2. b < d => e + 1 < d
    BY <1>1, NextBegins
<1>3. b \in Nat /\ e \in Nat /\ d \in Nat
    BY <1>1 DEF IsLine
<1>4. QED
    BY <1>2, <1>3

\* A line that is looked at from between two lines.
NextLine(b, e) ==
    /\ AfterBlanks + 1 = b /\ AfterBlanks \in Nat /\ AfterBlanks < Len(text)
    /\ b \in Begins(text) /\ IsLine(b, e) /\ b <= e
    /\ IsComment(LineAt(text, b)) \/ IsDefinition(LineAt(text, b))
    /\ text[b] = "#" \/ text[b] \in Letter
    /\ IsComment(LineAt(text, b)) <=> text[b] = "#"
    /\ Listed(text, list, b - 1)
    /\ Kind = KindOf(text[b])

\* The next token after a line begins a line, which is no blank one.
LEMMA NextLineIs ==
    ASSUME ConfigType, WellFormed(text), AtLineEnd, ~(hasKey /\ hasValue), ~AtEnd
    PROVE  \E b, e \in Nat : NextLine(b, e)
<1> DEFINE q == AfterBlanks
           b == q + 1
<1>1. /\ q \in Nat /\ pos \in Nat /\ Len(text) \in Nat /\ pos <= q /\ q < Len(text)
      /\ text[q + 1] \notin Blank /\ \A l \in pos + 1 .. q : text[l] \in Blank
      /\ Kind = KindOf(text[q + 1])
    BY TokenIs
<1>2. text \in Seq(Character)
    BY DEF ConfigType
<1> HIDE DEF q
<1>3. /\ b \in Begins(text)
      /\ \E e \in Nat : IsLine(b, e) /\ b <= e
      /\ IsComment(LineAt(text, b)) \/ IsDefinition(LineAt(text, b))
    BY <1>1, LineAhead
<1>4. PICK e \in Nat : IsLine(b, e) /\ b <= e
    BY <1>3
<1>5. LineAt(text, b)[1] = text[b] /\ LineAt(text, b) # <<>>
  <2>1. b # e + 1
    BY <1>1, <1>4
  <2>2. QED
    BY <1>4, <2>1 DEF IsLine
<1>6. "#" \notin Letter
    BY KindsAreDistinct DEF Distinct
<1>7. /\ text[b] = "#" \/ text[b] \in Letter
      /\ IsComment(LineAt(text, b)) <=> text[b] = "#"
    BY <1>3, <1>5, <1>6 DEF IsComment, IsDefinition
<1>8. Listed(text, list, q)
  <2>1. \A d \in Defining(text) : d <= pos <=> d <= q
    BY <1>1, <1>2, OnlyBlanks
  <2>2. Listed(text, list, pos)
    BY DEF AtLineEnd
  <2>3. QED
    BY <1>2, <2>1, <2>2, ListedOn
<1>9. b - 1 = q /\ b \in Nat
    BY <1>1
<1>10. NextLine(b, e)
    BY <1>1, <1>3, <1>4, <1>7, <1>8, <1>9 DEF NextLine, q
<1>11. QED
    BY <1>9, <1>10

\* From the end of a line.
LEMMA FromLineEnd ==
    ASSUME ConfigType, ConfigType', text' = text, WellFormed(text), parser = "reads", AtLineEnd, Parse
    PROVE  /\ parser' # "died"
           /\ parser' = "read" => Listed(text, list', Len(text) + 1)
           /\ parser' = "reads" => AtLineEnd' \/ InDefinition'
<1>1. text \in Seq(Character) /\ Len(text) \in Nat /\ pos \in 0 .. Len(text) /\ ~hasKey
    BY DEF ConfigType, AtLineEnd
<1>2. CASE AtEnd
  <2>1. /\ Past(Blank, pos) = Len(text)
        /\ \A l \in pos + 1 .. Len(text) : text[l] \in Blank
    <3>1. Past(Blank, pos) = Len(text)
        BY <1>2 DEF AtEnd, AfterBlanks
    <3>2. QED
        BY <1>1, <3>1, PastIs
  <2>2. parser' = "read" /\ list' = list
    BY <1>2 DEF Parse, EndOfText, Store, StrayFirst, Number, Key, Value, Assign, Comment, Finds
  <2>3. ASSUME NEW d \in Defining(text)
        PROVE  d <= pos <=> d <= Len(text) + 1
    <3>1. d <= pos <=> d <= Len(text)
        BY <1>1, <2>1, OnlyBlanks
    <3>2. d \in 1 .. Len(text)
        BY <1>1, DefiningIs
    <3>3. QED
        BY <1>1, <3>1, <3>2
  <2>4. Listed(text, list, Len(text) + 1)
    <3>1. Listed(text, list, pos)
        BY DEF AtLineEnd
    <3>2. QED
        BY <1>1, <2>3, <3>1, ListedOn
  <2>5. QED
    BY <2>2, <2>4
<1>3. CASE ~AtEnd
  <2>1. PICK b \in Nat, e \in Nat : NextLine(b, e)
    BY <1>1, <1>3, NextLineIs
  <2>2. /\ AfterBlanks + 1 = b /\ AfterBlanks \in Nat /\ AfterBlanks < Len(text)
        /\ b \in Begins(text) /\ IsLine(b, e) /\ b <= e
        /\ Listed(text, list, b - 1) /\ Kind = KindOf(text[b])
    BY <2>1 DEF NextLine
  <2>3. /\ e <= Len(text)
        /\ e = Len(text) \/ text[e + 1] = "\n"
        /\ \A l \in b .. e : text[l] \in InLine
    BY <2>2 DEF IsLine
  <2>4. CASE text[b] = "#"
    <3>1. Kind = "comment"
        BY <2>2, <2>4, KindIs
    <3>2. Comment
      <4>1. ~EndOfText /\ ~Store
        BY <1>1, <1>3 DEF EndOfText, Store
      <4>2. ~StrayFirst /\ ~Number /\ ~Key /\ ~Value /\ ~Assign
        BY <3>1 DEF StrayFirst, Number, Key, Value, Assign, Finds
      <4>3. QED
        BY <4>1, <4>2 DEF Parse
    <3>3. pos' = Past(InLine, AfterBlanks) /\ UNCHANGED <<hasKey, list>>
          /\ parser' \in {"reads"} \union (IF pos' = Len(text) THEN {"died"} ELSE {})
        BY <3>2 DEF Comment, InLine
    <3>4. Past(InLine, AfterBlanks) = e
      <4>1. AfterBlanks \in 0 .. Len(text) /\ e \in AfterBlanks .. Len(text)
        BY <1>1, <2>2, <2>3
      <4>2. \A l \in AfterBlanks + 1 .. e : text[l] \in InLine
        BY <2>2, <2>3
      <4>3. e = Len(text) \/ text[e + 1] \notin InLine
        BY <2>3, KindsAreDistinct DEF Distinct
      <4>4. QED
        BY <1>1, <4>1, <4>2, <4>3, PastOnly
    <3>5. e # Len(text)
      <4>1. ASSUME e = Len(text)
            PROVE  FALSE
        <5>1. ASSUME NEW d \in Begins(text)
              PROVE  d <= b
            <6>1. d \in 1 .. Len(text) + 1
                BY <1>1 DEF Begins
            <6>2. b < d => e + 1 < d
                BY <1>1, <2>2, NextBegins
            <6>3. QED
                BY <1>1, <4>1, <6>1, <6>2
        <5>2. Begins(text) \in SUBSET Nat
            BY <1>1 DEF Begins
        <5>3. Max(Begins(text)) = b
            BY <2>2, <5>1, <5>2, MaxOnly
        <5>4. IsComment(LineAt(text, b))
            BY <2>1, <2>4 DEF NextLine
        <5>5. QED
            BY <5>3, <5>4 DEF WellFormed
      <4>2. QED
        BY <4>1
    <3>6. Listed(text, list, e)
      <4>1. ASSUME NEW d \in Defining(text)
            PROVE  d <= b - 1 <=> d <= e
        <5>1. d <= e <=> d <= b
            BY <1>1, <2>2, OneLine
        <5>2. d # b
          <6>1. "#" \notin Letter
            BY KindsAreDistinct DEF Distinct
          <6>2. QED
            BY <1>1, <2>4, <6>1, DefiningIs
        <5>3. d \in 1 .. Len(text)
            BY <1>1, DefiningIs
        <5>4. QED
            BY <1>1, <5>1, <5>2, <5>3
      <4>2. QED
        BY <1>1, <2>2, <4>1, ListedOn
    <3>7. parser' = "reads" /\ pos' = e /\ text'[e + 1] = "\n" /\ ~hasKey' /\ Listed(text', list', e)
        BY <1>1, <2>3, <3>3, <3>4, <3>5, <3>6
    <3>8. AtLineEnd'
        BY <3>7 DEF AtLineEnd
    <3>9. QED
        BY <3>7, <3>8
  <2>5. CASE text[b] \in Letter
    <3>1. Kind = "string"
        BY <2>2, <2>5, KindIs
    <3>2. Key
      <4>1. ~EndOfText /\ ~Store
        BY <1>1, <1>3 DEF EndOfText, Store
      <4>2. ~StrayFirst /\ ~Number /\ ~Value /\ ~Assign /\ ~Comment
        BY <1>1, <3>1 DEF StrayFirst, Number, Value, Assign, Comment, Finds
      <4>3. QED
        BY <4>1, <4>2 DEF Parse
    <3>3. /\ pos' = Past(KeyCharacter, AfterBlanks)
          /\ node' = [key |-> SubSeq(text, b, pos'), value |-> <<>>]
          /\ hasKey' = TRUE /\ hasValue' = hasValue /\ list' = list /\ parser' = parser
      <4>1. /\ pos' = Past(KeyCharacter, AfterBlanks)
            /\ hasKey' = TRUE /\ hasValue' = hasValue /\ list' = list /\ parser' = parser
        BY <3>2 DEF Key
      <4>2. node' = [NewNode EXCEPT !.key = SubSeq(text, AfterBlanks + 1, pos')]
        BY <3>2 DEF Key
      <4>3. QED
        BY <2>2, <4>1, <4>2 DEF NewNode
    <3>4. b \in Defining(text) /\ IsDefinition(LineAt(text, b))
      <4>1. "#" \notin Letter
        BY KindsAreDistinct DEF Distinct
      <4>2. IsDefinition(LineAt(text, b))
        BY <2>1, <2>5, <4>1 DEF NextLine
      <4>3. QED
        BY <2>2, <4>2 DEF Defining
    <3>5. PICK y \in Nat, g \in Nat, f \in Nat : IsShaped(b, e, y, g, f)
        BY <1>1, <2>2, <3>4, ShapeIs
    <3>6. Past(KeyCharacter, AfterBlanks) = y
      <4>1. /\ b <= y /\ y < g /\ g < f /\ f <= e
            /\ \A l \in b .. y : text[l] \in KeyCharacter
            /\ \A l \in y + 1 .. g - 1 : text[l] = " "
            /\ text[g] = "="
        BY <3>5 DEF IsShaped
      <4>2. AfterBlanks \in 0 .. Len(text) /\ y \in AfterBlanks .. Len(text)
        <5>1. /\ AfterBlanks + 1 = b /\ AfterBlanks \in Nat /\ AfterBlanks < Len(text)
              /\ Len(text) \in Nat /\ e <= Len(text) /\ y \in Nat /\ g \in Nat /\ f \in Nat
              /\ b <= y /\ y < g /\ g < f /\ f <= e
            BY <1>1, <2>2, <2>3, <4>1, Zenon
        <5>2. QED
            BY <5>1
      <4>3. \A l \in AfterBlanks + 1 .. y : text[l] \in KeyCharacter
        BY <2>2, <4>1
      <4>4. text[y + 1] = " " \/ text[y + 1] = "="
        <5>1. y + 1 = g \/ y + 1 \in y + 1 .. g - 1
          <6>1. y \in Nat /\ g \in Nat /\ y < g
            BY <4>1
          <6>2. QED
            BY <6>1
        <5>2. QED
            BY <4>1, <5>1
      <4>5. text[y + 1] \notin KeyCharacter
        BY <4>4, KindsAreDistinct DEF Distinct
      <4>6. QED
        BY <1>1, <4>2, <4>3, <4>5, PastOnly
    <3>7. hasValue = FALSE
        BY <1>1 DEF ConfigType
    <3>8. IsLine(b, e)' /\ IsShaped(b, e, y, g, f)'
        BY <2>2, <3>5, SameLine, SameShape
    <3>9. InDefinition'
      <4>1. b \in Defining(text)' /\ node' = [key |-> SubSeq(text', b, y), value |-> <<>>]
            /\ Listed(text', list', b - 1) /\ pos' = y /\ hasKey' /\ ~hasValue'
        BY <2>2, <3>3, <3>4, <3>6, <3>7
      <4>2. QED
        BY <3>8, <4>1 DEF InDefinition
    <3>10. QED
        BY <3>3, <3>9
  <2>6. QED
    BY <2>1, <2>4, <2>5 DEF NextLine
<1>4. QED
    BY <1>2, <1>3

\* Within a definition.
LEMMA FromDefinition ==
    ASSUME ConfigType, text' = text, WellFormed(text), parser = "reads", InDefinition, Parse
    PROVE  parser' = "reads" /\ (InDefinition' \/ HasDefinition')
<1>1. text \in Seq(Character) /\ Len(text) \in Nat /\ pos \in 0 .. Len(text)
      /\ hasKey /\ ~hasValue /\ advances
  <2>1. hasKey /\ ~hasValue
    BY DEF InDefinition
  <2>2. text \in Seq(Character) /\ pos \in 0 .. Len(text) /\ advances
    BY <2>1 DEF ConfigType
  <2>3. Len(text) \in Nat
    BY <2>2
  <2>4. QED
    BY <2>1, <2>2, <2>3
<1>2. PICK b \in Defining(text), e \in Nat, y \in Nat, g \in Nat, f \in Nat :
          /\ IsLine(b, e) /\ IsShaped(b, e, y, g, f)
          /\ node = [key |-> SubSeq(text, b, y), value |-> <<>>]
          /\ Listed(text, list, b - 1)
          /\ pos = y \/ (curr = "assign" /\ g <= pos /\ pos < f)
    BY DEF InDefinition
<1>3. b \in Nat /\ e <= Len(text) /\ (e = Len(text) \/ text[e + 1] = "\n")
      /\ \A l \in b .. e : text[l] \in InLine
    BY <1>2 DEF IsLine
<1>4. /\ b <= y /\ y < g /\ g < f /\ f <= e
      /\ \A l \in y + 1 .. g - 1 : text[l] = " "
      /\ text[g] = "="
      /\ \A l \in g + 1 .. f - 1 : text[l] \in {" ", "="} \union Stray
      /\ text[f] \in Letter
      /\ Definition(LineAt(text, b)) = [key |-> SubSeq(text, b, y), value |-> SubSeq(text, f, e)]
    BY <1>2 DEF IsShaped
<1>4a. /\ b \in Nat /\ e \in Nat /\ y \in Nat /\ g \in Nat /\ f \in Nat /\ Len(text) \in Nat
      /\ pos \in 0 .. Len(text) /\ b <= y /\ y < g /\ g < f /\ f <= e /\ e <= Len(text)
    BY <1>1, <1>3, <1>4, Zenon
<1>5. y <= pos /\ pos < f /\ pos \in Nat /\ f <= Len(text)
    BY <1>4a, <1>2
<1> DEFINE q == Past(Blank, pos)
<1>6. q \in pos .. Len(text) /\ (q = Len(text) \/ text[q + 1] \notin Blank)
      /\ \A l \in pos + 1 .. q : text[l] \in Blank
    BY <1>1, PastIs
<1> HIDE DEF q
<1>7. q < f
  <2>1. f \notin pos + 1 .. q
    BY <1>4, <1>6, KindsAreDistinct DEF Distinct
  <2>2. QED
    BY <1>1, <1>5, <1>6, <2>1
<1>8. q \in Nat /\ q < Len(text) /\ pos <= q /\ y <= q /\ text[q + 1] \notin Blank
    BY <1>1, <1>5, <1>6, <1>7
<1>9. AfterBlanks = q /\ ~AtEnd /\ Kind = KindOf(text[q + 1])
  <2>1. AfterBlanks = q
    BY <1>1 DEF AfterBlanks, q
  <2>2. QED
    BY <1>1, <1>8, <2>1 DEF AtEnd, Kind
\* What is next is the sign, something after it, or the value.
<1>10. \/ Kind = "assign" /\ g <= q + 1 /\ q + 1 < f
       \/ Kind = "string" /\ q + 1 = f
  <2>1. CASE q + 1 = f
    <3>1. Kind = "string"
        BY <1>4, <1>9, <2>1, KindIs
    <3>2. QED
        BY <2>1, <3>1
  <2>2. CASE q + 1 < f /\ q + 1 <= g
    <3>1. q + 1 = g
      <4>1. " " \in Blank
        BY DEF Blank
      <4>2. q + 1 \notin y + 1 .. g - 1
        BY <1>4, <1>8, <4>1
      <4>3. QED
        BY <1>4a, <1>8, <2>2, <4>2
    <3>2. Kind = "assign"
        BY <1>4, <1>9, <3>1, KindIs
    <3>3. QED
        BY <2>2, <3>1, <3>2
  <2>3. CASE q + 1 < f /\ g < q + 1
    <3>1. q + 1 \in g + 1 .. f - 1
        BY <1>8, <2>3
    <3>2. text[q + 1] = "=" \/ text[q + 1] \in Stray
      <4>1. " " \in Blank
        BY DEF Blank
      <4>2. QED
        BY <1>4, <1>8, <3>1, <4>1
    <3>3. curr = "assign"
      <4>1. pos # y
        <5>1. ASSUME pos = y
              PROVE  FALSE
            <6>1. g \in pos + 1 .. q
                BY <1>4a, <1>8, <2>3, <5>1
            <6>2. "=" \notin Blank
                BY KindsAreDistinct DEF Distinct
            <6>3. QED
                BY <1>4, <1>6, <6>1, <6>2
        <5>2. QED
            BY <5>1
      <4>2. QED
        BY <1>2, <4>1
    <3>4. Kind = "assign"
        BY <1>9, <3>2, <3>3, KindIs
    <3>5. g <= q + 1
        BY <1>4a, <1>8, <2>3
    <3>6. QED
        BY <2>3, <3>4, <3>5
  <2>4. QED
    BY <1>7, <1>8, <2>1, <2>2, <2>3
<1>11. ~EndOfText /\ ~Store
    BY <1>1, <1>9 DEF EndOfText, Store
<1>12. CASE Kind = "assign" /\ g <= q + 1 /\ q + 1 < f
  <2>1. Assign
    <3>1. ~StrayFirst /\ ~Number /\ ~Key /\ ~Value /\ ~Comment
        BY <1>12 DEF StrayFirst, Number, Key, Value, Comment, Finds
    <3>2. QED
        BY <1>11, <3>1 DEF Parse
  <2>2. /\ pos' = q + 1 /\ node' = node /\ curr' = "assign"
        /\ hasKey' = hasKey /\ hasValue' = hasValue /\ list' = list /\ parser' = parser
    BY <1>1, <1>9, <1>12, <2>1 DEF Assign, Finds, Current
  <2>3. IsLine(b, e)' /\ IsShaped(b, e, y, g, f)'
    BY <1>2, SameLine, SameShape
  <2>4. b \in Defining(text)' /\ node' = [key |-> SubSeq(text', b, y), value |-> <<>>]
        /\ Listed(text', list', b - 1) /\ hasKey' /\ ~hasValue'
        /\ (curr' = "assign" /\ g <= pos' /\ pos' < f)
    BY <1>1, <1>2, <1>12, <2>2
  <2>5. InDefinition'
    BY <2>3, <2>4 DEF InDefinition
  <2>6. QED
    BY <2>2, <2>5
<1>13. CASE Kind = "string" /\ q + 1 = f
  <2>1. Value
    <3>1. ~StrayFirst /\ ~Number /\ ~Key /\ ~Assign /\ ~Comment
        BY <1>1, <1>13 DEF StrayFirst, Number, Key, Assign, Comment, Finds
    <3>2. QED
        BY <1>11, <3>1 DEF Parse
  <2>2. /\ pos' = Past(InLine, q)
        /\ hasKey' = hasKey /\ hasValue' = TRUE /\ list' = list /\ parser' = parser
    BY <1>9, <2>1 DEF Value, InLine
  <2>3. Past(InLine, q) = e
    <3>1. q \in 0 .. Len(text) /\ e \in q .. Len(text)
        BY <1>4a, <1>8, <1>13
    <3>2. \A l \in q + 1 .. e : text[l] \in InLine
      <4>1. \A l \in q + 1 .. e : l \in b .. e
        BY <1>4a, <1>8
      <4>2. QED
        BY <1>3, <4>1
    <3>3. e = Len(text) \/ text[e + 1] \notin InLine
        BY <1>3, KindsAreDistinct DEF Distinct
    <3>4. QED
        BY <1>1, <3>1, <3>2, <3>3, PastOnly
  <2>4. node' = Definition(LineAt(text, b))
    <3>1. node' = [node EXCEPT !.value = SubSeq(text, f, e)]
        BY <1>9, <1>13, <2>1, <2>2, <2>3 DEF Value
    <3>2. node' = [key |-> SubSeq(text, b, y), value |-> SubSeq(text, f, e)]
        BY <1>2, <3>1
    <3>3. QED
        BY <1>4, <3>2
  <2>5. IsLine(b, e)'
    BY <1>2, SameLine
  <2>6. b \in Defining(text)' /\ node' = Definition(LineAt(text', b))
        /\ Listed(text', list', b - 1) /\ hasKey' /\ hasValue' /\ pos' = e
    BY <1>1, <1>2, <2>2, <2>3, <2>4
  <2>7. HasDefinition'
    BY <2>5, <2>6 DEF HasDefinition
  <2>8. QED
    BY <2>2, <2>7
<1>14. QED
    BY <1>10, <1>12, <1>13

\* A definition is stored.
LEMMA FromValue ==
    ASSUME ConfigType, ConfigType', text' = text, WellFormed(text), parser = "reads", HasDefinition,
           Parse
    PROVE  parser' = "reads" /\ AtLineEnd'
<1>1. text \in Seq(Character) /\ Len(text) \in Nat
      /\ hasKey /\ hasValue /\ ~advances /\ list \in Seq(Node) /\ node \in Node
  <2>1. hasKey /\ hasValue
    BY DEF HasDefinition
  <2>2. text \in Seq(Character) /\ ~advances /\ list \in Seq(Node) /\ node \in Node
    BY <2>1 DEF ConfigType
  <2>3. Len(text) \in Nat
    BY <2>2
  <2>4. QED
    BY <2>1, <2>2, <2>3
<1>2. PICK b \in Defining(text), e \in Nat :
          /\ IsLine(b, e) /\ pos = e
          /\ node = Definition(LineAt(text, b))
          /\ Listed(text, list, b - 1)
    BY DEF HasDefinition
<1>3. Store
  <2>1. ~AtEnd
    BY <1>1 DEF AtEnd
  <2>2. ~EndOfText /\ ~StrayFirst /\ ~Number /\ ~Key /\ ~Value /\ ~Assign /\ ~Comment
    BY <1>1, <2>1 DEF EndOfText, StrayFirst, Number, Key, Value, Assign, Comment, Finds
  <2>3. QED
    BY <2>2 DEF Parse
<1>4. list' = <<node>> \o list /\ hasKey' = FALSE /\ pos' = pos /\ parser' = parser
    BY <1>3 DEF Store
<1>5. b <= e /\ (e = Len(text) \/ text[e + 1] = "\n")
  <2>1. PICK x \in Nat : IsLine(b, x) /\ b <= x
    BY <1>1, DefiningIs
  <2>2. x = e
    BY <1>2, <2>1 DEF IsLine
  <2>3. QED
    BY <1>2, <2>1, <2>2 DEF IsLine
<1>6. \A d \in Defining(text) : d <= e <=> d <= b
    BY <1>1, <1>2, <1>5, OneLine
<1>7. Listed(text, <<node>> \o list, e)
    BY <1>1, <1>2, <1>6, ListedMore
<1>8. ~hasKey' /\ (pos' = Len(text') \/ text'[pos' + 1] = "\n") /\ Listed(text', list', pos')
    BY <1>2, <1>4, <1>5, <1>7
<1>9. AtLineEnd'
    BY <1>8 DEF AtLineEnd
<1>10. QED
    BY <1>4, <1>9

\* Each round of the parser's loop preserves ConfigInv.
LEMMA ParseStep ==
    ASSUME ConfigInv, Parse
    PROVE  ConfigInv'
<1>1. ConfigType /\ ConfigType' /\ text' = text /\ parser = "reads"
  <2>1. parser = "reads"
    BY DEF Parse, EndOfText, Store, StrayFirst, Number, Key, Value, Assign, Comment, Finds
  <2>2. QED
    BY <2>1, TypeStep DEF ConfigInv
<1>2. ASSUME WellFormed(text)
      PROVE  /\ parser' # "died"
             /\ parser' = "read" => Listed(text', list', Len(text') + 1)
             /\ parser' = "reads" => (AtLineEnd \/ InDefinition \/ HasDefinition)'
  <2>1. CASE AtLineEnd
    BY <1>1, <1>2, <2>1, FromLineEnd
  <2>2. CASE InDefinition
    BY <1>1, <1>2, <2>2, FromDefinition
  <2>3. CASE HasDefinition
    BY <1>1, <1>2, <2>3, FromValue
  <2>4. QED
    BY <1>1, <1>2, <2>1, <2>2, <2>3 DEF ConfigInv, ReadInv
<1>3. ReadInv'
    BY <1>1, <1>2 DEF ReadInv
<1>4. QED
    BY <1>1, <1>3 DEF ConfigInv

-----------------------------------------------------------------------------
(* Processes *)

\* What runs is one of the invocations, and what it found is a command.
ProcessInv ==
    /\ pc # "none" => run \in Invocations
    /\ pc \in {"ask", "parse", "create"} => command \in DOMAIN Commands
    /\ pc = "ask" => command = Suggested(run.word) /\ command # 0
    /\ pc # "done" => call = None
    /\ pc = "none" => run = NoRun

\* What is assumed of one invocation.
LEMMA AnInvocation ==
    ASSUME NEW r \in Invocations
    PROVE  /\ IsText(r.word)
           /\ r.args \in Seq(Range(r.args))
           /\ \A a \in Range(r.args) : IsText(a.word) /\ a.num \in Nat
           /\ r.config # NoFile => r.config \in Seq(Character)
           /\ r.commits \in Seq(Range(r.commits)) /\ r.cut \in Nat
           /\ \A c \in Range(r.commits) :
                    /\ IsText(c.name) /\ IsText(c.email) /\ IsText(c.message) /\ IsText(c.desc)
                    /\ c.place # Junk
           /\ \A name \in DOMAIN r.tree : IsText(name) /\ Plain(name) = name
BY CommandLineAssumption

\* Before there is a process, ProcessInv holds.
LEMMA ProcessInit == Init => ProcessInv
BY DEF Init, ProcessInv, NoRun

\* A command that bears the name.
LEMMA MatchIsCommand ==
    ASSUME NEW T \in SUBSET DOMAIN Commands, T # {}
    PROVE  Min(T) \in T
<1>1. DOMAIN Commands \in SUBSET Nat
  <2>1. Commands \in Seq(Range(Commands))
    BY CommandLineAssumption
  <2>2. QED
    BY <2>1
<1>2. QED
  BY <1>1, MinIs

\* There are commands, and they have names.
LEMMA CommandsAre ==
    \E l \in Nat \ {0} : DOMAIN Commands = 1 .. l /\ \A c \in 1 .. l : Len(Commands[c]) \in Nat
<1> DEFINE l == Len(Commands)
<1>1. Commands \in Seq(Range(Commands)) /\ Commands # <<>>
    BY CommandLineAssumption
<1>2. l \in Nat \ {0} /\ DOMAIN Commands = 1 .. l
    BY <1>1
<1>3. ASSUME NEW c \in 1 .. l
      PROVE  Len(Commands[c]) \in Nat
  <2>1. IsText(Commands[c])
    BY <1>2, CommandLineAssumption
  <2>2. Commands[c] \in Seq(Range(Commands[c]))
    BY <2>1 DEF IsText
  <2>3. QED
    BY <2>2
<1>4. QED
    BY <1>2, <1>3

\* What is proposed for a word is one of the commands.
LEMMA ProposalIsCommand ==
    ASSUME NEW word, IsText(word), Suggested(word) # 0
    PROVE  Suggested(word) \in DOMAIN Commands
<1>1. Len(word) \in Nat
  <2>1. word \in Seq(Range(word))
    BY DEF IsText
  <2>2. QED
    BY <2>1
<1>2. QED
    BY <1>1, CommandsAre, NearestFirst

\* Each step of a process preserves ProcessInv.
LEMMA ProcessStep == ProcessInv /\ [Next]_vars => ProcessInv'
<1> SUFFICES ASSUME ProcessInv, [Next]_vars
             PROVE  ProcessInv'
    OBVIOUS
<1> USE DEF ProcessInv, process, config, create
<1>1. CASE Run
    BY <1>1 DEF Run
<1>2. CASE Exit
    BY <1>2 DEF Exit
<1>3. CASE MainHelp \/ NotARepository \/ NoEnvironment \/ SayNo
    BY <1>3 DEF MainHelp, NotARepository, NoEnvironment, SayNo, Startable, Stop
<1>4. CASE ReadConfiguration
    BY <1>4 DEF ReadConfiguration, Startable, Stop
<1>5. CASE ParseConfiguration
    BY <1>5 DEF ParseConfiguration
<1>6. CASE Environment \/ SayYes
    BY <1>6 DEF Environment, SayYes, GoTo
<1>7. CASE FindCommand
  <2>1. Matches \in SUBSET DOMAIN Commands
    BY DEF Matches
  <2>2. QED
    BY <1>7, <2>1, MatchIsCommand DEF FindCommand
<1>8. CASE Propose
  <2>1. CASE Proposal[run.word] = 0
    BY <1>8, <2>1 DEF Propose, Stop
  <2>2. CASE Proposal[run.word] # 0
    <3>1. pc = "find" /\ command' = Proposal[run.word] /\ pc' = "ask"
          /\ UNCHANGED <<run, call>>
        BY <1>8, <2>2 DEF Propose
    <3>2. Proposal[run.word] = Suggested(run.word)
        BY <3>1 DEF Proposal
    <3>3. IsText(run.word)
        BY <3>1, AnInvocation
    <3>4. QED
        BY <2>2, <3>1, <3>2, <3>3, ProposalIsCommand
  <2>3. QED
    BY <2>1, <2>2
<1>9. CASE ParseArguments \/ Make \/ EndCreate
    BY <1>9 DEF ParseArguments, Make, EndCreate
<1>10. CASE BeginCreate
    BY <1>10 DEF BeginCreate, Stop
<1>11. CASE UNCHANGED vars
    BY <1>11 DEF vars
<1>12. QED
    BY <1>1, <1>2, <1>3, <1>4, <1>5, <1>6, <1>7, <1>8, <1>9, <1>10, <1>11 DEF Next, Step

\* A process that asks about a word has that word's proposal, one that parses
\* arguments has found a command, and none is about to do anything before it
\* has ended (main.c).
THEOREM ProcessInvariant == Spec => []ProcessInv
<1>1. QED
    BY ProcessInit, ProcessStep, PTL DEF Spec

\* What is proposed is the first of the commands that the fewest edits lead to.
THEOREM NearestIsSuggested == Spec => []SuggestsNearest
<1>1. ProcessInv => SuggestsNearest
  <2> SUFFICES ASSUME ProcessInv, pc = "ask"
               PROVE  /\ run.word = <<>> => command = 1
                      /\ run.word # <<>> =>
                            \E near \in {[n \in 0 .. 2 |->
                                {c \in DOMAIN Commands : Within(run.word, Commands[c], n)}]} :
                            \A n \in 1 .. 2 :
                                near[n] # {} /\ near[n - 1] = {} => command = Min(near[n])
    BY DEF SuggestsNearest
  <2> DEFINE word == run.word
  <2>1. command = Suggested(word) /\ Suggested(word) # 0 /\ run \in Invocations
    BY DEF ProcessInv
  <2>2. Len(word) \in Nat /\ (word = <<>> <=> Len(word) = 0)
    <3>1. IsText(word)
        BY <2>1, AnInvocation
    <3>2. word \in Seq(Range(word))
        BY <3>1 DEF IsText
    <3>3. QED
        BY <3>2
  <2>3. PICK l \in Nat \ {0} : DOMAIN Commands = 1 .. l /\ \A c \in 1 .. l : Len(Commands[c]) \in Nat
    BY CommandsAre
  <2> HIDE DEF word
  <2>4. /\ Len(word) = 0 => Suggested(word) = 1
        /\ Len(word) # 0 =>
             \A n \in 1 .. 2 :
                 /\ {c \in 1 .. l : Within(word, Commands[c], n)} # {}
                 /\ {c \in 1 .. l : Within(word, Commands[c], n - 1)} = {}
                 => Suggested(word) = Min({c \in 1 .. l : Within(word, Commands[c], n)})
    BY <2>1, <2>2, <2>3, NearestFirst
  <2> DEFINE near == [n \in 0 .. 2 |-> {c \in DOMAIN Commands : Within(word, Commands[c], n)}]
  <2>5. ASSUME word # <<>>
        PROVE  \A n \in 1 .. 2 : near[n] # {} /\ near[n - 1] = {} => command = Min(near[n])
    <3>1. ASSUME NEW n \in 1 .. 2
          PROVE  /\ near[n] = {c \in 1 .. l : Within(word, Commands[c], n)}
                 /\ near[n - 1] = {c \in 1 .. l : Within(word, Commands[c], n - 1)}
        <4>1. n \in 0 .. 2 /\ n - 1 \in 0 .. 2
            OBVIOUS
        <4>2. QED
            BY <2>3, <4>1
    <3> HIDE DEF near
    <3>2. QED
        BY <2>1, <2>2, <2>4, <2>5, <3>1
  <2>6. QED
    BY <2>1, <2>2, <2>4, <2>5 DEF word
<1>2. QED
    BY <1>1, ProcessInvariant, PTL

-----------------------------------------------------------------------------
(* create *)

\* Where the parser of create is.
CreateStates(args) ==
    [named : BOOLEAN, name : Seq(Range(args) \union {Null, Separator}),
     outcome : {"ok", "crash", "bad arguments"}]

\* What parsing its arguments tells create.
LEMMA ParsedForCreate ==
    ASSUME NEW args, args \in Seq(Range(args))
    PROVE  ParseCreate(args).outcome \in {"ok", "crash", "bad arguments", "usage", "no name"}
<1> DEFINE n == Len(args)
           S == CreateStates(args)
           X == Range(args) \union {Null, Separator}
           first == IF IsOption(args[1]) THEN Unnamed
                    ELSE [Unnamed EXCEPT !.named = TRUE, !.name = <<args[1]>>]
           next == [p \in (1 .. n) \X S |-> CreateArgument(p[2], args, p[1])]
           Fits(f) == f = [k \in 0 .. n |-> IF k = 0 THEN first ELSE CreateArgument(f[k - 1], args, k)]
           h == CHOOSE f : Fits(f)
<1>1. n \in Nat /\ \A k \in 1 .. n : args[k] \in X
    BY DEF Range
<1>2. CreateParsed(args) = h
    BY Zenon DEF CreateParsed
<1> SUFFICES ASSUME args # <<>>
             PROVE  h[n].outcome \in {"ok", "crash", "bad arguments"}
    BY <1>2 DEF ParseCreate, Unnamed
<1>3. first \in S
  <2>1. args[1] \in X
    BY <1>1
  <2> HIDE DEF X
  <2>2. <<>> \in Seq(X) /\ <<args[1]>> \in Seq(X)
    BY <2>1
  <2>3. S = [named : BOOLEAN, name : Seq(X), outcome : {"ok", "crash", "bad arguments"}]
    BY DEF CreateStates, X
  <2>4. QED
    BY <2>2, <2>3 DEF Unnamed
<1>4. ASSUME NEW p \in S, NEW k \in 1 .. n
      PROVE  CreateArgument(p, args, k) \in S
  <2> DEFINE value == IF k < Len(args) THEN args[k + 1] ELSE Null
  <2>1. value \in X
    BY <1>1
  <2> HIDE DEF value, X
  <2>2. Separator \in X
    BY DEF X
  <2>3. S = [named : BOOLEAN, name : Seq(X), outcome : {"ok", "crash", "bad arguments"}]
    BY DEF CreateStates, X
  <2>4. <<value>> \in Seq(X) /\ p.name \o <<Separator, value>> \in Seq(X)
    <3>1. <<value>> \in Seq(X) /\ <<Separator, value>> \in Seq(X)
        BY <2>1, <2>2
    <3>2. p.name \in Seq(X)
      <4>1. p \in S
        OBVIOUS
      <4> HIDE DEF S
      <4>2. QED
        BY <2>3, <4>1
    <3>3. QED
        BY <3>1, <3>2, ConcatProperties
  <2> HIDE DEF S
  <2>5. CreateArgument(p, args, k) \in
            {p, [p EXCEPT !.outcome = "crash"], [p EXCEPT !.named = TRUE, !.name = <<value>>],
             [p EXCEPT !.name = @ \o <<Separator, value>>], [p EXCEPT !.outcome = "bad arguments"]}
    BY Zenon DEF CreateArgument, value
  <2>6. QED
    BY <2>3, <2>4, <2>5
<1> HIDE DEF first, S, next
<1>5. ASSUME NEW p \in S, NEW k \in 1 .. n
      PROVE  next[<<k, p>>] = CreateArgument(p, args, k)
    BY DEF next
<1>6. PICK g \in [0 .. n -> S] : Follows(g, first, next, n)
  <2>1. \A k \in 1 .. n, p \in S : next[<<k, p>>] \in S
    BY <1>4, <1>5
  <2>2. n \in Nat
    BY <1>1
  <2> HIDE DEF n
  <2>3. QED
    BY <1>3, <2>1, <2>2, Recursion
<1>7. Fits(g)
  <2>1. ASSUME NEW k \in 0 .. n
        PROVE  g[k] = IF k = 0 THEN first ELSE CreateArgument(g[k - 1], args, k)
    <3>1. CASE k = 0
        BY <1>6, <3>1 DEF Follows
    <3>2. CASE k # 0
        <4>1. k \in 1 .. n /\ k - 1 \in 0 .. n
            BY <1>1, <3>2
        <4>2. g[k - 1] \in S /\ g[k] = next[<<k, g[k - 1]>>]
            BY <1>6, <4>1 DEF Follows
        <4>3. QED
            BY <1>5, <3>2, <4>1, <4>2
    <3>3. QED
        BY <3>1, <3>2
  <2>2. QED
    BY <1>6, <2>1
<1>8. Fits(h)
    BY <1>7, Zenon
<1> HIDE DEF h, n
<1> DEFINE T == {k \in 0 .. n : h[k] \in S}
<1>9. 0 \in T
    BY <1>1, <1>3, <1>8
<1>10. ASSUME NEW k \in 1 .. n, k - 1 \in T
       PROVE  k \in T
  <2>1. h[k] = CreateArgument(h[k - 1], args, k)
    BY <1>1, <1>8
  <2>2. QED
    BY <1>1, <1>4, <1>10, <2>1
<1>11. n \in T
  <2> HIDE DEF T
  <2>1. \A k \in 0 .. n : k \in T
    BY <1>1, <1>9, <1>10, Climb
  <2>2. QED
    BY <1>1, <2>1
<1>12. h[n] \in S
    BY <1>11
<1>13. QED
    BY <1>12 DEF S, CreateStates

\* The first k things of create are there, and one process made them.
MadeUpTo(k) ==
    /\ makes = SubSeq(Items, k + 1, Len(Items))
    /\ k > 0 => makers = {runs} /\ repo = {Items[l] : l \in 1 .. k}

\* The inductive invariant: whoever makes the first directory is the only one
\* to make a part, and the parts come in their order.
MakeInv ==
    /\ repo = {} \/ ".peg" \in repo
    /\ makers # {} => ".peg" \in repo
    /\ \A r, q \in makers : r = q
    /\ pc = "create" => \E k \in 0 .. Len(Items) : MadeUpTo(k)
    /\ call = [does |-> "created"] => repo = Whole

\* The files of create that come after the directories.
Files == <<"desc", "cache.pack", "cache.idx", "cache.idx count",
           "commit.idx", "commit.idx count", "db.idx", "db.pack">>

\* Where the things are that a step of create depends on.
LEMMA ItemsAre ==
    /\ Items \in Seq(Range(Items)) /\ Len(Items) = 12
    /\ \A k \in 1 .. 12 :
          /\ Items[k] = ".peg" <=> k = 1
          /\ Items[k] = "cache.idx" <=> k = 7
          /\ Items[k] = "cache.idx count" <=> k = 8
          /\ Items[k] = "commit.idx" <=> k = 9
          /\ Items[k] = "commit.idx count" <=> k = 10
<1> DEFINE X == {".peg", "cache", "db", "commit"}
           Y == {"desc", "cache.pack", "cache.idx", "cache.idx count",
                 "commit.idx", "commit.idx count", "db.idx", "db.pack"}
           Z == X \union Y
<1>1. Directories \in Seq(X) /\ Len(Directories) = 4
    BY DEF Directories
<1>2. Files \in Seq(Y) /\ Len(Files) = 8
    BY DEF Files
<1>3. Items = Directories \o Files
    BY DEF Items, Files
<1>4. Directories \in Seq(Z) /\ Files \in Seq(Z)
  <2> HIDE DEF X, Y
  <2>1. X \subseteq Z /\ Y \subseteq Z
    OBVIOUS
  <2> HIDE DEF Z
  <2>2. \A S, T : S \subseteq T => Seq(S) \subseteq Seq(T)
    OBVIOUS
  <2>3. QED
    BY <1>1, <1>2, <2>1, <2>2
<1>5. /\ Directories[1] = ".peg" /\ Directories[2] = "cache" /\ Directories[3] = "db"
      /\ Directories[4] = "commit"
    BY DEF Directories
<1>6. /\ Files[1] = "desc" /\ Files[2] = "cache.pack" /\ Files[3] = "cache.idx"
      /\ Files[4] = "cache.idx count" /\ Files[5] = "commit.idx"
      /\ Files[6] = "commit.idx count" /\ Files[7] = "db.idx" /\ Files[8] = "db.pack"
    BY DEF Files
<1> HIDE DEF X, Y, Z
<1>7. /\ Items \in Seq(Z) /\ Len(Items) = 12
      /\ \A k \in 1 .. 12 : Items[k] = IF k <= 4 THEN Directories[k] ELSE Files[k - 4]
  <2>1. /\ Items \in Seq(Z) /\ Len(Items) = Len(Directories) + Len(Files)
        /\ \A k \in 1 .. Len(Directories) + Len(Files) :
                Items[k] = IF k <= Len(Directories) THEN Directories[k]
                           ELSE Files[k - Len(Directories)]
    BY <1>3, <1>4, ConcatProperties, Zenon
  <2>2. Len(Directories) = 4 /\ Len(Files) = 8
    BY <1>1, <1>2
  <2>3. QED
    BY <2>1, <2>2
<1>8. ASSUME NEW k \in 1 .. 4
      PROVE  Items[k] = Directories[k] /\ k \in {1, 2, 3, 4}
    BY <1>7
<1>9. ASSUME NEW k \in 5 .. 12
      PROVE  Items[k] = Files[k - 4] /\ k - 4 \in {1, 2, 3, 4, 5, 6, 7, 8}
    BY <1>7
<1>10. ASSUME NEW k \in 1 .. 12
       PROVE  /\ Items[k] = ".peg" <=> k = 1
              /\ Items[k] = "cache.idx" <=> k = 7
              /\ Items[k] = "cache.idx count" <=> k = 8
              /\ Items[k] = "commit.idx" <=> k = 9
              /\ Items[k] = "commit.idx count" <=> k = 10
  <2>1. CASE k \in 1 .. 4
    <3>1. Items[k] = Directories[k]
        BY <1>8, <2>1
    <3>2. k = 1 \/ k = 2 \/ k = 3 \/ k = 4
        BY <2>1
    <3>3. /\ Directories[k] = ".peg" <=> k = 1
          /\ Directories[k] \in {".peg", "cache", "db", "commit"}
        BY <1>5, <3>2
    <3>4. k # 7 /\ k # 8 /\ k # 9 /\ k # 10
        BY <3>2
    <3>5. QED
        BY <3>1, <3>3, <3>4
  <2>2. CASE k \in 5 .. 12
    <3> DEFINE l == k - 4
    <3>1. Items[k] = Files[l]
        BY <1>9, <2>2
    <3>2. k = l + 4 /\ l \in Nat
        BY <2>2
    <3>3. l = 1 \/ l = 2 \/ l = 3 \/ l = 4 \/ l = 5 \/ l = 6 \/ l = 7 \/ l = 8
        BY <1>9, <2>2
    <3> HIDE DEF l
    <3>4. Files[l] # ".peg"
        BY <1>6, <3>3
    <3>5. Files[l] = "cache.idx" <=> l = 3
        BY <1>6, <3>3
    <3>6. Files[l] = "cache.idx count" <=> l = 4
        BY <1>6, <3>3
    <3>7. Files[l] = "commit.idx" <=> l = 5
        BY <1>6, <3>3
    <3>8. Files[l] = "commit.idx count" <=> l = 6
        BY <1>6, <3>3
    <3>9. k # 1 /\ (k = 7 <=> l = 3) /\ (k = 8 <=> l = 4) /\ (k = 9 <=> l = 5) /\ (k = 10 <=> l = 6)
        BY <3>2
    <3>10. QED
        BY <3>1, <3>4, <3>5, <3>6, <3>7, <3>8, <3>9, Zenon
  <2>3. QED
    <3>1. k \in 1 .. 4 \/ k \in 5 .. 12
        OBVIOUS
    <3>2. QED
        BY <2>1, <2>2, <3>1
<1>11. Items \in Seq(Range(Items))
  <2>1. Items \in Seq(Z)
    BY <1>7
  <2>2. QED
    BY <2>1, SeqOfRange, Zenon
<1>12. Items \in Seq(Range(Items)) /\ Len(Items) = 12
  <2>1. Len(Items) = 12
    BY <1>7
  <2>2. QED
    BY <1>11, <2>1, Zenon
<1>13. QED
  <2>1. \A k \in 1 .. 12 :
          /\ Items[k] = ".peg" <=> k = 1
          /\ Items[k] = "cache.idx" <=> k = 7
          /\ Items[k] = "cache.idx count" <=> k = 8
          /\ Items[k] = "commit.idx" <=> k = 9
          /\ Items[k] = "commit.idx count" <=> k = 10
    BY <1>10, Zenon
  <2>2. QED
    BY <1>12, <2>1, Zenon

\* The parts are a sequence that begins with the directory, and nothing that
\* opening a file loses of it is there before.
LEMMA PartsAre ==
    /\ Items \in Seq(Range(Items)) /\ Len(Items) \in Nat /\ Len(Items) > 0
    /\ Items[1] = ".peg"
    /\ \A k \in 1 .. Len(Items) : \A l \in 1 .. k : Items[l] \notin CountOf[Items[k]]
<1> DEFINE n == Len(Items)
<1>0. Items \in Seq(Range(Items)) /\ n = 12
    BY ItemsAre, Zenon
<1>1. /\ Items[1] = ".peg"
      /\ \A k \in 1 .. 12 :
            /\ Items[k] = "cache.idx" <=> k = 7
            /\ Items[k] = "cache.idx count" <=> k = 8
            /\ Items[k] = "commit.idx" <=> k = 9
            /\ Items[k] = "commit.idx count" <=> k = 10
  <2>1. 1 \in 1 .. 12
    OBVIOUS
  <2>2. QED
    BY <2>1, ItemsAre, Zenon
<1> HIDE DEF n
<1>2. ASSUME NEW k \in 1 .. 12, NEW l \in 1 .. k
      PROVE  Items[l] \notin CountOf[Items[k]]
  <2>1. Items[k] \in Range(Items)
    <3>1. Len(Items) \in Nat /\ k \in 1 .. Len(Items)
        BY <1>0 DEF n
    <3>2. QED
        BY <1>0, <3>1 DEF Range
  <2> DEFINE item == Items[k]
  <2>2. CountOf[item] = CASE item = "cache.idx"  -> {"cache.idx count"}
                          [] item = "commit.idx" -> {"commit.idx count"}
                          [] OTHER               -> {}
    BY <2>1 DEF CountOf
  <2>3. l \in 1 .. 12 /\ l <= k /\ (k = 7 => l # 8) /\ (k = 9 => l # 10)
    OBVIOUS
  <2>4. item = "cache.idx" => Items[l] # "cache.idx count"
    BY <1>1, <2>3, Zenon
  <2>5. item = "commit.idx" => Items[l] # "commit.idx count"
    BY <1>1, <2>3, Zenon
  <2> HIDE DEF item
  <2>6. Items[l] \notin CountOf[item]
    BY <2>2, <2>4, <2>5
  <2>7. QED
    BY <2>6 DEF item
<1>3. QED
  <2>1. Items \in Seq(Range(Items)) /\ Len(Items) = 12
    BY <1>0 DEF n
  <2>2. Len(Items) \in Nat /\ Len(Items) > 0
    BY <1>0 DEF n
  <2>3. \A k \in 1 .. Len(Items) : \A l \in 1 .. k : Items[l] \notin CountOf[Items[k]]
    BY <1>2, <2>1, Zenon
  <2>4. QED
    BY <1>1, <2>1, <2>2, <2>3, Zenon

\* What is made next is added to what is there: nothing that was written is
\* lost with it.
LEMMA MakesNext ==
    ASSUME NEW k \in 0 .. Len(Items) - 1, makes = SubSeq(Items, k + 1, Len(Items)),
           repo = {Items[l] : l \in 1 .. k}
    PROVE  /\ Tail(makes) = SubSeq(Items, k + 2, Len(Items))
           /\ Made(makes[1]) = {Items[l] : l \in 1 .. k + 1}
<1>1. k \in 0 .. Len(Items) /\ k < Len(Items) /\ k + 1 \in 1 .. Len(Items)
    BY PartsAre
<1>2. makes[1] = Items[k + 1] /\ Tail(makes) = SubSeq(Items, k + 2, Len(Items))
    BY <1>1, PartsAre, RestOfSeq
<1> DEFINE item == Items[k + 1]
<1>3. \A l \in 1 .. k : Items[l] \notin CountOf[item]
    BY <1>1, PartsAre
<1>4. repo \ CountOf[item] = repo
    BY <1>3
<1>5. {Items[l] : l \in 1 .. k + 1} = {Items[l] : l \in 1 .. k} \union {item}
  <2>1. 1 .. k + 1 = (1 .. k) \union {k + 1}
    BY <1>1, PartsAre
  <2>2. QED
    BY <2>1
<1>6. QED
    BY <1>2, <1>4, <1>5 DEF Made

\* All of them are the whole repository.
LEMMA WholeIsItems == Whole = {Items[l] : l \in 1 .. Len(Items)} /\ ".peg" \in Whole
<1>1. Whole = {Items[l] : l \in 1 .. Len(Items)}
    BY PartsAre DEF Whole, Range
<1>2. QED
    BY <1>1, PartsAre

\* Before there is a process, MakeInv holds.
LEMMA MakeInit == Init => MakeInv
BY WholeIsItems DEF Init, MakeInv, None

\* Each step of a process preserves MakeInv.
LEMMA MakeStep == ProcessInv /\ MakeInv /\ [Next]_vars => MakeInv'
<1> SUFFICES ASSUME ProcessInv, MakeInv, [Next]_vars
             PROVE  MakeInv'
    OBVIOUS
<1>1. Whole = {Items[l] : l \in 1 .. Len(Items)}
    BY WholeIsItems
<1>2. ASSUME UNCHANGED <<repo, makers>>, pc' # "create", call' # [does |-> "created"]
      PROVE  MakeInv'
    BY <1>2 DEF MakeInv
<1>3. ASSUME UNCHANGED <<repo, makers, pc, makes, runs, call>>
      PROVE  MakeInv'
    BY <1>3 DEF MakeInv, MadeUpTo
<1>4. pc # "done" => call = None
    BY DEF ProcessInv
<1> USE DEF create
<1>5. CASE Run \/ Exit
    BY <1>2, <1>4, <1>5 DEF Run, Exit, None
<1>6. ASSUME NEW how \in {"help", "die", "nothing", "crash"}, Stop(how)
      PROVE  MakeInv'
    BY <1>2, <1>6 DEF Stop
<1>7. CASE MainHelp \/ NotARepository \/ NoEnvironment \/ SayNo
    BY <1>6, <1>7 DEF MainHelp, NotARepository, NoEnvironment, SayNo
<1>8. CASE ReadConfiguration
    BY <1>2, <1>4, <1>6, <1>8 DEF ReadConfiguration, Startable, None
<1>9. CASE ParseConfiguration
    BY <1>3, <1>9 DEF ParseConfiguration, process
<1>10. CASE Environment \/ SayYes \/ FindCommand
    BY <1>2, <1>4, <1>10 DEF Environment, SayYes, FindCommand, GoTo, None
<1>11. CASE Propose
    BY <1>2, <1>4, <1>6, <1>11 DEF Propose, None
<1>12. CASE ParseArguments
  <2>1. call' \in Calls /\ pc' = "done" /\ UNCHANGED <<repo, makers>>
    BY <1>12 DEF ParseArguments
  <2>2. CASE repo = Whole
    BY <2>1, <2>2 DEF MakeInv
  <2>3. CASE repo # Whole
    BY <1>2, <2>1, <2>3 DEF Calls, Dies, Nothing
  <2>4. QED
    BY <2>2, <2>3
<1>13. CASE BeginCreate
  <2>1. CASE ParseCreate(run.args).outcome = "ok"
    <3>1. /\ makes' = Items /\ pc' = "create" /\ call' = None
          /\ UNCHANGED <<repo, makers, runs>>
        BY <1>4, <1>13, <2>1 DEF BeginCreate
    <3>2. Items = SubSeq(Items, 0 + 1, Len(Items)) /\ 0 \in 0 .. Len(Items)
        BY PartsAre, RestOfSeq
    <3>3. MadeUpTo(0)'
        BY <3>1, <3>2 DEF MadeUpTo
    <3>4. QED
        BY <3>1, <3>2, <3>3 DEF MakeInv, None
  <2>2. CASE ParseCreate(run.args).outcome # "ok"
    <3>1. pc = "parse" /\ Stop(ParseCreate(run.args).outcome)
        BY <1>13, <2>2 DEF BeginCreate
    <3>2. run.args \in Seq(Range(run.args))
        BY <3>1, AnInvocation DEF ProcessInv
    <3>3. ParseCreate(run.args).outcome # "created"
        BY <3>2, ParsedForCreate
    <3>4. QED
        BY <1>2, <3>1, <3>3 DEF Stop
  <2>3. QED
    BY <2>1, <2>2
<1>14. CASE Make
  <2>1. /\ pc = "create" /\ makes # <<>> /\ ~Refused /\ repo' = Made(makes[1])
        /\ makes' = Tail(makes) /\ makers' = makers \union {runs}
        /\ UNCHANGED <<pc, runs, call>>
    BY <1>14 DEF Make, MakeItem
  <2>2. PICK k \in 0 .. Len(Items) : MadeUpTo(k)
    BY <2>1 DEF MakeInv
  <2>3. k \in 0 .. Len(Items) - 1 /\ k + 1 \in 1 .. Len(Items)
    <3>1. k # Len(Items)
        BY <2>1, <2>2, PartsAre, RestOfSeq DEF MadeUpTo
    <3>2. QED
        BY <3>1, PartsAre
  <2>4. k = 0 => repo = {} /\ makers = {}
    <3> SUFFICES ASSUME k = 0
                 PROVE  ".peg" \notin repo
        BY DEF MakeInv
    <3>1. makes[1] = ".peg"
      <4>1. makes = Items
        BY <2>2, PartsAre, RestOfSeq DEF MadeUpTo
      <4>2. QED
        BY <4>1, PartsAre
    <3>2. ".peg" \in Range(Directories)
      <4>1. Directories[1] = ".peg" /\ 1 \in DOMAIN Directories
        BY DEF Directories
      <4>2. QED
        BY <4>1, Zenon DEF Range
    <3>3. QED
        BY <2>1, <3>1, <3>2 DEF Refused
  <2>5. repo = {Items[l] : l \in 1 .. k} /\ makers \subseteq {runs}
    BY <2>2, <2>4 DEF MadeUpTo
  <2>6. makes' = SubSeq(Items, k + 2, Len(Items)) /\ repo' = {Items[l] : l \in 1 .. k + 1}
    BY <2>1, <2>2, <2>3, <2>5, MakesNext DEF MadeUpTo
  <2>7. makers' = {runs}
    BY <2>1, <2>5
  <2>8. MadeUpTo(k + 1)'
    <3>1. k + 1 + 1 = k + 2
        BY <2>3
    <3>2. QED
        BY <2>1, <2>6, <2>7, <3>1 DEF MadeUpTo
  <2>9. ".peg" \in repo'
    <3>1. 1 \in 1 .. k + 1
        BY <2>3
    <3>2. QED
        BY <2>6, <3>1, PartsAre
  <2>10. call' # [does |-> "created"]
    BY <1>4, <2>1 DEF None
  <2>11. k + 1 \in 0 .. Len(Items)
    BY <2>3
  <2>12. QED
    BY <2>7, <2>8, <2>9, <2>10, <2>11 DEF MakeInv
<1>15. CASE EndCreate
  <2>1. pc = "create" /\ pc' = "done" /\ UNCHANGED <<repo, makers>>
    BY <1>15 DEF EndCreate
  <2>2. CASE makes = <<>>
    <3>1. PICK k \in 0 .. Len(Items) : MadeUpTo(k)
        BY <2>1 DEF MakeInv
    <3>2. k = Len(Items) /\ k > 0
        BY <2>2, <3>1, PartsAre, RestOfSeq DEF MadeUpTo
    <3>3. repo = Whole
        BY <1>1, <3>1, <3>2 DEF MadeUpTo
    <3>4. QED
        BY <2>1, <3>3 DEF MakeInv
  <2>3. CASE makes # <<>>
    BY <1>2, <1>15, <2>1, <2>3 DEF EndCreate, Dies, Crashes
  <2>4. QED
    BY <2>2, <2>3
<1>16. CASE UNCHANGED vars
    BY <1>3, <1>16 DEF vars, process
<1>17. QED
    BY <1>5, <1>7, <1>8, <1>9, <1>10, <1>11, <1>12, <1>13, <1>14, <1>15, <1>16 DEF Next, Step

\* A repository has its directory, or nothing at all.  At most one process has
\* made that directory, and one that is at create's files has the first of them
\* done: whoever is told that the repository was created finds all of it.
THEOREM MakeInvariant == Spec => []MakeInv
<1>1. QED
    BY ProcessInvariant, MakeInit, MakeStep, PTL DEF Spec

\* A repository is made by one process, and the one that says so has made all
\* of it.
THEOREM OneMakesAll == Spec => []MadeByOne
<1>1. MakeInv => MadeByOne
  <2> SUFFICES ASSUME MakeInv
               PROVE  Cardinality(makers) <= 1
    BY DEF MakeInv, MadeByOne
  <2>1. CASE makers = {}
    <3>1. Cardinality(makers) = 0
        BY <2>1, FS_EmptySet
    <3>2. QED
        BY <3>1
  <2>2. CASE makers # {}
    <3>1. PICK r \in makers : makers = {r}
        BY <2>2 DEF MakeInv
    <3>2. Cardinality(makers) = 1
        BY <3>1, FS_Singleton
    <3>3. QED
        BY <3>2
  <2>3. QED
    BY <2>1, <2>2
<1>2. QED
    BY <1>1, MakeInvariant, PTL

-----------------------------------------------------------------------------
(* The configuration of a process *)

\* Nothing is read: what was read stays.
LEMMA ConfigStays == ConfigInv /\ UNCHANGED config => ConfigInv'
<1> SUFFICES ASSUME ConfigInv, UNCHANGED config
             PROVE  ConfigInv'
    OBVIOUS
<1>1. /\ text' = text /\ pos' = pos /\ curr' = curr /\ node' = node /\ hasKey' = hasKey
      /\ hasValue' = hasValue /\ advances' = advances /\ list' = list /\ parser' = parser
    BY DEF config
<1>2. ConfigType'
    BY <1>1 DEF ConfigInv, ConfigType
<1>3. AtLineEnd => AtLineEnd'
    BY <1>1 DEF AtLineEnd
<1>4. HasDefinition => HasDefinition'
  <2>1. ASSUME HasDefinition
        PROVE  HasDefinition'
    <3>1. hasKey /\ hasValue
        BY <2>1 DEF HasDefinition
    <3>2. PICK b \in Defining(text), e \in Nat :
              /\ IsLine(b, e) /\ pos = e
              /\ node = Definition(LineAt(text, b))
              /\ Listed(text, list, b - 1)
        BY <2>1 DEF HasDefinition
    <3>3. IsLine(b, e)'
        BY <1>1, <3>2, SameLine
    <3>4. b \in Defining(text') /\ pos' = e /\ node' = Definition(LineAt(text', b))
          /\ Listed(text', list', b - 1) /\ hasKey' /\ hasValue'
        BY <1>1, <3>1, <3>2
    <3>5. QED
        BY <3>3, <3>4 DEF HasDefinition
  <2>2. QED
    BY <2>1
<1>5. InDefinition => InDefinition'
  <2>1. ASSUME InDefinition
        PROVE  InDefinition'
    <3>1. hasKey /\ ~hasValue
        BY <2>1 DEF InDefinition
    <3>2. PICK b \in Defining(text), e \in Nat, y \in Nat, g \in Nat, f \in Nat :
              /\ IsLine(b, e) /\ IsShaped(b, e, y, g, f)
              /\ node = [key |-> SubSeq(text, b, y), value |-> <<>>]
              /\ Listed(text, list, b - 1)
              /\ pos = y \/ (curr = "assign" /\ g <= pos /\ pos < f)
        BY <2>1 DEF InDefinition
    <3>3. IsLine(b, e)' /\ IsShaped(b, e, y, g, f)'
        BY <1>1, <3>2, SameLine, SameShape
    <3>4. b \in Defining(text') /\ node' = [key |-> SubSeq(text', b, y), value |-> <<>>]
          /\ Listed(text', list', b - 1) /\ hasKey' /\ ~hasValue'
          /\ (pos' = y \/ (curr' = "assign" /\ g <= pos' /\ pos' < f))
        BY <1>1, <3>1, <3>2
    <3>5. QED
        BY <3>3, <3>4 DEF InDefinition
  <2>2. QED
    BY <2>1
<1>6. ReadInv'
    BY <1>1, <1>3, <1>4, <1>5 DEF ConfigInv, ReadInv
<1>7. QED
    BY <1>2, <1>6 DEF ConfigInv

\* Before there is a process, nothing was read.
LEMMA ConfigInit == Init => ConfigInv
<1> SUFFICES ASSUME Init
             PROVE  ConfigInv
    OBVIOUS
<1>1. /\ text = <<>> /\ pos = 0 /\ node = NewNode /\ hasKey = FALSE /\ hasValue = FALSE
      /\ advances = TRUE /\ list = <<>> /\ parser = "off"
    BY DEF Init, ConfigOff
<1>2. ConfigType
  <2>1. 0 \in 0 .. Len(text) /\ <<>> \in Seq(Node) /\ <<>> \in Seq(Character)
    BY <1>1
  <2>2. NewNode \in Node
    BY <2>1 DEF NewNode, Node
  <2>3. QED
    BY <1>1, <2>1, <2>2 DEF ConfigType
<1>3. ReadInv
    BY <1>1 DEF ReadInv
<1>4. QED
    BY <1>2, <1>3 DEF ConfigInv

\* Each step of a process preserves ConfigInv.
LEMMA ConfigStep == ProcessInv /\ ConfigInv /\ [Next]_vars => ConfigInv'
<1> SUFFICES ASSUME ProcessInv, ConfigInv, [Next]_vars
             PROVE  ConfigInv'
    OBVIOUS
<1>1. CASE UNCHANGED config
    BY <1>1, ConfigStays
<1>2. CASE Exit
  <2>1. StartParser(<<>>, "off")
    BY <1>2 DEF Exit, ForgetConfig
  <2>2. <<>> \in Seq(Character)
    OBVIOUS
  <2>3. QED
    BY <2>1, <2>2, ParserStarts
<1>3. CASE ReadConfiguration
  <2>1. CASE run.config = NoFile
    BY <1>1, <1>3, <2>1 DEF ReadConfiguration, Stop
  <2>2. CASE run.config # NoFile
    <3>1. StartParser(run.config, "reads") /\ pc = "start"
        BY <1>3, <2>2 DEF ReadConfiguration, ReadConfig, Startable
    <3>2. run.config \in Seq(Character)
      <4>1. run \in Invocations
        BY <3>1 DEF ProcessInv
      <4>2. QED
        BY <2>2, <4>1, AnInvocation
    <3>3. QED
        BY <3>1, <3>2, ParserStarts
  <2>3. QED
    BY <2>1, <2>2
<1>4. CASE ParseConfiguration
  <2>1. Parse
    BY <1>4 DEF ParseConfiguration
  <2>2. QED
    BY <2>1, ParseStep
<1>5. CASE Run \/ MainHelp \/ NotARepository \/ NoEnvironment \/ Environment
  <2>1. UNCHANGED config
    BY <1>5 DEF Run, MainHelp, NotARepository, NoEnvironment, Environment, Stop, GoTo
  <2>2. QED
    BY <1>1, <2>1
<1>6. CASE FindCommand \/ Propose \/ SayYes \/ SayNo \/ ParseArguments
  <2>1. UNCHANGED config
    BY <1>6 DEF FindCommand, Propose, SayYes, SayNo, ParseArguments, Stop, GoTo
  <2>2. QED
    BY <1>1, <2>1
<1>7. CASE BeginCreate \/ Make \/ EndCreate
  <2>1. UNCHANGED config
    BY <1>7 DEF BeginCreate, Make, EndCreate, Stop
  <2>2. QED
    BY <1>1, <2>1
<1>8. CASE UNCHANGED vars
    BY <1>1, <1>8 DEF vars
<1>9. QED
    BY <1>2, <1>3, <1>4, <1>5, <1>6, <1>7, <1>8 DEF Next, Step

\* While a well-formed configuration is read, the list has the definitions of
\* the lines read so far, and the parser is between lines, in a definition, or
\* at the end of one.
THEOREM ConfigInvariant == Spec => []ConfigInv
<1>1. Init => ConfigInv
    BY ConfigInit
<1>2. ProcessInv /\ ConfigInv /\ [Next]_vars => ConfigInv'
    BY ConfigStep
<1>3. QED
    BY <1>1, <1>2, ProcessInvariant, PTL DEF Spec

\* For every text: a well-formed configuration is read without complaint, and
\* defines what its lines define, a later line hiding an earlier one
\* (project-config.c:194).
THEOREM ConfigIsRead == Spec => []ConfigRead
<1>1. ConfigInv => ConfigRead
  <2>1. ASSUME ConfigInv, parser \in {"read", "died"}, WellFormed(text)
        PROVE  parser = "read" /\ list = Reverse(Defined(text))
    <3>1. parser = "read" /\ Listed(text, list, Len(text) + 1)
        BY <2>1 DEF ConfigInv, ReadInv
    <3>2. text \in Seq(Character) /\ list \in Seq(Node)
        BY <2>1 DEF ConfigInv, ConfigType
    <3>3. QED
        BY <3>1, <3>2, ListedAll
  <2>2. QED
    BY <2>1 DEF ConfigRead
<1>2. QED
    BY <1>1, ConfigInvariant, PTL

-----------------------------------------------------------------------------
(* What a process that has ended was about to do *)

\* The ways in which a process ends that has not parsed the arguments of a
\* command other than create.
Ends == {"help", "die", "nothing", "crash", "created", "usage", "no name", "bad arguments"}

\* The arguments of a command were parsed, and the process does what they say.
HasParsed ==
    run \in Invocations /\ command \in DOMAIN Commands /\ Type # "create" /\ call \in Calls

\* The inductive invariant: what a process does is what it could parse.
CallInv ==
    /\ pc \in {"start", "config", "find"} => command = 0
    /\ pc = "none" => command = 0
    /\ pc = "create" => Type = "create"
    /\ pc = "done" =>
          \/ HasParsed
          \/ /\ call \in {[does |-> how] : how \in Ends}
             /\ command = 0 \/ Type = "create" \/ call = Nothing

\* Before there is a process, CallInv holds.
LEMMA CallInit == Init => CallInv
BY DEF Init, CallInv

\* A command that stops without parsing.
LEMMA StopsEarly ==
    ASSUME NEW how \in Ends, Stop(how), pc \in {"start", "config", "find"}, CallInv
    PROVE  CallInv'
BY DEF Stop, CallInv

\* What is known of a process holds after its next step.
LEMMA CallStep == ProcessInv /\ CallInv /\ [Next]_vars => CallInv'
<1> SUFFICES ASSUME ProcessInv, CallInv, [Next]_vars
             PROVE  CallInv'
    OBVIOUS
<1> USE DEF process, config, create
<1>1. CASE Run
    BY <1>1 DEF Run, CallInv
<1>2. CASE Exit
    BY <1>2 DEF Exit, CallInv
<1>3. CASE MainHelp \/ NotARepository \/ NoEnvironment
    BY <1>3, StopsEarly DEF MainHelp, NotARepository, NoEnvironment, Startable, Ends
<1>4. CASE SayNo
    BY <1>4 DEF SayNo, Stop, CallInv, Nothing, Ends
<1>5. CASE ReadConfiguration
  <2>1. CASE run.config = NoFile
    BY <1>5, <2>1, StopsEarly DEF ReadConfiguration, Startable, Ends
  <2>2. CASE run.config # NoFile
    BY <1>5, <2>2 DEF ReadConfiguration, Startable, CallInv
  <2>3. QED
    BY <2>1, <2>2
<1>6. CASE ParseConfiguration
    BY <1>6 DEF ParseConfiguration, CallInv
<1>7. CASE Environment
    BY <1>7 DEF Environment, GoTo, CallInv
<1>8. CASE SayYes
    BY <1>8 DEF SayYes, GoTo, CallInv
<1>9. CASE FindCommand
    BY <1>9 DEF FindCommand, CallInv
<1>10. CASE Propose
  <2>1. CASE Proposal[run.word] = 0
    BY <1>10, <2>1, StopsEarly DEF Propose, Ends
  <2>2. CASE Proposal[run.word] # 0
    BY <1>10, <2>2 DEF Propose, CallInv
  <2>3. QED
    BY <2>1, <2>2
<1>11. CASE ParseArguments
  <2>1. pc = "parse" /\ run \in Invocations /\ command \in DOMAIN Commands
    BY <1>11 DEF ParseArguments, ProcessInv
  <2>2. Type # "create" /\ call' \in Calls /\ pc' = "done"
        /\ UNCHANGED <<config, repo, makes, greeted, run, runs, command, makers>>
    BY <1>11 DEF ParseArguments
  <2>3. Type' = Type
    BY <2>2 DEF Type
  <2>4. UNCHANGED <<run, command, repo>>
    BY <2>2
  <2>5. Calls' = Calls
    BY <2>3, <2>4 DEF Calls, CallsWith, ReadFirst, MakeCommitList, CommitIdx
  <2>6. HasParsed'
    BY <2>1, <2>2, <2>3, <2>5 DEF HasParsed
  <2>7. QED
    BY <2>2, <2>6 DEF CallInv
<1>12. CASE BeginCreate
  <2>1. pc = "parse" /\ Type = "create" /\ run \in Invocations
    BY <1>12 DEF BeginCreate, ProcessInv
  <2>2. CASE ParseCreate(run.args).outcome = "ok"
    BY <1>12, <2>1, <2>2 DEF BeginCreate, CallInv, Type
  <2>3. CASE ParseCreate(run.args).outcome # "ok"
    <3>1. ParseCreate(run.args).outcome \in Ends
        BY <2>1, <2>3, AnInvocation, ParsedForCreate DEF Ends
    <3>2. Stop(ParseCreate(run.args).outcome)
        BY <1>12, <2>3 DEF BeginCreate
    <3>3. QED
        BY <2>1, <3>1, <3>2 DEF Stop, CallInv, Type
  <2>4. QED
    BY <2>2, <2>3
<1>13. CASE Make
    BY <1>13 DEF Make, CallInv, Type
<1>14. CASE EndCreate
  <2>1. Type = "create" /\ Type' = Type /\ pc' = "done"
    BY <1>14 DEF EndCreate, CallInv, Type
  <2>2. call' \in {[does |-> how] : how \in Ends}
    BY <1>14 DEF EndCreate, Ends, Dies, Crashes
  <2>3. QED
    BY <2>1, <2>2 DEF CallInv
<1>15. CASE UNCHANGED vars
  <2>1. UNCHANGED <<pc, run, command, call, repo, runs>>
    BY <1>15 DEF vars
  <2>2. Type' = Type
    BY <2>1 DEF Type
  <2>3. Calls' = Calls
    BY <2>1, <2>2 DEF Calls, CallsWith, ReadFirst, MakeCommitList, CommitIdx
  <2>4. QED
    BY <2>1, <2>2, <2>3 DEF CallInv, HasParsed
<1>16. QED
    BY <1>1, <1>2, <1>3, <1>4, <1>5, <1>6, <1>7, <1>8, <1>9, <1>10, <1>11, <1>12, <1>13,
       <1>14, <1>15 DEF Next, Step

\* A process that ended did what the arguments of its command say, or stopped
\* before it could.
THEOREM CallInvariant == Spec => []CallInv
<1>1. QED
    BY ProcessInvariant, CallInit, CallStep, PTL DEF Spec

-----------------------------------------------------------------------------
(* What each command may be about to do *)

\* What is about to be done was parsed, by a process that got `reading' of the
\* commits.
Acts(reading) ==
    /\ run \in Invocations /\ command \in DOMAIN Commands /\ Type # "create"
    /\ repo = Whole
    /\ reading \in Readings(CommitIdx(run.commits, run.cut))
    /\ call \in CallsWith(reading)

\* Nothing is done: the process ends as it is.
Idle ==
    /\ call \in {[does |-> how] : how \in Ends}
    /\ command = 0 \/ Type = "create" \/ call = Nothing \/ repo # Whole

\* A process that ended does something for what it was given, or nothing.
LEMMA ActsOrIdle ==
    ASSUME CallInv, pc = "done"
    PROVE  Idle \/ \E reading : Acts(reading)
<1>1. CASE HasParsed
  <2>1. CASE repo # Whole
    <3>1. call \in {Dies, Nothing}
        BY <1>1, <2>1 DEF HasParsed, Calls
    <3>2. QED
        BY <2>1, <3>1 DEF Idle, Dies, Nothing, Ends
  <2>2. CASE repo = Whole
    <3> DEFINE h == <<run.commits, run.cut>>
    <3>1. call \in UNION {CallsWith(reading) : reading \in MakeCommitList[<<run.commits, run.cut>>]}
        BY <1>1, <2>2 DEF HasParsed, Calls
    <3>2. h \in {<<r.commits, r.cut>> : r \in Invocations} /\ h[1] = run.commits /\ h[2] = run.cut
        BY <1>1 DEF HasParsed
    <3>3. MakeCommitList[h] = Readings(CommitIdx(h[1], h[2]))
        BY <3>2, Zenon DEF MakeCommitList
    <3>4. MakeCommitList[<<run.commits, run.cut>>] = Readings(CommitIdx(run.commits, run.cut))
        BY <3>2, <3>3
    <3>5. QED
        BY <1>1, <2>2, <3>1, <3>4 DEF HasParsed, Acts
  <2>3. QED
    BY <2>1, <2>2
<1>2. CASE ~ HasParsed
    BY <1>2 DEF CallInv, Idle
<1>3. QED
    BY <1>1, <1>2

\* An invocation as the lemmas want it.
LEMMA InvocationIs ==
    ASSUME NEW reading, Acts(reading)
    PROVE  /\ AreArguments(run.args)
           /\ run.commits \in Seq(Range(run.commits)) /\ run.cut \in Nat
           /\ \A c \in Range(run.commits) : Len(c.name) \in Nat /\ Len(c.email) \in Nat
           /\ ReadBack(reading, run.commits, run.cut)
<1>1. run \in Invocations
    BY DEF Acts
<1>2. AreArguments(run.args)
    BY <1>1, AnInvocation DEF AreArguments, IsText
<1>3. run.commits \in Seq(Range(run.commits)) /\ run.cut \in Nat
    BY <1>1, AnInvocation
<1>4. ASSUME NEW c \in Range(run.commits)
      PROVE  Len(c.name) \in Nat /\ Len(c.email) \in Nat
  <2>1. c.name \in Seq(Range(c.name)) /\ c.email \in Seq(Range(c.email))
    BY <1>1, AnInvocation DEF IsText
  <2>2. QED
    BY <2>1
<1>5. reading \in Readings(SubSeq(WriteList(run.commits), 1, Len(WriteList(run.commits)) - run.cut))
    BY Zenon DEF Acts, CommitIdx
<1>6. ReadBack(reading, run.commits, run.cut)
    BY <1>3, <1>5, ReadingsAre
<1>7. QED
    BY <1>2, <1>3, <1>4, <1>6

-----------------------------------------------------------------------------
(* What each parser may want to be done *)

\* What head may be about to do.
LEMMA HeadDoes ==
    ASSUME NEW cl, NEW args
    PROVE  ParseHead(cl, args).does \in {"nothing", "die", "crash", "head"}
BY DEF ParseHead, Nothing, Dies, Crashes

\* What tag may be about to do.
LEMMA TagDoes ==
    ASSUME NEW cl, NEW args
    PROVE  ParseTag(cl, args).does \in {"nothing", "die", "tag"} /\ Tags(cl).does = "tags"
BY DEF ParseTag, Nothing, Dies, Tags

\* What commit may be about to do.
LEMMA CommitDoes ==
    ASSUME NEW args
    PROVE  /\ ParseCommit(args).does \in {"nothing", "log", "quiet log", "die", "commit"}
           /\ ParseCommit(args).does = "nothing" => ParseCommit(args) = Nothing
           /\ ParseCommit(args).does = "log" => ParseCommit(args) = [does |-> "log"]
<1>1. \/ ParseCommit(args) \in {Nothing, [does |-> "log"], [does |-> "quiet log"], Dies}
      \/ \E m, g : ParseCommit(args) = [does |-> "commit", message |-> m, given |-> g]
    BY Zenon DEF ParseCommit
<1> DEFINE c == ParseCommit(args)
           Sorts(v) == /\ v.does \in {"nothing", "log", "quiet log", "die", "commit"}
                       /\ v.does = "nothing" => v = Nothing
                       /\ v.does = "log" => v = [does |-> "log"]
<1>2. Sorts(Nothing) /\ Sorts(Dies)
    BY DEF Nothing, Dies
<1>3. Sorts([does |-> "log"]) /\ Sorts([does |-> "quiet log"])
    OBVIOUS
<1>4. ASSUME NEW m, NEW g
      PROVE  Sorts([does |-> "commit", message |-> m, given |-> g])
    OBVIOUS
<1> HIDE DEF c, Sorts
<1>5. Sorts(c)
    BY <1>1, <1>2, <1>3, <1>4, Zenon DEF c
<1>6. QED
    BY <1>5, Zenon DEF c, Sorts

\* What compare may be about to do.
LEMMA CompareDoes ==
    ASSUME NEW cl, NEW tree, NEW args
    PROVE  ParseCompare(cl, tree, args).does \in
                {"die", "nothing", "crash", "compare", "compare file", "compare dir"}
<1>1. ASSUME NEW v, NEW w
      PROVE  /\ CompareCommits(cl, v, w).does \in {"nothing", "die", "compare"}
             /\ CompareWithHead(cl, w).does \in {"die", "crash", "compare"}
    BY DEF CompareCommits, CompareWithHead, Nothing, Dies, Crashes
<1> DEFINE all == CompareParsed(tree, args)[Len(args)]
<1>2. \/ ParseCompare(cl, tree, args) = Dies
      \/ ParseCompare(cl, tree, args) = CompareWithHead(cl, all.hashes[1])
      \/ ParseCompare(cl, tree, args) = CompareCommits(cl, all.hashes[1], all.hashes[2])
      \/ ParseCompare(cl, tree, args) = [does |-> IF all.deep THEN "compare dir" ELSE "compare file",
                                         path |-> all.path]
      \/ ParseCompare(cl, tree, args) = [does |-> "compare dir", path |-> <<".">>]
    BY Zenon DEF ParseCompare
<1> HIDE DEF all
<1>3. QED
  <2> DEFINE kind == IF all.deep THEN "compare dir" ELSE "compare file"
             known == {"die", "nothing", "crash", "compare", "compare file", "compare dir"}
  <2>1. /\ Dies.does \in known /\ kind \in known
        /\ CompareCommits(cl, all.hashes[1], all.hashes[2]).does \in known
        /\ CompareWithHead(cl, all.hashes[1]).does \in known
    BY <1>1 DEF Dies
  <2> HIDE DEF kind
  <2>2. ([does |-> kind, path |-> all.path]).does \in known
        /\ ([does |-> "compare dir", path |-> <<".">>]).does \in known
    BY <2>1
  <2> HIDE DEF known
  <2>3. ParseCompare(cl, tree, args).does \in known
    BY <1>2, <2>1, <2>2, Zenon DEF kind
  <2>4. QED
    BY <2>3 DEF known

\* What insert may be about to do.
LEMMA InsertDoes ==
    ASSUME NEW tree, NEW args
    PROVE  ParseInsert(tree, args).does \in {"die", "insert"}
<1>1. \/ ParseInsert(tree, args) = Dies
      \/ \E x, y, z : ParseInsert(tree, args) =
                        [does |-> "insert", all |-> x, patterns |-> y, picks |-> z]
    BY Zenon DEF ParseInsert
<1>2. QED
    BY <1>1 DEF Dies

\* What revert may be about to do.
LEMMA RevertDoes ==
    ASSUME NEW cl, NEW tree, NEW args, NEW stale, NEW mixed, AreArguments(args)
    PROVE  ParseRevert(cl, tree, args, stale, mixed).does \in {"nothing", "die", "crash", "revert"}
<1> DEFINE all == RevertParsed(cl, tree, args, stale, mixed)[Len(args)]
           call0 == ParseRevert(cl, tree, args, stale, mixed)
<1>1. all \in RevertStates(tree, args, stale)
    BY RevertsFirst
<1>2. all.ends \in {Nothing, Dies, Crashes}
    BY <1>1 DEF RevertStates
<1>3. \/ call0 \in {all.ends, Dies}
      \/ \E x, y, z, w : call0 = [does |-> "revert", files |-> x, dirs |-> y, from |-> z, hard |-> w]
    BY Zenon DEF ParseRevert
<1> HIDE DEF all, call0
<1>4. call0.does \in {"nothing", "die", "crash", "revert"}
    BY <1>2, <1>3 DEF Nothing, Dies, Crashes
<1>5. QED
    BY <1>4 DEF call0

\* What list may be about to do.
LEMMA ListDoes ==
    ASSUME NEW cl, NEW args
    PROVE  ParseList(cl, args).does \in {"nothing", "die", "list html", "crash", "list"}
<1>1. \/ ParseList(cl, args) \in {Nothing, Dies, Crashes}
      \/ \E x : ParseList(cl, args) = [does |-> "list html", rows |-> x]
      \/ \E x, y : ParseList(cl, args) = [does |-> "list", commit |-> x, rows |-> y]
    BY Zenon DEF ParseList
<1> DEFINE known == {"nothing", "die", "list html", "crash", "list"}
<1>2. "nothing" \in known /\ "die" \in known /\ "crash" \in known /\ "list html" \in known
      /\ "list" \in known
    BY Zenon
<1> HIDE DEF known
<1>3. Nothing.does \in known /\ Dies.does \in known /\ Crashes.does \in known
    BY <1>2 DEF Nothing, Dies, Crashes
<1>4. ASSUME NEW x, NEW y
      PROVE  /\ ([does |-> "list html", rows |-> x]).does \in known
             /\ ([does |-> "list", commit |-> x, rows |-> y]).does \in known
    BY <1>2
<1>5. ParseList(cl, args).does \in known
    BY <1>1, <1>3, <1>4, Zenon
<1>6. QED
    BY <1>5 DEF known

\* What log, show and status are about to do.
LEMMA OthersDo ==
    ASSUME NEW cl, NEW reading, NEW stage, NEW args, NEW found
    PROVE  /\ Log(cl).does = "log"
           /\ ParseShow(reading, stage, args).does = "show"
           /\ StatusLists(found).does = "status"
BY DEF Log, ParseShow, StatusLists

-----------------------------------------------------------------------------
(* Who does what *)

\* What each kind of act was parsed by.
Parsed(reading) ==
    LET cl == reading.commits
        args == run.args
    IN  /\ call.does \in {"compare", "compare file", "compare dir"} =>
              call = ParseCompare(cl, run.tree, args)
        /\ call.does = "head" => call = ParseHead(cl, args) /\ reading.readable
        /\ call.does = "tag" => call = ParseTag(cl, args) /\ args # <<>> /\ reading.readable
        /\ call.does = "log" => call = Log(cl) /\ reading.readable
        /\ call.does \in {"list", "list html"} => call = ParseList(cl, args) /\ reading.readable
        /\ call.does = "insert" => call = ParseInsert(run.tree, args) /\ reading.readable
        /\ call.does = "revert" =>
              /\ reading.readable
              /\ \E stale \in {"file", "dir", "other"}, mixed \in BOOLEAN :
                    call = ParseRevert(cl, run.tree, args, stale, mixed)
        /\ call.does \in {"tags", "commit", "quiet log"} => reading.readable

\* The same, for a process that has not been refused the commits.
OneOf(reading) ==
    LET cl == reading.commits
        args == run.args
    IN  \/ call \in {Dies, Crashes}
        \/ Type = "head" /\ call = ParseHead(cl, args)
        \/ Type = "tag" /\ args = <<>> /\ call = Tags(cl)
        \/ Type = "tag" /\ args # <<>> /\ call = ParseTag(cl, args)
        \/ Type = "commit" /\ ParseCommit(args) = [does |-> "log"] /\ call = Log(cl)
        \/ Type = "commit" /\ ParseCommit(args) # [does |-> "log"] /\ call = ParseCommit(args)
        \/ Type \in {"compare", "see"} /\ call = ParseCompare(cl, run.tree, args)
        \/ Type = "insert" /\ call = ParseInsert(run.tree, args)
        \/ Type = "revert" /\ \E stale \in {"file", "dir", "other"}, mixed \in BOOLEAN :
                                    call = ParseRevert(cl, run.tree, args, stale, mixed)
        \/ Type = "hist" /\ call = Log(cl)
        \/ Type = "list" /\ call = ParseList(cl, args)
        \/ Type = "show" /\ call = ParseShow(reading, run.stage, args)
        \/ Type = "status" /\ call = StatusLists(run.found)
        \/ Type \in {"reset", "checkout", "replay", "help"} /\ call = [does |-> Type]

\* What is about to be done is what one of the commands does, and nothing when
\* the commits cannot be read by a command that reads them first.
LEMMA OneDoes ==
    ASSUME NEW reading, Acts(reading)
    PROVE  OneOf(reading) /\ (~reading.readable /\ ReadFirst => call = Dies)
<1>1. Type \in Types \ {"create"}
  <2>1. CommandTypes \in Seq(Types) /\ command \in DOMAIN CommandTypes
    BY CommandLineAssumption DEF Acts
  <2>2. CommandTypes[command] \in Types
    BY <2>1
  <2>3. QED
    BY <2>2 DEF Acts, Type
<1>2. call \in CallsWith(reading)
    BY DEF Acts
<1>3. CASE ~reading.readable /\ ReadFirst
    BY <1>2, <1>3 DEF CallsWith, OneOf
<1>4. CASE ~(~reading.readable /\ ReadFirst)
  <2>1. CASE call = Crashes
    BY <1>4, <2>1 DEF OneOf
  <2>2. CASE call # Crashes
    BY <1>1, <1>2, <1>4, <2>2 DEF CallsWith, OneOf, Types
  <2>3. QED
    BY <2>1, <2>2
<1>5. QED
    BY <1>3, <1>4

-----------------------------------------------------------------------------
(* Whose arguments were parsed *)

\* What is about to be done tells whose arguments were parsed.
LEMMA ParsedIs ==
    ASSUME NEW reading, Acts(reading)
    PROVE  Parsed(reading)
<1> DEFINE cl == reading.commits
           args == run.args
           K == {"compare", "compare file", "compare dir"}
           L == {"list", "list html"}
           M == {"tags", "commit", "quiet log"}
<1>1. OneOf(reading) /\ (~reading.readable /\ ReadFirst => call = Dies)
    BY OneDoes
<1>2. AreArguments(args)
    BY InvocationIs
<1>3. Dies.does = "die" /\ Crashes.does = "crash" /\ Nothing.does = "nothing"
    BY DEF Dies, Crashes, Nothing
<1>4. /\ "compare" \in K /\ "compare file" \in K /\ "compare dir" \in K
      /\ "list" \in L /\ "list html" \in L
      /\ "tags" \in M /\ "commit" \in M /\ "quiet log" \in M
      /\ \A s \in {"die", "crash", "nothing", "help", "show", "status", "reset", "checkout", "replay",
                   "insert", "revert", "head", "tag", "log"} :
                s \notin K /\ s \notin L /\ s \notin M
      /\ K \intersect L = {} /\ K \intersect M = {} /\ L \intersect M = {}
    BY Zenon
<1>5. Parsed(reading) <=>
        /\ call.does \in K => call = ParseCompare(cl, run.tree, args)
        /\ call.does = "head" => call = ParseHead(cl, args) /\ reading.readable
        /\ call.does = "tag" => call = ParseTag(cl, args) /\ args # <<>> /\ reading.readable
        /\ call.does = "log" => call = Log(cl) /\ reading.readable
        /\ call.does \in L => call = ParseList(cl, args) /\ reading.readable
        /\ call.does = "insert" => call = ParseInsert(run.tree, args) /\ reading.readable
        /\ call.does = "revert" =>
              /\ reading.readable
              /\ \E stale \in {"file", "dir", "other"}, mixed \in BOOLEAN :
                    call = ParseRevert(cl, run.tree, args, stale, mixed)
        /\ call.does \in M => reading.readable
    BY DEF Parsed
<1> HIDE DEF K, L, M
<1>6. CASE call \in {Dies, Crashes}
  <2>1. call.does \in {"die", "crash"}
    BY <1>3, <1>6
  <2>2. QED
    BY <1>4, <1>5, <2>1
<1>7. CASE Type = "head" /\ call = ParseHead(cl, args)
  <2>1. call.does \in {"nothing", "die", "crash", "head"} /\ (reading.readable \/ call.does = "die")
    BY <1>1, <1>3, <1>7, HeadDoes DEF ReadFirst
  <2>2. QED
    BY <1>4, <1>5, <1>7, <2>1
<1>8. CASE Type = "tag" /\ args = <<>> /\ call = Tags(cl)
  <2>1. call.does = "tags" /\ (reading.readable \/ call.does = "die")
    BY <1>1, <1>3, <1>8, TagDoes DEF ReadFirst
  <2>2. QED
    BY <1>4, <1>5, <1>8, <2>1
<1>9. CASE Type = "tag" /\ args # <<>> /\ call = ParseTag(cl, args)
  <2>1. call.does \in {"nothing", "die", "tag"} /\ (reading.readable \/ call.does = "die")
    BY <1>1, <1>3, <1>9, TagDoes DEF ReadFirst
  <2>2. QED
    BY <1>4, <1>5, <1>9, <2>1
<1>10. CASE Type = "commit" /\ ParseCommit(args) = [does |-> "log"] /\ call = Log(cl)
  <2>1. ParseCommit(args).does = "log"
    BY <1>10
  <2>2. ParseCommit(args) # Nothing
    BY <1>3, <2>1
  <2>3. call.does = "log" /\ (reading.readable \/ call.does = "die")
    BY <1>1, <1>3, <1>10, <2>2, OthersDo DEF ReadFirst
  <2>4. QED
    BY <1>4, <1>5, <1>10, <2>3
<1>11. CASE Type = "commit" /\ ParseCommit(args) # [does |-> "log"] /\ call = ParseCommit(args)
  <2>1. call.does \in {"nothing", "log", "quiet log", "die", "commit"}
        /\ (reading.readable \/ call.does = "die" \/ call.does = "nothing")
    BY <1>1, <1>3, <1>11, CommitDoes DEF ReadFirst
  <2>2. call.does # "log"
    BY <1>11, CommitDoes
  <2>3. QED
    BY <1>4, <1>5, <1>11, <2>1, <2>2
<1>12. CASE Type \in {"compare", "see"} /\ call = ParseCompare(cl, run.tree, args)
  <2>1. call.does \in {"die", "nothing", "crash"} \union K
    BY <1>12, CompareDoes, Zenon DEF K
  <2>2. QED
    BY <1>4, <1>5, <1>12, <2>1
<1>13. CASE Type = "insert" /\ call = ParseInsert(run.tree, args)
  <2>1. call.does \in {"die", "insert"} /\ (reading.readable \/ call.does = "die")
    BY <1>1, <1>3, <1>13, InsertDoes DEF ReadFirst
  <2>2. QED
    BY <1>4, <1>5, <1>13, <2>1
<1>14. CASE Type = "revert" /\ \E stale \in {"file", "dir", "other"}, mixed \in BOOLEAN :
                                    call = ParseRevert(cl, run.tree, args, stale, mixed)
  <2>1. call.does \in {"nothing", "die", "crash", "revert"} /\ (reading.readable \/ call.does = "die")
    BY <1>1, <1>2, <1>3, <1>14, RevertDoes DEF ReadFirst
  <2>2. QED
    BY <1>4, <1>5, <1>14, <2>1
<1>15. CASE Type = "hist" /\ call = Log(cl)
  <2>1. call.does = "log" /\ (reading.readable \/ call.does = "die")
    BY <1>1, <1>3, <1>15, OthersDo DEF ReadFirst
  <2>2. QED
    BY <1>4, <1>5, <1>15, <2>1
<1>16. CASE Type = "list" /\ call = ParseList(cl, args)
  <2>1. call.does \in {"nothing", "die", "crash"} \union L /\ (reading.readable \/ call.does = "die")
    <3>1. call.does \in {"nothing", "die", "crash"} \union L
        BY <1>16, ListDoes, Zenon DEF L
    <3>2. QED
        BY <1>1, <1>3, <1>16, <3>1 DEF ReadFirst
  <2>2. QED
    BY <1>4, <1>5, <1>16, <2>1
<1>17. CASE (Type = "show" /\ call = ParseShow(reading, run.stage, args))
            \/ (Type = "status" /\ call = StatusLists(run.found))
            \/ (Type \in {"reset", "checkout", "replay", "help"} /\ call = [does |-> Type])
  <2>1. call.does \in {"show", "status", "reset", "checkout", "replay", "help"}
    BY <1>17, OthersDo
  <2>2. QED
    BY <1>4, <1>5, <2>1
<1>18. QED
    BY <1>1, <1>6, <1>7, <1>8, <1>9, <1>10, <1>11, <1>12, <1>13, <1>14, <1>15, <1>16, <1>17,
       Zenon DEF OneOf

-----------------------------------------------------------------------------
(* What was written is read *)

\* Rows that agree but for the last one.
AlikeRows(v, w, n, U) ==
    n \in Nat \ {0} /\ v \in [1 .. n -> U] /\ w \in [1 .. n -> U]
    /\ \A i \in 1 .. n - 1 : v[i] = w[i]

\* Rows that agree but for the last one are the same without it.
LEMMA AllButLast ==
    ASSUME NEW U, NEW n, NEW v, NEW w, AlikeRows(v, w, n, U)
    PROVE  Front(v) = Front(w) /\ Last(v) = v[n] /\ Last(w) = w[n]
<1>0. n \in Nat \ {0} /\ v \in [1 .. n -> U] /\ w \in [1 .. n -> U]
      /\ \A i \in 1 .. n - 1 : v[i] = w[i]
    BY DEF AlikeRows
<1>1. v \in Seq(U) /\ w \in Seq(U) /\ Len(v) = n /\ Len(w) = n
    BY <1>0
<1>2. Last(v) = v[n] /\ Last(w) = w[n]
    BY <1>1, Zenon DEF Last
<1> DEFINE m == n - 1
           f == SubSeq(v, 1, m)
           g == SubSeq(w, 1, m)
<1>3. Front(v) = f /\ Front(w) = g
    BY <1>1, Zenon DEF Front
<1>4. 1 \in Int /\ m \in Int /\ m \in Nat /\ \A i \in 1 .. m : i \in 1 .. n
    BY <1>0
<1>5. (\A i \in 1 .. m : v[i] = w[i]) /\ (\A i \in 1 .. m : v[i] \in U /\ w[i] \in U)
    BY <1>0, <1>4
<1> HIDE DEF m
<1>6. /\ f \in Seq(U) /\ Len(f) = (IF 1 <= m THEN m - 1 + 1 ELSE 0)
      /\ \A i \in 1 .. m - 1 + 1 : f[i] = v[1 + i - 1]
    BY <1>4, <1>5, SubSeqProperties
<1>7. /\ g \in Seq(U) /\ Len(g) = (IF 1 <= m THEN m - 1 + 1 ELSE 0)
      /\ \A i \in 1 .. m - 1 + 1 : g[i] = w[1 + i - 1]
    BY <1>4, <1>5, SubSeqProperties
<1> HIDE DEF f, g
<1>8. Len(f) = m /\ Len(g) = m
    BY <1>4, <1>6, <1>7
<1>9. \A i \in 1 .. m : f[i] = g[i]
    BY <1>4, <1>5, <1>6, <1>7
<1>10. f = g
    BY <1>6, <1>7, <1>8, <1>9, SeqEqual
<1>11. QED
    BY <1>2, <1>3, <1>10

\* A row of hist.
RowOf(c) ==
    [hash |-> c.hash, tag |-> c.tag, message |-> c.message, desc |-> c.desc,
     name |-> c.name, email |-> c.email, stamp |-> c.stamp]

\* log shows a row for each commit of the list.
LEMMA LogIs ==
    ASSUME NEW cl, NEW n \in Nat, DOMAIN cl = 1 .. n
    PROVE  Log(cl) = [does |-> "log", rows |-> [k \in 1 .. n |-> RowOf(cl[k])]]
BY DEF Log, RowOf

\* What hist shows of commits that were read back.
LEMMA LogReadBack ==
    ASSUME NEW reading, NEW commits, commits \in Seq(Range(commits)), NEW cut \in Nat,
           ReadBack(reading, commits, cut), reading.readable
    PROVE  IF cut = 0 THEN Log(reading.commits) = Log(commits)
           ELSE Log(reading.commits).rows # <<>> =>
                    /\ Front(Log(reading.commits).rows) = Front(Log(commits).rows)
                    /\ Last(Log(reading.commits).rows).hash = Last(commits).hash
<1> DEFINE cl == reading.commits
           n == Len(commits)
           F == [k \in 1 .. n |-> RowOf(cl[k])]
           G == [k \in 1 .. n |-> RowOf(commits[k])]
<1>1. n \in Nat /\ DOMAIN commits = 1 .. n
    BY LenProperties
<1>2. reading # Unreadable
    BY DEF Unreadable
<1>3. CASE cl = <<>> /\ cut # 0
  <2>1. DOMAIN cl = 1 .. 0
    BY <1>3
  <2>2. Log(cl) = [does |-> "log", rows |-> [k \in 1 .. 0 |-> RowOf(cl[k])]]
    BY <2>1, LogIs
  <2>3. [k \in 1 .. 0 |-> RowOf(cl[k])] = <<>>
    OBVIOUS
  <2>4. Log(cl).rows = <<>>
    BY <2>2, <2>3
  <2>5. QED
    BY <1>3, <2>4
<1>4. CASE ~(cl = <<>> /\ cut # 0)
  <2>1. /\ DOMAIN cl = 1 .. n
        /\ \A k \in 1 .. n : /\ cl[k].hash = commits[k].hash
                             /\ k < n \/ cut = 0 => Same(cl[k], commits[k])
    BY <1>2, <1>4, Zenon DEF ReadBack
  <2> HIDE DEF cl, n
  <2>2. Log(cl) = [does |-> "log", rows |-> F] /\ Log(commits) = [does |-> "log", rows |-> G]
    BY <1>1, <2>1, LogIs
  <2>3. \A k \in 1 .. n : /\ F[k].hash = commits[k].hash
                          /\ k < n \/ cut = 0 => F[k] = G[k]
    <3>1. \A k \in 1 .. n : F[k] = RowOf(cl[k]) /\ G[k] = RowOf(commits[k])
        OBVIOUS
    <3>2. \A k \in 1 .. n : Same(cl[k], commits[k]) => RowOf(cl[k]) = RowOf(commits[k])
        BY DEF Same, RowOf
    <3>3. \A k \in 1 .. n : RowOf(cl[k]).hash = cl[k].hash
        BY DEF RowOf
    <3> HIDE DEF F, G
    <3>4. QED
        BY <2>1, <3>1, <3>2, <3>3
  <2>4. CASE cut = 0
    <3>1. F = G
        BY <2>3, <2>4
    <3>2. QED
        BY <2>2, <2>4, <3>1 DEF cl
  <2>5. CASE cut # 0
    <3> SUFFICES ASSUME Log(cl).rows # <<>>
                 PROVE  /\ Front(Log(cl).rows) = Front(Log(commits).rows)
                        /\ Last(Log(cl).rows).hash = Last(commits).hash
        BY <2>5 DEF cl
    <3>1. Log(cl).rows = F /\ Log(commits).rows = G
        BY <2>2
    <3>2. n # 0
      <4>1. n = 0 => F = <<>>
        OBVIOUS
      <4>2. QED
        BY <3>1, <4>1
    <3> DEFINE U == {RowOf(cl[k]) : k \in 1 .. n} \union {RowOf(commits[k]) : k \in 1 .. n}
    <3>3. F \in [1 .. n -> U] /\ G \in [1 .. n -> U]
        OBVIOUS
    <3>4. n \in Nat \ {0} /\ n \in 1 .. n /\ \A i \in 1 .. n - 1 : i \in 1 .. n /\ i < n
        BY <1>1, <3>2
    <3>5. \A i \in 1 .. n - 1 : F[i] = G[i]
        BY <2>3, <3>4
    <3> HIDE DEF F, G, U
    <3>6. AlikeRows(F, G, n, U)
        BY <3>3, <3>4, <3>5, Zenon DEF AlikeRows
    <3>7. Last(F) = F[n]
        BY <3>6, AllButLast
    <3>8. Front(F) = Front(G)
        BY <3>6, AllButLast
    <3>9. Last(commits) = commits[n]
        BY Zenon DEF Last, n
    <3>10. F[n].hash = commits[n].hash
        BY <2>3, <3>4
    <3>11. QED
        BY <3>1, <3>7, <3>8, <3>9, <3>10
  <2>6. QED
    BY <2>4, <2>5
<1>5. QED
    BY <1>3, <1>4

\* Nothing is compared where there are no commits.
LEMMA NoneToCompare ==
    ASSUME NEW tree, NEW args
    PROVE  ParseCompare(<<>>, tree, args).does \in {"die", "nothing"}
<1>1. DOMAIN <<>> = 1 .. 0
    OBVIOUS
<1>2. ASSUME NEW w
      PROVE  Find(<<>>, w) = 0 /\ FindHash(<<>>, w) = 0 /\ FindTag(<<>>, w) = 0
    BY <1>1, FoundIs DEF Find
<1>3. ASSUME NEW v, NEW w
      PROVE  CompareCommits(<<>>, v, w) \in {Nothing, Dies} /\ CompareWithHead(<<>>, w) = Dies
    BY <1>2 DEF CompareCommits, CompareWithHead
<1> DEFINE all == CompareParsed(tree, args)[Len(args)]
<1>4. \/ ParseCompare(<<>>, tree, args) = Dies
      \/ ParseCompare(<<>>, tree, args) = CompareWithHead(<<>>, all.hashes[1])
      \/ ParseCompare(<<>>, tree, args) = CompareCommits(<<>>, all.hashes[1], all.hashes[2])
    BY Zenon DEF ParseCompare
<1> HIDE DEF all
<1>5. ParseCompare(<<>>, tree, args) \in {Nothing, Dies}
    BY <1>3, <1>4
<1>6. QED
    BY <1>5 DEF Nothing, Dies

(***************************************************************************)
(* What one process has written to commit.idx the next one reads, and a    *)
(* command that wants the commits dies of no file that is whole and whose  *)
(* names fit; but it does of a name that is too long.                      *)
(***************************************************************************)
THEOREM CommitsAreRead == Spec => []CommitsReadBack
<1>1. CallInv => CommitsReadBack
  <2> SUFFICES ASSUME CallInv, pc = "done"
               PROVE  CommitsReadBack
    BY DEF CommitsReadBack
  <2> DEFINE Wanted == {"log", "quiet log", "list", "list html", "tags", "tag", "head",
                        "commit", "compare", "compare file", "compare dir", "insert",
                        "revert"}
             Shows == call.does = "log" =>
                        IF run.cut = 0 THEN call = Log(run.commits)
                        ELSE call.rows # <<>> =>
                                /\ Front(call.rows) = Front(Log(run.commits).rows)
                                /\ Last(call.rows).hash = Last(run.commits).hash
             Fit == call = Dies /\ command # 0 /\ CommandTypes[command] = "hist" /\ repo = Whole =>
                        \/ run.cut > 0
                        \/ \E k \in DOMAIN run.commits :
                                TooLong(run.commits[k].name) \/ TooLong(run.commits[k].email)
             Unfit == run.cut = 0 /\ (\E k \in DOMAIN run.commits : TooLong(run.commits[k].name))
                        => call.does \notin Wanted
  <2>1. Shows /\ Fit /\ Unfit => CommitsReadBack
    BY Zenon DEF CommitsReadBack
  <2>2. Dies.does = "die" /\ Crashes.does = "crash" /\ Nothing.does = "nothing"
    BY DEF Dies, Crashes, Nothing
  <2>3. CASE Idle
    <3>1. call.does \in Ends
        BY <2>3 DEF Idle
    <3>2. Ends \intersect Wanted = {} /\ "log" \in Wanted
        BY Zenon DEF Ends
    <3> HIDE DEF Wanted
    <3>3. call.does \notin Wanted
        BY <3>1, <3>2
    <3>4. Shows /\ Unfit
        BY <3>2, <3>3
    <3>5. Fit
        BY <2>2, <2>3 DEF Idle, Type
    <3>6. QED
        BY <2>1, <3>4, <3>5
  <2>4. ASSUME NEW reading, Acts(reading)
        PROVE  Shows /\ Fit /\ Unfit
    <3> DEFINE cl == reading.commits
               file == WriteList(run.commits)
    <3>1. Parsed(reading)
        BY <2>4, ParsedIs
    <3>2. /\ run.commits \in Seq(Range(run.commits)) /\ run.cut \in Nat
          /\ \A c \in Range(run.commits) : Len(c.name) \in Nat /\ Len(c.email) \in Nat
          /\ ReadBack(reading, run.commits, run.cut)
        BY <2>4, InvocationIs
    <3>3. Shows
      <4> SUFFICES ASSUME call.does = "log"
                   PROVE  IF run.cut = 0 THEN call = Log(run.commits)
                          ELSE call.rows # <<>> =>
                                /\ Front(call.rows) = Front(Log(run.commits).rows)
                                /\ Last(call.rows).hash = Last(run.commits).hash
        OBVIOUS
      <4>1. call = Log(cl) /\ reading.readable
        BY <3>1 DEF Parsed
      <4>2. QED
        BY <3>2, <4>1, LogReadBack
    <3>4. reading \in Readings(SubSeq(file, 1, Len(file) - run.cut))
        BY <2>4, Zenon DEF Acts, CommitIdx
    <3>5. ASSUME run.cut = 0
          PROVE  /\ (\E k \in DOMAIN run.commits : Len(run.commits[k].name) > Room)
                        => reading = Unreadable
                 /\ reading = Unreadable =>
                        \E k \in DOMAIN run.commits :
                            Len(run.commits[k].name) > Room \/ Len(run.commits[k].email) > Room
      <4> DEFINE readings == Readings(SubSeq(file, 1, Len(file) - 0))
      <4>1. reading \in readings
        BY <3>4, <3>5
      <4>2. /\ (\E k \in DOMAIN run.commits : Len(run.commits[k].name) > Room)
                    => readings = {Unreadable}
            /\ Unreadable \in readings
                    => \E k \in DOMAIN run.commits :
                            Len(run.commits[k].name) > Room \/ Len(run.commits[k].email) > Room
        BY <3>2, WholeIsReadable
      <4> HIDE DEF readings
      <4>3. QED
        BY <4>1, <4>2
    <3>6. Fit
      <4> SUFFICES ASSUME call = Dies, Type = "hist", ~(run.cut > 0)
                   PROVE  \E k \in DOMAIN run.commits :
                                TooLong(run.commits[k].name) \/ TooLong(run.commits[k].email)
        BY DEF Type
      <4>1. run.cut = 0
        BY <3>2
      <4>2. call \in CallsWith(reading) /\ Log(cl).does = "log"
        BY <2>4, OthersDo DEF Acts
      <4>3. ~reading.readable
        BY <2>2, <4>2 DEF CallsWith, ReadFirst
      <4>4. reading = Unreadable
        BY <3>2, <4>3 DEF ReadBack
      <4>5. QED
        BY <3>5, <4>1, <4>4 DEF TooLong
    <3>7. Unfit
      <4> SUFFICES ASSUME run.cut = 0, \E k \in DOMAIN run.commits : Len(run.commits[k].name) > Room
                   PROVE  call.does \notin Wanted
        BY DEF TooLong
      <4>1. reading = Unreadable
        BY <3>5
      <4>2. ~reading.readable /\ cl = <<>>
        BY <4>1 DEF Unreadable
      <4>3. call.does \notin {"log", "quiet log", "list", "list html", "tags", "tag", "head",
                              "commit", "insert", "revert"}
        BY <3>1, <4>2, Zenon DEF Parsed
      <4>4. call.does \notin {"compare", "compare file", "compare dir"}
        <5> DEFINE K == {"compare", "compare file", "compare dir"}
        <5>1. call.does \in K => call.does \in {"die", "nothing"}
            BY <3>1, <4>2, NoneToCompare, Zenon DEF Parsed
        <5>2. "die" \notin K /\ "nothing" \notin K
            BY Zenon
        <5> HIDE DEF K
        <5>3. call.does \notin K
            BY <5>1, <5>2
        <5>4. QED
            BY <5>3 DEF K
      <4>5. QED
        BY <4>3, <4>4, Zenon
    <3>8. QED
        BY <3>3, <3>6, <3>7
  <2>5. QED
    BY <2>1, <2>3, <2>4, ActsOrIdle
<1>2. QED
    BY <1>1, CallInvariant, PTL

-----------------------------------------------------------------------------
(* Commits that arguments name *)

\* The list of a reader, as far as its commits can be told apart by it.
Told(cl, n) ==
    /\ n \in Nat /\ DOMAIN cl = 1 .. n
    /\ n = 0 => cl = <<>>
    /\ n # 0 => n = Len(run.commits) /\ Len(cl) = n
    /\ DOMAIN run.commits = 1 .. Len(run.commits)
    /\ \A k \in 1 .. n : /\ cl[k].hash = run.commits[k].hash
                         /\ cl[k].head = run.commits[k].head
                         /\ cl[k].tag \in {run.commits[k].tag, NoTag}

\* Whatever a process reads, it can tell the commits by it.
LEMMA CommitsTold ==
    ASSUME NEW reading, Acts(reading)
    PROVE  \E n \in Nat : Told(reading.commits, n)
<1> DEFINE cl == reading.commits
           m == Len(run.commits)
<1>1. /\ run.commits \in Seq(Range(run.commits)) /\ ReadBack(reading, run.commits, run.cut)
    BY InvocationIs
<1>2. m \in Nat /\ DOMAIN run.commits = 1 .. m
    BY <1>1, LenProperties
<1>3. CASE cl = <<>>
  <2>1. DOMAIN cl = 1 .. 0
    BY <1>3
  <2>2. Told(cl, 0)
    BY <1>2, <1>3, <2>1 DEF Told
  <2>3. QED
    BY <2>2
<1>4. CASE cl # <<>>
  <2>1. reading # Unreadable
    BY <1>4 DEF Unreadable
  <2>2. /\ DOMAIN cl = 1 .. m
        /\ Len(cl) = m
        /\ \A k \in 1 .. m : /\ cl[k].hash = run.commits[k].hash
                             /\ cl[k].head = run.commits[k].head
                             /\ cl[k].tag \in {run.commits[k].tag, NoTag}
    BY <1>1, <1>4, <2>1, Zenon DEF ReadBack
  <2>3. m # 0
    <3>1. cl \in Seq(Range(cl))
        BY <1>1, <1>4, <2>1, Zenon DEF ReadBack
    <3> HIDE DEF cl, m
    <3>2. Len(cl) # 0
        BY <1>4, <3>1
    <3>3. QED
        BY <2>2, <3>2
  <2> HIDE DEF cl, m
  <2>4. Told(cl, m)
    BY <1>2, <2>2, <2>3 DEF Told, m
  <2>5. QED
    BY <1>2, <2>4 DEF cl
<1>5. QED
    BY <1>3, <1>4

\* What is found is named.
LEMMA FoundIsNamed ==
    ASSUME NEW cl, NEW n \in Nat, Told(cl, n), NEW w
    PROVE  /\ Find(cl, w) # 0 => Find(cl, w) \in NamedBy(w)
           /\ FindHash(cl, w) # 0 => /\ FindHash(cl, w) \in NamedBy(w)
                                     /\ IsPrefix(w, run.commits[FindHash(cl, w)].hash)
           /\ FindTag(cl, w) # 0 => FindTag(cl, w) \in NamedBy(w)
           /\ HeadOf(cl) # 0 => HeadOf(cl) \in 1 .. n /\ run.commits[HeadOf(cl)].head
           /\ FindHash(cl, w) = 0 /\ n # 0 =>
                ~ \E k \in NamedBy(w) : IsPrefix(w, run.commits[k].hash)
<1>1. /\ DOMAIN cl = 1 .. n
      /\ n # 0 => DOMAIN run.commits = 1 .. n
      /\ \A k \in 1 .. n : /\ cl[k].hash = run.commits[k].hash
                           /\ cl[k].head = run.commits[k].head
                           /\ cl[k].tag \in {run.commits[k].tag, NoTag}
    BY DEF Told
<1> DEFINE h == FindHash(cl, w)
           t == FindTag(cl, w)
           d == HeadOf(cl)
<1>2. /\ h # 0 => h \in 1 .. n /\ IsPrefix(w, cl[h].hash)
      /\ h = 0 => \A k \in 1 .. n : ~ IsPrefix(w, cl[k].hash)
      /\ t # 0 => t \in 1 .. n /\ cl[t].tag # NoTag /\ cl[t].tag = w
      /\ d # 0 => d \in 1 .. n /\ cl[d].head
    BY <1>1, FoundIs
<1>3. Find(cl, w) = IF h # 0 THEN h ELSE t
    BY DEF Find
<1> HIDE DEF h, t, d
<1>4. \A k \in 1 .. n : k \in DOMAIN run.commits
  <2>1. ASSUME NEW k \in 1 .. n
        PROVE  n # 0
    BY <2>1
  <2>2. QED
    BY <1>1, <2>1
<1>5. h # 0 => h \in NamedBy(w) /\ IsPrefix(w, run.commits[h].hash)
    BY <1>1, <1>2, <1>4, Zenon DEF NamedBy
<1>6. t # 0 => t \in NamedBy(w)
  <2> SUFFICES ASSUME t # 0
               PROVE  t \in NamedBy(w)
    OBVIOUS
  <2>1. run.commits[t].tag = w /\ t \in DOMAIN run.commits
    BY <1>1, <1>2, <1>4
  <2>2. QED
    BY <2>1, Zenon DEF NamedBy
<1>7. d # 0 => d \in 1 .. n /\ run.commits[d].head
    BY <1>1, <1>2
<1>8. ASSUME h = 0, n # 0, NEW k \in NamedBy(w), IsPrefix(w, run.commits[k].hash)
      PROVE  FALSE
  <2>1. k \in 1 .. n
    BY <1>1, <1>8, Zenon DEF NamedBy
  <2>2. QED
    BY <1>1, <1>2, <1>8, <2>1, Zenon
<1>9. QED
    BY <1>3, <1>5, <1>6, <1>7, <1>8 DEF h, t, d

\* Counting back from the last commit.
LEMMA CountedBack ==
    ASSUME NEW cl, NEW n \in Nat, Told(cl, n), n # 0, NEW b \in Nat, NthBack(cl, b) # 0
    PROVE  NthBack(cl, b) \in Back(b)
<1>1. Len(cl) = n /\ Len(run.commits) = n /\ DOMAIN run.commits = 1 .. n
    BY DEF Told
<1>2. b <= n /\ NthBack(cl, b) = Max({n - b, 1})
  <2>1. NthBack(cl, b) = IF b > n THEN 0 ELSE Max({n - b, 1})
    BY <1>1, Zenon DEF NthBack
  <2>2. QED
    BY <2>1
<1>3. CASE b = n
  <2>1. Max({n - b, 1}) = 1
    BY <1>3, MaxOnly
  <2>2. QED
    BY <1>1, <1>2, <1>3, <2>1 DEF Back
<1>4. CASE b # n
  <2>1. n - b \in 1 .. n /\ n - (n - b) = b
    BY <1>2, <1>4
  <2>2. Max({n - b, 1}) = n - b
    BY <2>1, MaxOnly
  <2>3. QED
    BY <1>1, <1>2, <2>1, <2>2 DEF Back
<1>5. QED
    BY <1>3, <1>4

-----------------------------------------------------------------------------
(* The parts of ActsOnNamed *)

CompareNamed ==
    call.does = "compare" =>
      /\ call.first \in NamedBy(FirstWord)
      /\ IF OneWord THEN run.commits[call.second].head
         ELSE call.second \in
                (IF \E k \in NamedBy(LastWord) : IsPrefix(LastWord, run.commits[k].hash)
                 THEN NamedBy(LastWord) ELSE NamedBy(FirstWord))

HeadNamed ==
    call.does = "head" =>
      call.to \in (CASE run.args[1].opt = "--reset" -> {Len(run.commits)}
                     [] run.args[1].opt = "master~" -> Back(run.args[1].num)
                     [] OTHER                       -> NamedBy(run.args[1].word))

TagNamed ==
    call.does = "tag" =>
      IF Len(run.args) = 1 THEN call.to = Len(run.commits)
      ELSE call.to \in NamedBy(run.args[1].word)

ListNamed ==
    call.does = "list" =>
      IF WordsAt = {} THEN run.commits[call.commit].head
      ELSE call.commit \in NamedBy(LastWord)

RevertNamed ==
    call.does = "revert" /\ call.files # <<>> =>
      \E a \in {run.args[k] : k \in DOMAIN run.args} \union {NumberArg("~", 0)} :
            a.opt = "~" /\ call.from \in Back(a.num)

\* The parts of ActsOnNamed make it up.
LEMMA NamedParts ==
    ASSUME CompareNamed, HeadNamed, TagNamed, ListNamed, RevertNamed
    PROVE  ActsOnNamed
BY Zenon DEF ActsOnNamed, CompareNamed, HeadNamed, TagNamed, ListNamed, RevertNamed

\* The words of the arguments are those that the parsers count.
LEMMA WordsAre ==
    ASSUME AreArguments(run.args)
    PROVE  /\ WordsAt = WordsTo(run.args, Len(run.args))
           /\ WordsAt \in SUBSET Nat
           /\ \A i \in WordsAt : (\A x \in WordsAt : i <= x) => FirstWord = run.args[i].word /\ Min(WordsAt) = i
           /\ \A j \in WordsAt : (\A x \in WordsAt : x <= j) => LastWord = run.args[j].word /\ Max(WordsAt) = j
<1>1. Len(run.args) \in Nat /\ DOMAIN run.args = 1 .. Len(run.args)
    BY ArgumentsAre
<1>2. WordsAt = WordsTo(run.args, Len(run.args)) /\ WordsAt \in SUBSET Nat
  <2>1. WordsAt = WordsTo(run.args, Len(run.args))
    BY <1>1, Zenon DEF WordsAt, WordsTo
  <2>2. \A n \in Nat : WordsTo(run.args, n) \in SUBSET Nat
    <3>1. ASSUME NEW n \in Nat, NEW x \in WordsTo(run.args, n)
          PROVE  x \in Nat
      <4>1. x \in 1 .. n
        BY Zenon DEF WordsTo
      <4>2. QED
        BY <4>1
    <3>2. QED
        BY <3>1
  <2>3. QED
    BY <1>1, <2>1, <2>2, Zenon
<1>3. \A i \in WordsAt : (\A x \in WordsAt : i <= x) => Min(WordsAt) = i
    BY <1>2, MinOnly
<1>4. \A j \in WordsAt : (\A x \in WordsAt : x <= j) => Max(WordsAt) = j
    BY <1>2, MaxOnly
<1>5. QED
    BY <1>2, <1>3, <1>4, Zenon DEF FirstWord, LastWord

\* compare acts on the commits it is given the names of.
LEMMA ComparesNamed ==
    ASSUME NEW reading, Acts(reading)
    PROVE  CompareNamed
<1> DEFINE cl == reading.commits
           args == run.args
           all == CompareParsed(run.tree, args)[Len(args)]
           hashes == all.hashes
<1> SUFFICES ASSUME call.does = "compare"
             PROVE  /\ call.first \in NamedBy(FirstWord)
                    /\ IF OneWord THEN run.commits[call.second].head
                       ELSE call.second \in
                              (IF \E k \in NamedBy(LastWord) : IsPrefix(LastWord, run.commits[k].hash)
                               THEN NamedBy(LastWord) ELSE NamedBy(FirstWord))
    BY DEF CompareNamed
<1>1. AreArguments(args)
    BY InvocationIs
<1>2. call = ParseCompare(cl, run.tree, args)
    BY ParsedIs DEF Parsed
<1>3. PICK n \in Nat : Told(cl, n)
    BY CommitsTold
<1>4. /\ ~all.fails /\ ~all.file /\ hashes # <<>>
      /\ \/ Len(hashes) = 1 /\ call = CompareWithHead(cl, hashes[1])
         \/ Len(hashes) # 1 /\ call = CompareCommits(cl, hashes[1], hashes[2])
  <2>1. \/ call = Dies
        \/ \E s : call = [does |-> IF all.deep THEN "compare dir" ELSE "compare file", path |-> s]
        \/ \E s : call = [does |-> "compare dir", path |-> s]
        \/ /\ ~all.fails /\ ~all.file /\ hashes # <<>>
           /\ \/ Len(hashes) = 1 /\ call = CompareWithHead(cl, hashes[1])
              \/ Len(hashes) # 1 /\ call = CompareCommits(cl, hashes[1], hashes[2])
    BY <1>2, Zenon DEF ParseCompare
  <2>2. "compare" # "compare dir" /\ "compare" # "compare file" /\ "compare" # "die"
    BY Zenon
  <2>3. call # Dies
    BY <2>2 DEF Dies
  <2> HIDE DEF all
  <2>4. ASSUME NEW s
        PROVE  /\ call # [does |-> IF all.deep THEN "compare dir" ELSE "compare file", path |-> s]
               /\ call # [does |-> "compare dir", path |-> s]
    <3> DEFINE kind == IF all.deep THEN "compare dir" ELSE "compare file"
    <3>1. kind # "compare"
        BY <2>2
    <3> HIDE DEF kind
    <3>2. ([does |-> kind, path |-> s]).does = kind
          /\ ([does |-> "compare dir", path |-> s]).does = "compare dir"
        OBVIOUS
    <3>3. QED
        BY <2>2, <3>1, <3>2, Zenon DEF kind
  <2>5. QED
    BY <2>1, <2>3, <2>4, Zenon
<1>5. HashesAre(args, Len(args), hashes)
    BY <1>1, <1>4, ComparesWords
<1> HIDE DEF all, cl, args, hashes
<1>6. PICK i, j \in WordsTo(args, Len(args)) :
          /\ \A x \in WordsTo(args, Len(args)) : i <= x /\ x <= j
          /\ hashes[1] = args[i].word
          /\ \/ i = j /\ Len(hashes) = 1
             \/ i < j /\ Len(hashes) = 2 /\ hashes[2] = args[j].word
    BY <1>4, <1>5, Zenon DEF HashesAre
<1>7. /\ WordsAt = WordsTo(args, Len(args)) /\ WordsAt \in SUBSET Nat
      /\ FirstWord = hashes[1] /\ LastWord = args[j].word
      /\ Min(WordsAt) = i /\ Max(WordsAt) = j
    BY <1>1, <1>6, WordsAre DEF args
<1>8. OneWord <=> i = j
    BY <1>7 DEF OneWord
<1>9. CASE i = j
  <2>1. Len(hashes) = 1
    BY <1>6, <1>7, <1>9
  <2>2. call = CompareWithHead(cl, hashes[1])
    BY <1>4, <2>1
  <2>3. /\ Find(cl, hashes[1]) # 0 /\ HeadOf(cl) # 0
        /\ call.first = Find(cl, hashes[1]) /\ call.second = HeadOf(cl)
    BY <2>2 DEF CompareWithHead, Dies, Crashes
  <2>4. call.first \in NamedBy(FirstWord) /\ run.commits[call.second].head
    BY <1>3, <1>7, <2>3, FoundIsNamed
  <2>5. QED
    BY <1>8, <1>9, <2>4
<1>10. CASE i # j
  <2>1. Len(hashes) = 2 /\ hashes[2] = LastWord
    BY <1>6, <1>7, <1>10
  <2>2. call = CompareCommits(cl, FirstWord, LastWord)
    BY <1>4, <1>7, <2>1
  <2> DEFINE v == FirstWord
             w == LastWord
             h == FindHash(cl, w)
             t == FindTag(cl, v)
  <2> HIDE DEF v, w
  <2>3. /\ Find(cl, v) # 0 /\ call.first = Find(cl, v)
        /\ call.second = (IF h # 0 THEN h ELSE t) /\ call.second # 0
    <3>1. call = CompareCommits(cl, v, w)
        BY <2>2 DEF v, w
    <3>2. QED
        BY <3>1 DEF CompareCommits, Nothing, Dies
  <2>4. call.first \in NamedBy(v)
    BY <1>3, <2>3, FoundIsNamed
  <2>5. n # 0
    <3>1. CASE n = 0
      <4>1. cl = <<>> /\ DOMAIN cl = 1 .. 0
        BY <1>3, <3>1 DEF Told
      <4>2. Find(cl, v) = 0
        BY <4>1, FoundIs DEF Find
      <4>3. QED
        BY <2>3, <4>2
    <3>2. QED
        BY <3>1
  <2>6. CASE h # 0
    <3>1. h \in NamedBy(w) /\ IsPrefix(w, run.commits[h].hash)
        BY <1>3, <2>6, FoundIsNamed
    <3>2. call.second = h
        BY <2>3, <2>6
    <3>3. QED
        BY <1>8, <1>10, <2>4, <3>1, <3>2 DEF v, w
  <2>7. CASE h = 0
    <3>1. ~ \E k \in NamedBy(w) : IsPrefix(w, run.commits[k].hash)
        BY <1>3, <2>5, <2>7, FoundIsNamed
    <3>2. t \in NamedBy(v) /\ call.second = t
        BY <1>3, <2>3, <2>7, FoundIsNamed
    <3>3. QED
        BY <1>8, <1>10, <2>4, <3>1, <3>2 DEF v, w
  <2>8. QED
    BY <2>6, <2>7
<1>11. QED
    BY <1>9, <1>10

-----------------------------------------------------------------------------
(* Each command acts on what it is given the name of *)

\* head resets to the commit that it is given the name or the number of.
LEMMA HeadsNamed ==
    ASSUME NEW reading, Acts(reading)
    PROVE  HeadNamed
<1> DEFINE cl == reading.commits
           a == run.args[1]
           to == IF a.opt = "--reset" THEN Len(cl)
                 ELSE IF a.opt = "master~" THEN NthBack(cl, a.num)
                 ELSE Find(cl, a.word)
<1> SUFFICES ASSUME call.does = "head"
             PROVE  call.to \in (CASE a.opt = "--reset" -> {Len(run.commits)}
                                   [] a.opt = "master~" -> Back(a.num)
                                   [] OTHER             -> NamedBy(a.word))
    BY DEF HeadNamed
<1>1. AreArguments(run.args)
    BY InvocationIs
<1>2. call = ParseHead(cl, run.args)
    BY ParsedIs DEF Parsed
<1>3. PICK n \in Nat : Told(cl, n)
    BY CommitsTold
<1>4. run.args # <<>> /\ cl # <<>> /\ to # 0 /\ call.to = to
  <2>1. \/ call \in {Nothing, Dies, Crashes}
        \/ run.args # <<>> /\ cl # <<>> /\ to # 0 /\ call = [does |-> "head", to |-> to]
    BY <1>2, Zenon DEF ParseHead
  <2> HIDE DEF to
  <2>2. QED
    BY <2>1 DEF Nothing, Dies, Crashes
<1>5. a.num \in Nat
  <2>1. Len(run.args) \in Nat /\ \A k \in 1 .. Len(run.args) : run.args[k].num \in Nat
    BY <1>1, ArgumentsAre
  <2>2. Len(run.args) # 0
    <3>1. run.args \in Seq(Range(run.args))
        BY <1>1 DEF AreArguments
    <3>2. QED
        BY <1>4, <3>1
  <2>3. 1 \in 1 .. Len(run.args)
    BY <2>1, <2>2
  <2>4. QED
    BY <2>1, <2>3
<1>6. n # 0 /\ Len(cl) = Len(run.commits)
    BY <1>3, <1>4 DEF Told
<1>7. CASE a.opt = "--reset"
    BY <1>4, <1>6, <1>7
<1>8. CASE a.opt = "master~"
  <2>1. NthBack(cl, a.num) # 0 /\ call.to = NthBack(cl, a.num)
    BY <1>4, <1>8
  <2>2. call.to \in Back(a.num)
    BY <1>3, <1>5, <1>6, <2>1, CountedBack
  <2>3. QED
    BY <1>8, <2>2
<1>9. CASE a.opt \notin {"--reset", "master~"}
  <2>1. Find(cl, a.word) # 0 /\ call.to = Find(cl, a.word)
    BY <1>4, <1>9
  <2>2. call.to \in NamedBy(a.word)
    BY <1>3, <2>1, FoundIsNamed
  <2>3. QED
    BY <1>9, <2>2
<1>10. QED
    BY <1>7, <1>8, <1>9

\* tag tags the commit that it is given the name of.
LEMMA TagsNamed ==
    ASSUME NEW reading, Acts(reading)
    PROVE  TagNamed
<1> DEFINE cl == reading.commits
           w == run.args[1].word
<1> SUFFICES ASSUME call.does = "tag"
             PROVE  IF Len(run.args) = 1 THEN call.to = Len(run.commits)
                    ELSE call.to \in NamedBy(w)
    BY DEF TagNamed
<1>1. call = ParseTag(cl, run.args)
    BY ParsedIs DEF Parsed
<1>2. PICK n \in Nat : Told(cl, n)
    BY CommitsTold
<1>3. call.to # 0 /\ call.to = IF Len(run.args) = 1 THEN Len(cl) ELSE FindHash(cl, w)
    BY <1>1 DEF ParseTag, Nothing, Dies
<1>4. CASE Len(run.args) = 1
  <2>1. cl # <<>>
    BY <1>3, <1>4
  <2>2. Len(cl) = Len(run.commits)
    BY <1>2, <2>1 DEF Told
  <2>3. QED
    BY <1>3, <1>4, <2>2
<1>5. CASE Len(run.args) # 1
    BY <1>2, <1>3, <1>5, FoundIsNamed
<1>6. QED
    BY <1>4, <1>5

\* list shows the commit that it is given the name of.
LEMMA ListsNamed ==
    ASSUME NEW reading, Acts(reading)
    PROVE  ListNamed
<1> DEFINE cl == reading.commits
           args == run.args
           all == ListParsed(cl, args)[Len(args)]
           to == IF all.commit # 0 THEN all.commit ELSE HeadOf(cl)
<1> SUFFICES ASSUME call.does = "list"
             PROVE  IF WordsAt = {} THEN run.commits[call.commit].head
                    ELSE call.commit \in NamedBy(LastWord)
    BY DEF ListNamed
<1>1. AreArguments(args)
    BY InvocationIs
<1>2. call = ParseList(cl, args)
  <2>1. "list" \in {"list", "list html"}
    BY Zenon
  <2>2. QED
    BY <2>1, ParsedIs, Zenon DEF Parsed
<1>3. PICK n \in Nat : Told(cl, n)
    BY CommitsTold
<1>4. ~all.fails /\ ~all.html /\ to # 0 /\ call.commit = to
  <2>1. \/ call \in {Nothing, Dies, Crashes}
        \/ \E r : call = [does |-> "list html", rows |-> r]
        \/ ~all.fails /\ ~all.html /\ to # 0 /\ \E r : call = [does |-> "list", commit |-> to, rows |-> r]
    BY <1>2, Zenon DEF ParseList
  <2>2. "list" # "list html" /\ "list" # "nothing" /\ "list" # "die" /\ "list" # "crash"
    BY Zenon
  <2>3. call \notin {Nothing, Dies, Crashes}
    BY <2>2 DEF Nothing, Dies, Crashes
  <2>4. ASSUME NEW r
        PROVE  call # [does |-> "list html", rows |-> r]
    <3>1. ([does |-> "list html", rows |-> r]).does = "list html"
        OBVIOUS
    <3>2. QED
        BY <2>2, <3>1, Zenon
  <2> HIDE DEF all, to
  <2>5. ~all.fails /\ ~all.html /\ to # 0 /\ \E r : call = [does |-> "list", commit |-> to, rows |-> r]
    BY <2>1, <2>3, <2>4, Zenon
  <2>6. QED
    BY <2>5
<1>5. ListsOf(cl, args, Len(args), all.commit)
  <2>1. DOMAIN cl = 1 .. n
    BY <1>3 DEF Told
  <2>2. QED
    BY <1>1, <1>4, <2>1, ListsLastWord
<1> HIDE DEF all, cl
<1>6. WordsAt = WordsTo(args, Len(args))
    BY <1>1, WordsAre
<1>7. CASE all.commit = 0 /\ WordsTo(args, Len(args)) = {}
  <2>1. call.commit = HeadOf(cl) /\ HeadOf(cl) # 0
    BY <1>4, <1>7
  <2>2. run.commits[call.commit].head
    BY <1>3, <2>1, FoundIsNamed
  <2>3. QED
    BY <1>6, <1>7, <2>2
<1>8. CASE \E j \in WordsTo(args, Len(args)) :
              /\ \A x \in WordsTo(args, Len(args)) : x <= j
              /\ all.commit = Find(cl, args[j].word) /\ all.commit # 0
  <2>1. PICK j \in WordsAt :
              /\ \A x \in WordsAt : x <= j
              /\ all.commit = Find(cl, args[j].word) /\ all.commit # 0
    BY <1>6, <1>8
  <2>2. LastWord = args[j].word
    BY <1>1, <2>1, WordsAre
  <2>3. call.commit = Find(cl, LastWord) /\ Find(cl, LastWord) # 0
    BY <1>4, <2>1, <2>2
  <2>4. call.commit \in NamedBy(LastWord)
    BY <1>3, <2>3, FoundIsNamed
  <2>5. QED
    BY <2>1, <2>4
<1>9. QED
    BY <1>5, <1>7, <1>8, Zenon DEF ListsOf

\* revert takes from the commit that it is given the name or the number of.
LEMMA RevertsNamed ==
    ASSUME NEW reading, Acts(reading)
    PROVE  RevertNamed
<1> DEFINE cl == reading.commits
           args == run.args
           A == {args[k] : k \in DOMAIN args} \union {NumberArg("~", 0)}
<1> SUFFICES ASSUME call.does = "revert", call.files # <<>>
             PROVE  \E a \in A : a.opt = "~" /\ call.from \in Back(a.num)
    BY DEF RevertNamed
<1>1. AreArguments(args)
    BY InvocationIs
<1>2. PICK stale \in {"file", "dir", "other"}, mixed \in BOOLEAN :
            call = ParseRevert(cl, run.tree, args, stale, mixed)
    BY ParsedIs DEF Parsed
<1>3. PICK n \in Nat : Told(cl, n)
    BY CommitsTold
<1> DEFINE all == RevertParsed(cl, run.tree, args, stale, mixed)[Len(args)]
           b == NthBack(cl, all.n)
<1>4. all \in RevertStates(run.tree, args, stale) /\ CountsBack(args, Len(args), all.n)
    BY <1>1, RevertsFirst
<1>5. cl # <<>> /\ b # 0 /\ call.from = b
  <2>1. \/ call \in {all.ends, Dies}
        \/ /\ cl # <<>> /\ (all.files # <<>> => b # 0)
           /\ \E d, h : call = [does |-> "revert", files |-> all.files, dirs |-> d, from |-> b,
                                hard |-> h]
    BY <1>2, Zenon DEF ParseRevert
  <2>2. all.ends \in {Nothing, Dies, Crashes}
    BY <1>4 DEF RevertStates
  <2> HIDE DEF all, b
  <2>3. QED
    BY <2>1, <2>2 DEF Nothing, Dies, Crashes
<1>6. all.n \in Nat
    BY <1>4 DEF RevertStates
<1> HIDE DEF all
<1>7. call.from \in Back(all.n)
  <2>1. n # 0
    BY <1>3, <1>5 DEF Told
  <2>2. QED
    BY <1>3, <1>5, <1>6, <2>1, CountedBack
<1>8. CASE all.n = 0
  <2>1. NumberArg("~", 0).opt = "~" /\ NumberArg("~", 0).num = 0
    BY DEF NumberArg
  <2>2. QED
    BY <1>7, <1>8, <2>1
<1>9. CASE all.n # 0
  <2>1. PICK i \in 1 .. Len(args) : args[i].opt = "~" /\ all.n = args[i].num
    BY <1>4, <1>9 DEF CountsBack
  <2>2. i \in DOMAIN args
    BY <1>1, ArgumentsAre
  <2>3. args[i] \in A
    BY <2>2
  <2>4. QED
    BY <1>7, <2>1, <2>3
<1>10. QED
    BY <1>8, <1>9

\* The commits a command acts on are those that its arguments name, or the one
\* they count back to; compare's second one may be named by the first word.
THEOREM ActsOnWhatIsNamed == Spec => []ActsOnNamed
<1>1. CallInv => ActsOnNamed
  <2> SUFFICES ASSUME CallInv, pc = "done"
               PROVE  ActsOnNamed
    BY DEF ActsOnNamed
  <2>1. CASE Idle
    <3>1. call.does \in Ends
        BY <2>1 DEF Idle
    <3>2. call.does \notin {"compare", "head", "tag", "list", "revert"}
        BY <3>1, Zenon DEF Ends
    <3>3. QED
        BY <3>2, NamedParts, Zenon DEF CompareNamed, HeadNamed, TagNamed, ListNamed, RevertNamed
  <2>2. ASSUME NEW reading, Acts(reading)
        PROVE  ActsOnNamed
    BY <2>2, NamedParts, ComparesNamed, HeadsNamed, TagsNamed, ListsNamed, RevertsNamed
  <2>3. QED
    BY <2>1, <2>2, ActsOrIdle
<1>2. QED
    BY <1>1, CallInvariant, PTL

-----------------------------------------------------------------------------
(* Paths under the names they are kept by *)

\* What is in front of the names that are kept.
Here == <<".", "/">>

\* A text after the prefix.
LEMMA HereIs ==
    ASSUME NEW C, "." \in C, "/" \in C, NEW u, u \in Seq(C)
    PROVE  /\ Here \o u \in Seq(C) /\ Len(Here \o u) = Len(u) + 2 /\ Len(u) \in Nat
           /\ (Here \o u)[1] = "." /\ (Here \o u)[2] = "/"
           /\ \A i \in 1 .. Len(u) : (Here \o u)[i + 2] = u[i]
<1>1. Here \in Seq(C) /\ Len(Here) = 2 /\ Here[1] = "." /\ Here[2] = "/"
    BY DEF Here
<1> DEFINE n == Len(u)
           s == Here \o u
<1>2. n \in Nat
    BY LenProperties
<1>3. /\ s \in Seq(C) /\ Len(s) = Len(Here) + n
      /\ \A i \in 1 .. Len(Here) + n : s[i] = IF i <= Len(Here) THEN Here[i] ELSE u[i - Len(Here)]
    BY <1>1, ConcatProperties
<1> HIDE DEF s, n
<1>4. Len(s) = n + 2 /\ \A i \in 1 .. n + 2 : s[i] = IF i <= 2 THEN Here[i] ELSE u[i - 2]
    BY <1>1, <1>2, <1>3
<1>5. s[1] = "." /\ s[2] = "/"
  <2>1. 1 \in 1 .. n + 2 /\ 2 \in 1 .. n + 2
    BY <1>2
  <2>2. s[1] = Here[1] /\ s[2] = Here[2]
    BY <1>4, <2>1
  <2>3. QED
    BY <1>1, <2>2
<1>6. ASSUME NEW i \in 1 .. n
      PROVE  s[i + 2] = u[i]
  <2>1. i + 2 \in 1 .. n + 2 /\ ~(i + 2 <= 2) /\ (i + 2) - 2 = i
    BY <1>2
  <2>2. QED
    BY <1>4, <2>1
<1>7. QED
    BY <1>2, <1>3, <1>4, <1>5, <1>6 DEF s, n

\* To begin with the prefix.
LEMMA BeginsHere ==
    ASSUME NEW C, NEW w, w \in Seq(C)
    PROVE  IsPrefix(Here, w) <=> Len(w) >= 2 /\ w[1] = "." /\ w[2] = "/"
<1> DEFINE n == Len(w)
<1>1. n \in Nat /\ \A i \in 1 .. n : w[i] \in C
    BY LenProperties
<1>2. IsPrefix(Here, w) <=> 2 <= n /\ SubSeq(Here, 1, 2) = SubSeq(w, 1, 2)
  <2>1. Len(Here) = 2
    BY DEF Here
  <2>2. QED
    BY <2>1 DEF IsPrefix
<1>3. SubSeq(Here, 1, 2) = Here
  <2>1. Here \in Seq({".", "/"}) /\ Len(Here) = 2 /\ 0 \in 0 .. 2
    BY DEF Here
  <2>2. SubSeq(Here, 1, Len(Here)) = Here
    BY <2>1, RestOfSeq
  <2>3. QED
    BY <2>1, <2>2
<1>4. ASSUME 2 <= n
      PROVE  Here = SubSeq(w, 1, 2) <=> w[1] = "." /\ w[2] = "/"
  <2> DEFINE s == SubSeq(w, 1, 2)
  <2>1. \A i \in 1 .. 2 : i \in 1 .. n
    BY <1>1, <1>4
  <2>2. \A i \in 1 .. 2 : w[i] \in C
    BY <1>1, <2>1
  <2>3. s \in Seq(C) /\ Len(s) = 2 /\ \A i \in 1 .. 2 - 1 + 1 : s[i] = w[1 + i - 1]
    BY <2>2, SubSeqProperties
  <2> HIDE DEF s
  <2>4. s[1] = w[1] /\ s[2] = w[2]
    BY <2>3
  <2>5. Here[1] = "." /\ Here[2] = "/"
    BY DEF Here
  <2>6. ASSUME w[1] = ".", w[2] = "/"
        PROVE  Here = s
    <3> DEFINE D == C \union {".", "/"}
    <3>1. Here \in Seq(D) /\ Len(Here) = 2 /\ s \in Seq(D)
        BY <2>3 DEF Here
    <3>2. \A i \in 1 .. Len(Here) : Here[i] = s[i]
        BY <2>4, <2>5, <2>6, <3>1
    <3>3. QED
        BY <2>3, <3>1, <3>2, SeqEqual
  <2>7. QED
    BY <2>4, <2>5, <2>6 DEF s
<1>5. QED
    BY <1>2, <1>3, <1>4

\* The prefix can be left out and put back.
LEMMA PlainOfHere ==
    ASSUME NEW C, "." \in C, "/" \in C, NEW u, u \in Seq(C)
    PROVE  Plain(Here \o u) = u
<1> DEFINE s == Here \o u
           n == Len(u)
<1>1. /\ s \in Seq(C) /\ Len(s) = n + 2 /\ n \in Nat /\ s[1] = "." /\ s[2] = "/"
      /\ \A i \in 1 .. n : s[i + 2] = u[i]
    BY HereIs
<1>2. u \in Seq(C) /\ Len(u) = n
    OBVIOUS
<1> HIDE DEF s, n
<1>3. IsPrefix(Here, s)
    BY <1>1, BeginsHere
<1> DEFINE m == n + 2
           t == SubSeq(s, 3, m)
<1>4. Plain(s) = t
    BY <1>1, <1>3 DEF Plain, Here
<1>5. m \in Nat /\ 3 \in Int /\ m \in Int /\ m - 3 + 1 = n /\ (3 <= m <=> n # 0)
      /\ \A i \in 3 .. m : i \in 1 .. m
    BY <1>1
<1>6. \A i \in 3 .. m : s[i] \in C
  <2>1. \A i \in 1 .. Len(s) : s[i] \in C
    BY <1>1, ElementOfSeq
  <2>2. QED
    BY <1>1, <1>5, <2>1
<1> HIDE DEF m
<1>7. /\ t \in Seq(C) /\ Len(t) = (IF 3 <= m THEN m - 3 + 1 ELSE 0)
      /\ \A i \in 1 .. m - 3 + 1 : t[i] = s[3 + i - 1]
    BY <1>5, <1>6, SubSeqProperties
<1> HIDE DEF t
<1>8. Len(t) = n
    BY <1>1, <1>5, <1>7
<1>9. ASSUME NEW i \in 1 .. n
      PROVE  t[i] = u[i]
  <2>1. i \in 1 .. m - 3 + 1 /\ 3 + i - 1 = i + 2
    BY <1>1, <1>5
  <2>2. t[i] = s[i + 2]
    BY <1>7, <2>1
  <2>3. QED
    BY <1>1, <2>2
<1>10. t = u
    BY <1>2, <1>7, <1>8, <1>9, SeqEqual
<1>11. QED
    BY <1>4, <1>10 DEF s

\* What begins with the prefix is what follows it, with the prefix.
LEMMA HereAgain ==
    ASSUME NEW C, "." \in C, "/" \in C, NEW w, w \in Seq(C), IsPrefix(Here, w)
    PROVE  Here \o Plain(w) = w /\ Plain(w) \in Seq(C)
<1> DEFINE n == Len(w)
           m == n - 2
           u == SubSeq(w, 3, n)
<1>1. n \in Nat /\ \A i \in 1 .. n : w[i] \in C
    BY LenProperties
<1>2. n >= 2 /\ w[1] = "." /\ w[2] = "/"
    BY BeginsHere
<1>3. Plain(w) = u
    BY DEF Plain, Here
<1>4. w \in Seq(C) /\ Len(w) = n
    OBVIOUS
<1>5. 3 \in Int /\ n \in Int /\ \A i \in 3 .. n : w[i] \in C
    BY <1>1
<1>6. /\ u \in Seq(C) /\ Len(u) = (IF 3 <= n THEN n - 3 + 1 ELSE 0)
      /\ \A i \in 1 .. n - 3 + 1 : u[i] = w[3 + i - 1]
  <2> HIDE DEF n
  <2>1. QED
    BY <1>5, SubSeqProperties
<1> HIDE DEF n, u
<1>7. m \in Nat /\ Len(u) = m /\ n = m + 2
    BY <1>1, <1>2, <1>6
<1>8. \A i \in 1 .. m : u[i] = w[i + 2]
  <2>1. \A i \in 1 .. m : i \in 1 .. n - 3 + 1 /\ 3 + i - 1 = i + 2
    BY <1>1, <1>2
  <2>2. QED
    BY <1>6, <2>1
<1> HIDE DEF m
<1> DEFINE s == Here \o u
<1>9. /\ s \in Seq(C) /\ Len(s) = m + 2 /\ s[1] = "." /\ s[2] = "/"
      /\ \A i \in 1 .. m : s[i + 2] = u[i]
    BY <1>6, <1>7, HereIs
<1> HIDE DEF s
<1>10. ASSUME NEW i \in 1 .. m + 2
       PROVE  s[i] = w[i]
  <2>1. CASE i \in {1, 2}
    BY <1>2, <1>9, <2>1
  <2>2. CASE i \notin {1, 2}
    <3>1. i - 2 \in 1 .. m /\ (i - 2) + 2 = i
        BY <1>7, <2>2
    <3>2. s[(i - 2) + 2] = u[i - 2] /\ u[i - 2] = w[(i - 2) + 2]
        BY <1>8, <1>9, <3>1
    <3>3. QED
        BY <3>1, <3>2
  <2>3. QED
    BY <2>1, <2>2
<1>11. s = w
    BY <1>4, <1>7, <1>9, <1>10, SeqEqual
<1>12. QED
    BY <1>3, <1>6, <1>11 DEF s

-----------------------------------------------------------------------------
\* An ordinary path is put into the form that names are kept in, which names
\* the same file; another stays as it is.
LEMMA PegPathStores ==
    ASSUME NEW w, w \in Seq(Range(w))
    PROVE  /\ Ordinary(w) => /\ PegPath(w) = Stored(w)
                             /\ \A tree : Stat(tree, PegPath(w)) = Stat(tree, w)
           /\ ~ Ordinary(w) => PegPath(w) = w
<1> DEFINE C == Range(w) \union {".", "/"}
           named == w[1] # "." /\ (Len(w) < 2 \/ w[2] # "/")
<1>1. "." \in C /\ "/" \in C /\ w \in Seq(C)
  <2>1. Range(w) \subseteq C
    OBVIOUS
  <2>2. QED
    BY <2>1
<1> HIDE DEF C
<1>2. Len(w) \in Nat
    BY <1>1, LenProperties
<1>3. Ordinary(w) <=> IsPrefix(Here, w) \/ named
    BY Zenon DEF Ordinary, Here
<1>4. PegPath(w) = IF named THEN Here \o w ELSE w
    BY Zenon DEF PegPath, Here
<1>5. Stored(w) = Here \o Plain(w)
    BY Zenon DEF Stored, Here
<1>6. Plain(w) = IF IsPrefix(Here, w) THEN SubSeq(w, 3, Len(w)) ELSE w
    BY Zenon DEF Plain, Here
<1>7. IsPrefix(Here, w) => w[1] = "."
    BY <1>1, BeginsHere
<1>8. CASE IsPrefix(Here, w)
  <2>1. PegPath(w) = w
    BY <1>4, <1>7, <1>8
  <2>2. Stored(w) = w
    BY <1>1, <1>5, <1>8, HereAgain
  <2>3. QED
    BY <1>3, <1>8, <2>1, <2>2
<1>9. CASE ~ IsPrefix(Here, w) /\ named
  <2>1. Plain(w) = w
    BY <1>6, <1>9
  <2>2. PegPath(w) = Here \o w /\ Stored(w) = Here \o w
    BY <1>4, <1>5, <1>9, <2>1, Zenon
  <2>3. Plain(PegPath(w)) = Plain(w)
    BY <1>1, <2>1, <2>2, PlainOfHere
  <2>4. QED
    BY <1>3, <1>9, <2>2, <2>3, Zenon DEF Stat
<1>10. CASE ~ IsPrefix(Here, w) /\ ~ named
    BY <1>3, <1>4, <1>10, Zenon
<1>11. QED
    BY <1>8, <1>9, <1>10

\* A name that is a path, or below it, is left out by the path as a pattern.
LEMMA BelowIsIgnored ==
    ASSUME NEW w, w \in Seq(Range(w)), Ordinary(w),
           NEW name, name \in Seq(Range(name)), Plain(name) = name, Below(name, Plain(w))
    PROVE  IsIgnored(Stored(name), {PegPath(w)})
<1> DEFINE C == Range(w) \union Range(name) \union {".", "/"}
           u == Plain(w)
           p == Here \o u
           v == Here \o name
           n == Len(u)
<1>1. "." \in C /\ "/" \in C /\ w \in Seq(C) /\ name \in Seq(C)
  <2>1. Range(w) \subseteq C /\ Range(name) \subseteq C
    OBVIOUS
  <2>2. QED
    BY <2>1
<1> HIDE DEF C
<1>2. Stored(name) = v /\ PegPath(w) = p
  <2>1. Stored(name) = Here \o Plain(name) /\ Stored(w) = p
    BY Zenon DEF Stored, Here
  <2>2. PegPath(w) = Stored(w)
    BY PegPathStores
  <2>3. QED
    BY <2>1, <2>2
<1>3. u \in Seq(C)
  <2>1. CASE IsPrefix(Here, w)
    BY <1>1, <2>1, HereAgain
  <2>2. CASE ~ IsPrefix(Here, w)
    <3>1. u = w
        BY <2>2, Zenon DEF Plain, Here
    <3>2. QED
        BY <1>1, <3>1
  <2>3. QED
    BY <2>1, <2>2
<1>4. name = u \/ IsPrefix(u \o <<"/">>, name)
    BY Zenon DEF Below
<1> HIDE DEF u
<1>5. /\ p \in Seq(C) /\ Len(p) = n + 2 /\ n \in Nat /\ p[1] = "." /\ p[2] = "/"
      /\ \A i \in 1 .. n : p[i + 2] = u[i]
    BY <1>1, <1>3, HereIs
<1>6. /\ v \in Seq(C) /\ Len(v) = Len(name) + 2 /\ Len(name) \in Nat /\ v[1] = "." /\ v[2] = "/"
      /\ \A i \in 1 .. Len(name) : v[i + 2] = name[i]
    BY <1>1, HereIs
<1>7. Len(name) >= n /\ \A i \in 1 .. n : name[i] = u[i]
  <2>1. CASE name = u
    BY <1>5, <2>1
  <2>2. CASE IsPrefix(u \o <<"/">>, name)
    <3> DEFINE s == u \o <<"/">>
               m == Len(s)
    <3>1. s = Append(u, "/")
        BY <1>3
    <3>2. s \in Seq(C) /\ m = n + 1 /\ \A i \in 1 .. n : s[i] = u[i]
        BY <1>1, <1>3, <3>1, AppendProperties
    <3>3. m <= Len(name) /\ SubSeq(s, 1, m) = SubSeq(name, 1, m)
        BY <2>2, Zenon DEF IsPrefix
    <3> HIDE DEF s, m
    <3>4. m \in Nat /\ 1 \in Int /\ m \in Int
        BY <1>5, <3>2
    <3>5. \A i \in 1 .. m : s[i] \in C /\ name[i] \in C
      <4>1. \A i \in 1 .. m : i \in 1 .. Len(name) /\ i \in 1 .. Len(s)
        BY <1>6, <3>3, <3>4 DEF m
      <4>2. QED
        BY <1>1, <3>2, <4>1, ElementOfSeq
    <3>6. \A i \in 1 .. m : SubSeq(s, 1, m)[i] = s[i] /\ SubSeq(name, 1, m)[i] = name[i]
      <4>1. /\ \A i \in 1 .. m - 1 + 1 : SubSeq(s, 1, m)[i] = s[1 + i - 1]
            /\ \A i \in 1 .. m - 1 + 1 : SubSeq(name, 1, m)[i] = name[1 + i - 1]
        BY <3>4, <3>5, SubSeqProperties
      <4> DEFINE a == SubSeq(s, 1, m)
                 b == SubSeq(name, 1, m)
      <4> HIDE DEF a, b
      <4>2. \A i \in 1 .. m : a[i] = s[i] /\ b[i] = name[i]
        BY <3>4, <4>1 DEF a, b
      <4>3. QED
        BY <4>2 DEF a, b
    <3>7. \A i \in 1 .. m : s[i] = name[i]
        BY <3>3, <3>6
    <3>8. QED
        BY <1>5, <1>6, <3>2, <3>3, <3>7
  <2>3. QED
    BY <1>4, <2>1, <2>2
<1> HIDE DEF p, v, n
<1>8. \A i \in 1 .. n + 1 : v[i] = p[i] /\ v[i] \in C
  <2>1. ASSUME NEW i \in 1 .. n + 1
        PROVE  v[i] = p[i] /\ v[i] \in C
    <3>1. CASE i \in {1, 2}
        BY <1>1, <1>5, <1>6, <3>1
    <3>2. CASE i \notin {1, 2}
      <4>1. i - 2 \in 1 .. n /\ i - 2 \in 1 .. Len(name) /\ (i - 2) + 2 = i
        BY <1>5, <1>6, <1>7, <3>2
      <4>2. v[(i - 2) + 2] = name[i - 2] /\ p[(i - 2) + 2] = u[i - 2] /\ name[i - 2] = u[i - 2]
        BY <1>5, <1>6, <1>7, <4>1
      <4>3. name[i - 2] \in C
        BY <1>1, <4>1, ElementOfSeq
      <4>4. QED
        BY <4>1, <4>2, <4>3
    <3>3. QED
        BY <3>1, <3>2
  <2>2. QED
    BY <2>1
<1>9. SubSeq(v, 1, n + 1) = SubSeq(p, 1, n + 1)
  <2> DEFINE m == n + 1
             a == SubSeq(v, 1, m)
             b == SubSeq(p, 1, m)
  <2>1. m \in Nat /\ 1 \in Int /\ m \in Int /\ 1 <= m
    BY <1>5
  <2> HIDE DEF m
  <2>2. \A i \in 1 .. m : v[i] = p[i] /\ v[i] \in C /\ p[i] \in C
    BY <1>8 DEF m
  <2>3. /\ a \in Seq(C) /\ Len(a) = (IF 1 <= m THEN m - 1 + 1 ELSE 0)
        /\ \A i \in 1 .. m - 1 + 1 : a[i] = v[1 + i - 1]
    BY <2>1, <2>2, SubSeqProperties
  <2>4. /\ b \in Seq(C) /\ Len(b) = (IF 1 <= m THEN m - 1 + 1 ELSE 0)
        /\ \A i \in 1 .. m - 1 + 1 : b[i] = p[1 + i - 1]
    BY <2>1, <2>2, SubSeqProperties
  <2> HIDE DEF a, b
  <2>5. Len(a) = m /\ Len(b) = m /\ \A i \in 1 .. m : a[i] = b[i]
    BY <2>1, <2>2, <2>3, <2>4
  <2>6. a = b
    BY <2>3, <2>4, <2>5, SeqEqual
  <2>7. QED
    BY <2>6 DEF a, b, m
<1>10. Len(p) - 1 = n + 1 /\ Len(v) >= n + 1 /\ Len(p) >= n + 1
    BY <1>5, <1>6, <1>7
<1>11. Agree(v, p, Len(p) - 1)
    BY <1>9, <1>10, Zenon DEF Agree
<1>12. QED
    BY <1>2, <1>11, Zenon DEF IsIgnored

-----------------------------------------------------------------------------
(* The parts of PathsNamed *)

ComparePath ==
    call.does \in {"compare file", "compare dir"} /\ Len(run.args) = 1 =>
      (run.args[1].opt = "" /\ Ordinary(run.args[1].word) => call.path = Stored(run.args[1].word))

RevertPath ==
    call.does = "revert" /\ call.files # <<>> =>
      (FirstPath.opt = "" /\ Stat(run.tree, FirstPath.word) = "file" /\ Ordinary(FirstPath.word)
         => call.files[1] = Stored(FirstPath.word))

InsertPaths ==
    call.does = "insert" =>
      \A k \in DOMAIN call.picks : \E a \in Paths :
            IF Ordinary(a.word) THEN call.picks[k].path = Stored(a.word)
            ELSE call.picks[k].path = a.word

InsertIgnores ==
    call.does = "insert" =>
      \A a \in Range(run.args) : \A name \in DOMAIN run.tree :
            OnlyPattern(a) /\ Ordinary(a.word) /\ Below(name, Plain(a.word))
                => IsIgnored(Stored(name), call.patterns)

\* The parts of PathsNamed make it up.
LEMMA PathParts ==
    ASSUME ComparePath, RevertPath, InsertPaths, InsertIgnores
    PROVE  PathsNamed
BY Zenon DEF PathsNamed, ComparePath, RevertPath, InsertPaths, InsertIgnores

IsWord(a) == a.opt = ""

\* What compare does with one word.
LEMMA OneWordCompared ==
    ASSUME NEW tree, NEW args, AreArguments(args), Len(args) = 1, IsWord(args[1])
    PROVE  LET all == CompareParsed(tree, args)[Len(args)]
           IN  /\ ~ all.fails
               /\ \/ all.commit /\ ~ all.file
                  \/ all.file /\ ~ all.commit /\ all.path = PegPath(args[1].word)
<1> DEFINE h == CompareParsed(tree, args)
           a == args[1]
           S == CompareStart
           kind == Stat(tree, a.word)
           path == PegPath(a.word)
           hashes == IF S.hashes = <<>> THEN <<a.word>> ELSE <<S.hashes[1], a.word>>
           deep == S.deep \/ kind = "dir"
<1>1. ComparedBy(h, tree, args)
    BY CompareParses
<1>2. h[1] = CompareArgument(tree, S, a)
  <2>1. 1 \in 1 .. Len(args) /\ 1 - 1 = 0
    OBVIOUS
  <2> HIDE DEF h
  <2>2. h[0] = S /\ h[1] = CompareArgument(tree, h[1 - 1], a)
    BY <1>1, <2>1, Zenon DEF ComparedBy
  <2>3. QED
    BY <2>1, <2>2
<1>3. /\ S.commit = FALSE /\ S.file = FALSE /\ S.fails = FALSE
      /\ S = [commit |-> FALSE, file |-> FALSE, deep |-> FALSE, fails |-> FALSE,
              path |-> <<>>, hashes |-> <<>>]
    BY DEF CompareStart
<1>4. a.opt = "" /\ a.opt # "--hash" /\ a.opt # "-f"
    BY Zenon DEF IsWord
<1>5. \/ h[1] = [S EXCEPT !.commit = TRUE, !.hashes = hashes]
      \/ h[1] = [S EXCEPT !.file = TRUE, !.path = path, !.deep = deep]
  <2> HIDE DEF h, S, path
  <2>1. QED
    BY <1>2, <1>3, <1>4, Zenon DEF CompareArgument, path
<1> HIDE DEF h, hashes, deep, path
<1>6. /\ ~ h[1].fails
      /\ \/ h[1].commit /\ ~ h[1].file
         \/ h[1].file /\ ~ h[1].commit /\ h[1].path = path
  <2>1. CASE h[1] = [S EXCEPT !.commit = TRUE, !.hashes = hashes]
    BY <1>3, <2>1
  <2>2. CASE h[1] = [S EXCEPT !.file = TRUE, !.path = path, !.deep = deep]
    BY <1>3, <2>2
  <2>3. QED
    BY <1>5, <2>1, <2>2
<1>7. QED
    BY <1>6 DEF h, path

\* compare looks for a file under the name it is kept by.
LEMMA ComparesPath ==
    ASSUME NEW reading, Acts(reading)
    PROVE  ComparePath
<1> DEFINE cl == reading.commits
           args == run.args
           w == args[1].word
           all == CompareParsed(run.tree, args)[Len(args)]
           K == {"compare file", "compare dir"}
<1> SUFFICES ASSUME call.does \in K, Len(args) = 1, IsWord(args[1]), Ordinary(w)
             PROVE  call.path = Stored(w)
    BY Zenon DEF ComparePath, IsWord
<1>1. AreArguments(args)
    BY InvocationIs
<1>2. call = ParseCompare(cl, run.tree, args)
  <2>1. K \subseteq {"compare", "compare file", "compare dir"}
    BY Zenon
  <2>2. QED
    BY <2>1, ParsedIs, Zenon DEF Parsed
<1>3. /\ ~ all.fails
      /\ \/ all.commit /\ ~ all.file
         \/ all.file /\ ~ all.commit /\ all.path = PegPath(w)
    BY <1>1, OneWordCompared
<1>4. "die" \notin K /\ "compare" \notin K /\ "nothing" \notin K /\ "crash" \notin K
    BY Zenon
<1>5. ASSUME NEW u, NEW v
      PROVE  /\ CompareWithHead(cl, u).does \notin K
             /\ CompareCommits(cl, u, v).does \notin K
             /\ Dies.does \notin K
  <2> HIDE DEF K
  <2>1. QED
    BY <1>4 DEF CompareWithHead, CompareCommits, Dies, Nothing, Crashes
<1>6. \/ call = Dies
      \/ call = CompareWithHead(cl, all.hashes[1])
      \/ call = CompareCommits(cl, all.hashes[1], all.hashes[2])
      \/ \E kind : call = [does |-> kind, path |-> all.path] /\ all.file /\ ~ all.commit
  <2> HIDE DEF all
  <2>1. QED
    BY <1>2, <1>3, Zenon DEF ParseCompare, all
<1> HIDE DEF all, K
<1>7. call.path = PegPath(w)
  <2>1. PICK kind : call = [does |-> kind, path |-> all.path] /\ all.file /\ ~ all.commit
    BY <1>5, <1>6
  <2>2. ([does |-> kind, path |-> all.path]).path = all.path
    OBVIOUS
  <2>3. call.path = all.path
    BY <2>1, <2>2, Zenon
  <2>4. QED
    BY <1>3, <2>1, <2>3
<1>8. w \in Seq(Range(w))
  <2>1. 1 \in 1 .. Len(args)
    OBVIOUS
  <2>2. QED
    BY <1>1, <2>1, ArgumentsAre
<1>9. QED
    BY <1>7, <1>8, PegPathStores

\* revert looks for its first file under the name it is kept by.
LEMMA RevertsPath ==
    ASSUME NEW reading, Acts(reading)
    PROVE  RevertPath
<1> DEFINE cl == reading.commits
           args == run.args
           n == Len(args)
           T == {k \in DOMAIN args : args[k].opt # "~"}
<1> SUFFICES ASSUME call.does = "revert", call.files # <<>>, IsWord(FirstPath),
                    Stat(run.tree, FirstPath.word) = "file", Ordinary(FirstPath.word)
             PROVE  call.files[1] = Stored(FirstPath.word)
    BY Zenon DEF RevertPath, IsWord
<1>1. AreArguments(args)
    BY InvocationIs
<1>2. PICK stale \in {"file", "dir", "other"}, mixed \in BOOLEAN :
            call = ParseRevert(cl, run.tree, args, stale, mixed)
    BY ParsedIs DEF Parsed
<1> DEFINE all == RevertParsed(cl, run.tree, args, stale, mixed)[n]
<1>3. all \in RevertStates(run.tree, args, stale)
      /\ (all.files # <<>> => PathSeen(run.tree, args, n, all))
    BY <1>1, RevertsFirst
<1>4. call.files = all.files
  <2>1. \/ call \in {all.ends, Dies}
        \/ \E d, b, h : call = [does |-> "revert", files |-> all.files, dirs |-> d, from |-> b,
                                hard |-> h]
    BY <1>2, Zenon DEF ParseRevert
  <2>2. all.ends \in {Nothing, Dies, Crashes}
    BY <1>3 DEF RevertStates
  <2>3. call \notin {Nothing, Dies, Crashes}
    BY DEF Nothing, Dies, Crashes
  <2> HIDE DEF all
  <2>4. PICK d, b, h : call = [does |-> "revert", files |-> all.files, dirs |-> d, from |-> b,
                              hard |-> h]
    BY <2>1, <2>2, <2>3, Zenon
  <2>5. QED
    BY <2>4
<1> HIDE DEF all
<1>5. n \in Nat /\ DOMAIN args = 1 .. n /\ \A k \in 1 .. n : args[k].word \in Seq(Range(args[k].word))
    BY <1>1, ArgumentsAre
<1>6. PICK f \in 1 .. n :
        /\ args[f].opt # "~"
        /\ \A i \in 1 .. f - 1 : args[i].opt = "~"
        /\ IsWord(args[f]) /\ Stat(run.tree, PegPath(args[f].word)) = "file"
                => all.files # <<>> /\ all.files[1] = PegPath(args[f].word)
    BY <1>3, <1>4, Zenon DEF PathSeen, IsWord
<1>7. Min(T) = f
  <2>1. T \in SUBSET Nat /\ f \in T
    <3>1. f \in T /\ T \subseteq 1 .. n
        BY <1>5, <1>6, Zenon
    <3> HIDE DEF T, n
    <3>2. QED
        BY <1>5, <3>1
  <2>2. ASSUME NEW y \in T
        PROVE  f <= y
    <3>1. y \in 1 .. n /\ args[y].opt # "~"
        BY <1>5, Zenon
    <3>2. ~(y \in 1 .. f - 1)
        BY <1>6, <3>1, Zenon
    <3> HIDE DEF T, n
    <3>3. QED
        BY <1>5, <3>1, <3>2
  <2> HIDE DEF T
  <2>3. QED
    BY <2>1, <2>2, MinOnly
<1>8. FirstPath = args[f]
    BY <1>7, Zenon DEF FirstPath
<1> DEFINE w == args[f].word
<1>9. w \in Seq(Range(w)) /\ IsWord(args[f]) /\ Stat(run.tree, w) = "file" /\ Ordinary(w)
    BY <1>5, <1>8
<1>10. PegPath(w) = Stored(w) /\ Stat(run.tree, PegPath(w)) = Stat(run.tree, w)
    BY <1>9, PegPathStores
<1>11. all.files[1] = Stored(w)
    BY <1>6, <1>9, <1>10
<1>12. QED
    BY <1>4, <1>8, <1>11

\* insert picks files under the names they are kept by, and ignores what is in
\* the repository's own directory.
LEMMA InsertsPaths ==
    ASSUME NEW reading, Acts(reading)
    PROVE  InsertPaths /\ InsertIgnores
<1> DEFINE args == run.args
           n == Len(args)
           all == InsertParsed(run.tree, args)[n]
<1> SUFFICES ASSUME call.does = "insert"
             PROVE  InsertPaths /\ InsertIgnores
    BY DEF InsertPaths, InsertIgnores
<1>1. AreArguments(args)
    BY InvocationIs
<1>2. call = ParseInsert(run.tree, args)
    BY ParsedIs DEF Parsed
<1>3. ~ all.fails /\ call.picks = all.picks /\ call.patterns = all.patterns
  <2>1. \/ call = Dies
        \/ ~ all.fails /\ call = [does |-> "insert", all |-> all.all, patterns |-> all.patterns,
                                  picks |-> all.picks]
    BY <1>2, Zenon DEF ParseInsert
  <2> HIDE DEF all
  <2>2. QED
    BY <2>1 DEF Dies
<1>4. PicksAre(run.tree, args, n, all.picks) /\ PatternsAre(args, n, all.patterns)
    BY <1>1, <1>3, InsertsWords
<1> HIDE DEF all
<1>5. /\ n \in Nat /\ DOMAIN args = 1 .. n
      /\ \A k \in 1 .. n : args[k] \in Range(args) /\ args[k].word \in Seq(Range(args[k].word))
    BY <1>1, ArgumentsAre
<1>6. InsertPaths
  <2>1. ASSUME NEW k \in DOMAIN call.picks
        PROVE  \E a \in Paths : IF Ordinary(a.word) THEN call.picks[k].path = Stored(a.word)
                                ELSE call.picks[k].path = a.word
    <3>1. PICK i \in 1 .. n :
            /\ args[i].opt = "" /\ (Stat(run.tree, args[i].word) # "none" \/ args[i].word = <<".">>)
            /\ call.picks[k].path = PegPath(args[i].word)
        BY <1>3, <1>4 DEF PicksAre
    <3> DEFINE a == args[i]
    <3>2. a \in Range(args) /\ a.word \in Seq(Range(a.word))
        BY <1>5
    <3>3. a \in Paths
        BY <3>1, <3>2, Zenon DEF Paths
    <3>4. IF Ordinary(a.word) THEN PegPath(a.word) = Stored(a.word) ELSE PegPath(a.word) = a.word
        BY <3>2, PegPathStores
    <3>5. QED
        BY <3>1, <3>3, <3>4
  <2>2. QED
    BY <2>1 DEF InsertPaths
<1>7. InsertIgnores
  <2>1. ASSUME NEW a \in Range(args), NEW name \in DOMAIN run.tree,
               OnlyPattern(a), Ordinary(a.word), Below(name, Plain(a.word))
        PROVE  IsIgnored(Stored(name), call.patterns)
    <3>1. {b \in Range(args) : b.opt = "-i"} = {a}
        BY <2>1, Zenon DEF OnlyPattern
    <3>2. a.opt = "-i" /\ \A b \in Range(args) : b.opt = "-i" => b = a
        BY <3>1
    <3>3. PICK i \in 1 .. n : args[i] = a
        BY <1>5 DEF Range
    <3>4. PICK j \in 1 .. n : args[j].opt = "-i" /\ all.patterns = {PegPath(args[j].word)}
        BY <1>4, <3>2, <3>3 DEF PatternsAre
    <3>5. args[j] = a
        BY <1>5, <3>2, <3>4
    <3>6. call.patterns = {PegPath(a.word)}
        BY <1>3, <3>4, <3>5
    <3>7. a.word \in Seq(Range(a.word))
        BY <1>5, <3>5
    <3>8. name \in Seq(Range(name)) /\ Plain(name) = name
      <4>1. run \in Invocations
        BY DEF Acts
      <4>2. QED
        BY <4>1, AnInvocation DEF IsText
    <3>9. QED
        BY <2>1, <3>6, <3>7, <3>8, BelowIsIgnored
  <2>2. QED
    BY <2>1 DEF InsertIgnores
<1>8. QED
    BY <1>6, <1>7

\* An ordinary path is looked up under the name it is kept by, and insert
\* leaves out what its pattern names, and what is below it.
THEOREM PathsAreNamed == Spec => []PathsNamed
<1>1. CallInv => PathsNamed
  <2> SUFFICES ASSUME CallInv, pc = "done"
               PROVE  PathsNamed
    BY DEF PathsNamed
  <2>1. CASE Idle
    <3>1. call.does \in Ends
        BY <2>1 DEF Idle
    <3>2. call.does \notin {"compare file", "compare dir", "revert", "insert"}
        BY <3>1, Zenon DEF Ends
    <3>3. QED
        BY <3>2, PathParts, Zenon DEF ComparePath, RevertPath, InsertPaths, InsertIgnores
  <2>2. ASSUME NEW reading, Acts(reading)
        PROVE  PathsNamed
    BY <2>2, PathParts, ComparesPath, RevertsPath, InsertsPaths
  <2>3. QED
    BY <2>1, <2>2, ActsOrIdle
<1>2. QED
    BY <1>1, CallInvariant, PTL

=============================================================================

--------------------------- MODULE SequenceLemmas ---------------------------
(***************************************************************************)
(* Facts about numbers, sequences and recursive functions that the proofs  *)
(* about several modules need.  They take no operator as a parameter: an   *)
(* induction is one over a set of numbers, and a recursive function is     *)
(* given by the function that makes its steps.                             *)
(***************************************************************************)
EXTENDS Ascend, Sequences, SequencesExt, FiniteSetTheorems, SequenceTheorems,
        WellFoundedInduction, TLAPS

\* A set of numbers has a least one.
LEMMA LeastNumber ==
    ASSUME NEW T \in SUBSET Nat, T # {}
    PROVE  \E x \in T : \A y \in T : x <= y
<1> DEFINE R == OpToRel(<, Nat)
<1>1. IsWellFoundedOn(R, Nat)
    BY NatLessThanWellFounded, Zenon
<1>2. R = {p \in Nat \X Nat : p[1] < p[2]}
    BY Zenon DEF OpToRel
<1> HIDE DEF R
<1>3. PICK x \in T : \A y \in T : ~ (<<y, x>> \in R)
    BY <1>1, WFMin
<1>4. ASSUME NEW y \in T
      PROVE  x <= y
  <2>1. <<y, x>> \in Nat \X Nat /\ ~ (<<y, x>> \in R) /\ x \in Nat /\ y \in Nat
    BY <1>3, <1>4
  <2>2. ~ (y < x)
    BY <1>2, <2>1
  <2>3. QED
    BY <2>1, <2>2
<1>5. QED
    BY <1>4

\* A smallest and a greatest number, where they exist.
LEMMA MinIs ==
    ASSUME NEW T \in SUBSET Nat, T # {}
    PROVE  Min(T) \in T /\ \A y \in T : Min(T) <= y
BY LeastNumber DEF Min

\* There is only one smallest number.
LEMMA MinOnly ==
    ASSUME NEW T \in SUBSET Nat, NEW x \in T, \A y \in T : x <= y
    PROVE  Min(T) = x
<1>1. Min(T) \in T /\ Min(T) <= x
    BY MinIs
<1>2. x <= Min(T) /\ x \in Nat /\ Min(T) \in Nat
    BY <1>1
<1>3. QED
    BY <1>1, <1>2

\* One that is bounded has a greatest one.
LEMMA MaxIs ==
    ASSUME NEW T \in SUBSET Nat, T # {}, NEW n \in Nat, \A y \in T : y <= n
    PROVE  Max(T) \in T /\ \A y \in T : y <= Max(T)
<1> DEFINE U == {k \in 0 .. n : n - k \in T}
<1>1. U \in SUBSET Nat /\ U # {}
  <2>1. PICK y \in T : TRUE
    OBVIOUS
  <2>2. y \in Nat /\ y <= n
    BY <2>1
  <2>3. n - y \in 0 .. n /\ n - (n - y) = y
    BY <2>2
  <2>4. n - y \in U
    BY <2>1, <2>3
  <2>5. U \in SUBSET Nat
    OBVIOUS
  <2> HIDE DEF U
  <2>6. QED
    BY <2>4, <2>5
<1>2. PICK x \in U : \A y \in U : x <= y
  <2> HIDE DEF U
  <2>1. QED
    BY <1>1, LeastNumber
<1>3. ASSUME NEW y \in T
      PROVE  y <= n - x
  <2>1. y \in Nat /\ y <= n
    BY <1>3
  <2>2. n - y \in 0 .. n /\ n - (n - y) = y
    BY <2>1
  <2>3. n - y \in U
    BY <2>2
  <2>4. x <= n - y /\ x \in 0 .. n
    BY <1>2, <2>3
  <2>5. QED
    BY <2>1, <2>4
<1>4. n - x \in T
    BY <1>2
<1>5. QED
    BY <1>3, <1>4 DEF Max

\* There is only one greatest number.
LEMMA MaxOnly ==
    ASSUME NEW T \in SUBSET Nat, NEW x \in T, \A y \in T : y <= x
    PROVE  Max(T) = x
<1>1. Max(T) \in T /\ x <= Max(T)
    BY MaxIs
<1>2. Max(T) <= x /\ x \in Nat /\ Max(T) \in Nat
    BY <1>1
<1>3. QED
    BY <1>1, <1>2

\* Members up to a number.
UpTo(S, x) == {y \in S : y <= x}

\* The k-th of a set of numbers has k of them up to it, and all of them come
\* in ascending order.
LEMMA AscendingOrder ==
    ASSUME NEW S \in SUBSET Nat, IsFiniteSet(S)
    PROVE  /\ Cardinality(S) \in Nat
           /\ Ascending(S) \in [1 .. Cardinality(S) -> S]
           /\ \A k \in 1 .. Cardinality(S) :
                Cardinality(UpTo(S, Ascending(S)[k])) = k
           /\ \A k, l \in 1 .. Cardinality(S) : k < l => Ascending(S)[k] < Ascending(S)[l]
           /\ \A x \in S : \E k \in 1 .. Cardinality(S) : Ascending(S)[k] = x
<1> DEFINE c == Cardinality(S)
           rank == [x \in S |-> Cardinality(UpTo(S, x))]
<1>1. c \in Nat
    BY FS_CardinalityType
<1>2. ASSUME NEW x \in S
      PROVE  IsFiniteSet(UpTo(S, x)) /\ rank[x] \in 1 .. c
  <2>1. UpTo(S, x) \in SUBSET S /\ x \in UpTo(S, x)
    BY DEF UpTo
  <2>2. IsFiniteSet(UpTo(S, x)) /\ Cardinality(UpTo(S, x)) <= c
    BY <2>1, FS_Subset
  <2>3. Cardinality(UpTo(S, x)) \in Nat /\ Cardinality(UpTo(S, x)) # 0
    BY <2>1, <2>2, FS_CardinalityType, FS_EmptySet
  <2>4. QED
    BY <1>1, <2>2, <2>3
<1>3. ASSUME NEW x \in S, NEW y \in S, x < y
      PROVE  rank[x] < rank[y]
  <2>1. UpTo(S, x) \in SUBSET UpTo(S, y) /\ y \in UpTo(S, y) /\ y \notin UpTo(S, x)
    <3>1. x \in Nat /\ y \in Nat /\ \A z \in S : z \in Nat /\ (z <= x => z <= y)
        BY <1>3
    <3>2. ~(y <= x) /\ y <= y
        BY <1>3, <3>1
    <3>3. QED
        BY <3>1, <3>2 DEF UpTo
  <2>2. /\ Cardinality(UpTo(S, x)) <= Cardinality(UpTo(S, y))
        /\ Cardinality(UpTo(S, x)) # Cardinality(UpTo(S, y))
    BY <1>2, <2>1, FS_Subset
  <2>3. rank[x] \in Nat /\ rank[y] \in Nat
    BY <1>2
  <2>4. QED
    BY <2>2, <2>3
<1>4. rank \in [S -> 1 .. c]
    BY <1>2
<1> HIDE DEF rank
<1>5. rank \in Injection(S, 1 .. c)
  <2>1. ASSUME NEW x \in S, NEW y \in S, rank[x] = rank[y]
        PROVE  x = y
    <3>1. rank[x] \in Nat /\ rank[y] \in Nat /\ x \in Nat /\ y \in Nat
        BY <1>4
    <3>2. ~(x < y) /\ ~(y < x)
        BY <1>3, <2>1, <3>1
    <3>3. QED
        BY <3>1, <3>2
  <2>2. QED
    BY <1>4, <2>1 DEF Injection, IsInjective
<1>6. IsFiniteSet(1 .. c) /\ Cardinality(1 .. c) = c
    BY <1>1, FS_Interval
<1>7. rank \in Surjection(S, 1 .. c)
    BY <1>5, <1>6, FS_Injection
<1>8. ASSUME NEW k \in 1 .. c
      PROVE  Ascending(S)[k] \in S /\ rank[Ascending(S)[k]] = k
  <2>1. PICK x \in S : rank[x] = k
    BY <1>7 DEF Surjection
  <2>2. \E y \in S : Cardinality({z \in S : z <= y}) = k
    BY <2>1 DEF rank, UpTo
  <2>3. Ascending(S)[k] = CHOOSE y \in S : Cardinality({z \in S : z <= y}) = k
    BY DEF Ascending
  <2>4. Ascending(S)[k] \in S /\ Cardinality({z \in S : z <= Ascending(S)[k]}) = k
    BY <2>2, <2>3
  <2>5. QED
    BY <2>4 DEF rank, UpTo
<1>9. Ascending(S) \in [1 .. c -> S]
    BY <1>8 DEF Ascending
<1>10. ASSUME NEW k \in 1 .. c, NEW l \in 1 .. c, k < l
       PROVE  Ascending(S)[k] < Ascending(S)[l]
  <2> DEFINE x == Ascending(S)[k]
             y == Ascending(S)[l]
  <2>1. x \in S /\ y \in S /\ x \in Nat /\ y \in Nat /\ rank[x] = k /\ rank[y] = l
    BY <1>8
  <2> HIDE DEF x, y
  <2>2. x # y /\ ~(y < x)
    BY <1>1, <1>3, <1>10, <2>1
  <2>3. QED
    BY <2>1, <2>2 DEF x, y
<1>11. \A k \in 1 .. c : Cardinality(UpTo(S, Ascending(S)[k])) = k
    BY <1>8 DEF rank
<1>12. ASSUME NEW x \in S
       PROVE  \E k \in 1 .. c : Ascending(S)[k] = x
  <2>1. rank[x] \in 1 .. c /\ rank[Ascending(S)[rank[x]]] = rank[x] /\ Ascending(S)[rank[x]] \in S
    BY <1>4, <1>8
  <2>2. Ascending(S)[rank[x]] = x
    BY <1>5, <2>1 DEF Injection, IsInjective
  <2>3. QED
    BY <2>1, <2>2
<1>13. QED
    BY <1>1, <1>9, <1>10, <1>11, <1>12

\* g grows by a line with every step.
Grows(g, lines, l) ==
    /\ g = [k \in 1 .. l |-> g[k]] /\ g[1] = lines[1]
    /\ \A k \in 2 .. l : g[k] = g[k - 1] \o lines[k]

\* What lines are together: whatever grows by them.
LEMMA Flattened ==
    ASSUME NEW lines, NEW l \in Nat \ {0}, Len(lines) = l, NEW g, Grows(g, lines, l)
    PROVE  FlattenSeq(lines) = g[l]
<1> DEFINE Fits(f) == f = [k \in 1 .. l |-> IF k = 1 THEN lines[k] ELSE f[k - 1] \o lines[k]]
           f == CHOOSE f : Fits(f)
<1>1. FlattenSeq(lines) = f[l]
    BY Zenon DEF FlattenSeq
<1>2. Fits(g)
  <2>1. ASSUME NEW k \in 1 .. l
        PROVE  g[k] = IF k = 1 THEN lines[k] ELSE g[k - 1] \o lines[k]
    <3>1. k = 1 \/ k \in 2 .. l
        OBVIOUS
    <3>2. QED
        BY <3>1 DEF Grows
  <2>2. QED
    BY <2>1 DEF Grows
<1>3. Fits(f)
    BY <1>2, Zenon
<1> HIDE DEF f
<1> DEFINE T == {k \in 1 .. l : f[k] # g[k]}
<1>4. T = {}
  <2> SUFFICES ASSUME T # {}
               PROVE  FALSE
    OBVIOUS
  <2>1. PICK x \in T : \A y \in T : x <= y
    <3>1. T \in SUBSET Nat
        OBVIOUS
    <3> HIDE DEF T
    <3>2. QED
        BY <3>1, LeastNumber
  <2>2. x \in 1 .. l /\ f[x] # g[x]
    OBVIOUS
  <2>3. x # 1
    BY <1>2, <1>3, <2>2
  <2>4. x - 1 \in 1 .. l /\ x - 1 \notin T
    BY <2>1, <2>2, <2>3
  <2>5. f[x - 1] = g[x - 1]
    BY <2>4
  <2>6. f[x] = f[x - 1] \o lines[x]
    BY <1>3, <2>2, <2>3
  <2>7. g[x] = g[x - 1] \o lines[x]
    BY <1>2, <2>2, <2>3
  <2>8. QED
    BY <2>2, <2>5, <2>6, <2>7
<1>5. QED
    BY <1>1, <1>4

-----------------------------------------------------------------------------
(* Induction up to a number *)

\* What begins at 0 and goes on with every number reaches all of them.
LEMMA Climb ==
    ASSUME NEW n \in Nat, NEW T, 0 \in T,
           \A k \in 1 .. n : k - 1 \in T => k \in T
    PROVE  \A k \in 0 .. n : k \in T
<1> DEFINE M == {k \in 0 .. n : k \notin T}
<1> SUFFICES ASSUME M # {}
             PROVE  FALSE
    OBVIOUS
<1>1. PICK x \in M : \A y \in M : x <= y
  <2>1. M \in SUBSET Nat
    OBVIOUS
  <2> HIDE DEF M
  <2>2. QED
    BY <2>1, LeastNumber
<1>2. x \in 1 .. n /\ x - 1 \in 0 .. n /\ x - 1 \notin M
    BY <1>1
<1>3. x - 1 \in T /\ x \notin T
    BY <1>2
<1>4. QED
    BY <1>2, <1>3

\* f begins with a, and its values follow from the ones before them.
Follows(f, a, next, n) == f[0] = a /\ \A k \in 1 .. n : f[k] = next[<<k, f[k - 1]>>]

\* There is such a function.
LEMMA Recursion ==
    ASSUME NEW S, NEW a \in S, NEW n \in Nat, NEW next,
           \A k \in 1 .. n, s \in S : next[<<k, s>>] \in S
    PROVE  \E f \in [0 .. n -> S] : Follows(f, a, next, n)
<1> DEFINE T == {m \in 0 .. n : \E f \in [0 .. m -> S] : Follows(f, a, next, m)}
<1>1. 0 \in T
  <2>1. [k \in 0 .. 0 |-> a] \in [0 .. 0 -> S] /\ Follows([k \in 0 .. 0 |-> a], a, next, 0)
    BY DEF Follows
  <2>2. \E f \in [0 .. 0 -> S] : Follows(f, a, next, 0)
    BY <2>1, Zenon
  <2>3. QED
    BY <2>2
<1>2. ASSUME NEW m \in 1 .. n, m - 1 \in T
      PROVE  m \in T
  <2>1. PICK f \in [0 .. m - 1 -> S] : Follows(f, a, next, m - 1)
    BY <1>2
  <2>2. m - 1 \in 0 .. m - 1 /\ f[m - 1] \in S
    BY <2>1
  <2> DEFINE last == next[<<m, f[m - 1]>>]
             g == [k \in 0 .. m |-> IF k = m THEN last ELSE f[k]]
  <2>3. last \in S
    BY <2>2
  <2> HIDE DEF last
  <2>4. g \in [0 .. m -> S]
    BY <2>1, <2>3
  <2>5. g[0] = a
    BY <2>1 DEF Follows
  <2>6. ASSUME NEW k \in 1 .. m
        PROVE  g[k] = next[<<k, g[k - 1]>>]
    <3>1. k \in 0 .. m /\ k - 1 \in 0 .. m /\ k - 1 # m
        OBVIOUS
    <3>2. g[k - 1] = f[k - 1]
        BY <3>1
    <3>3. CASE k = m
        <4>1. g[k] = last
            BY <3>1, <3>3
        <4>2. last = next[<<k, f[k - 1]>>]
            BY <3>3 DEF last
        <4>3. QED
            BY <3>2, <4>1, <4>2
    <3>4. CASE k # m
        <4>1. k \in 1 .. m - 1
            BY <3>4
        <4>2. f[k] = next[<<k, f[k - 1]>>]
            BY <2>1, <4>1 DEF Follows
        <4>3. g[k] = f[k]
            BY <3>1, <3>4
        <4>4. QED
            BY <3>2, <4>2, <4>3
    <3>5. QED
        BY <3>3, <3>4
  <2>7. Follows(g, a, next, m)
    BY <2>5, <2>6 DEF Follows
  <2> HIDE DEF g
  <2>8. \E h \in [0 .. m -> S] : Follows(h, a, next, m)
    BY <2>4, <2>7
  <2>9. QED
    BY <2>8
<1>3. n \in T
  <2> HIDE DEF T
  <2>1. QED
    BY <1>1, <1>2, Climb
<1>4. QED
    BY <1>3
-----------------------------------------------------------------------------
(* Sequences *)

\* What is left of a sequence, and what is left after one more.
LEMMA RestOfSeq ==
    ASSUME NEW Z, NEW s, s \in Seq(Z), NEW k \in 0 .. Len(s)
    PROVE  /\ SubSeq(s, 1, Len(s)) = s
           /\ k = Len(s) <=> SubSeq(s, k + 1, Len(s)) = <<>>
           /\ k < Len(s) => /\ SubSeq(s, k + 1, Len(s))[1] = s[k + 1]
                            /\ Tail(SubSeq(s, k + 1, Len(s))) = SubSeq(s, k + 2, Len(s))
<1> DEFINE n == Len(s)
           rest == SubSeq(s, k + 1, n)
<1>1. n \in Nat /\ s \in [1 .. n -> Z]
    BY LenProperties
<1>2. SubSeq(s, 1, n) = s
    BY <1>1
<1>3. Len(rest) = n - k /\ \A i \in 1 .. n - k : rest[i] = s[k + i]
    OBVIOUS
<1>4. k = n <=> rest = <<>>
  <2>1. n - k = 0 <=> k = n
    BY <1>1
  <2>2. rest \in Seq(Z)
    OBVIOUS
  <2> HIDE DEF rest
  <2>3. rest = <<>> <=> Len(rest) = 0
    BY <2>2
  <2>4. QED
    BY <1>3, <2>1, <2>3
<1>5. ASSUME k < n
      PROVE  rest[1] = s[k + 1] /\ Tail(rest) = SubSeq(s, k + 2, n)
    BY <1>5
<1>6. QED
    BY <1>2, <1>4, <1>5

=============================================================================

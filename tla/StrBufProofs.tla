---------------------------- MODULE StrBufProofs ----------------------------
(***************************************************************************)
(* What holds of StrBuf for texts of any length, any slack and any chunks. *)
(***************************************************************************)
EXTENDS StrBuf, SequenceTheorems, TLAPS

\* A buffer with a allocated and l in use, memory m, holds the text t.
Holds(a, l, m, t) ==
    /\ a \in Nat /\ l \in Nat
    /\ IF a = 0 THEN l = 0 ELSE l < a
    /\ m \in [Cells(a) -> Byte]
    /\ t \in Seq(Char) /\ Len(t) = l
    /\ \A i \in 1 .. l : m[i - 1] = t[i]

Shape == Holds(alloc, len, mem, text)

\* While strbuf_read runs the text it began with is still at the beginning.
ReadInv ==
    /\ before \in [alloc : Nat, len : Nat, text : Seq(Char)]
    /\ doing = "read" =>
          /\ alloc > 0
          /\ before.len = Len(before.text)
          /\ before.len <= len
          /\ \A i \in 1 .. before.len : before.text[i] = text[i]
          /\ before.alloc = 0 => before.len = 0

\* The inductive invariant.
BufInv ==
    /\ Shape
    /\ doing \in {"nothing", "read", "line", "getline"}
    /\ Idle => mem[len] = NUL
    /\ ReadInv

-----------------------------------------------------------------------------
\* ALLOC_GROW never shrinks, and gives what is asked for.
LEMMA EnoughIs ==
    ASSUME NEW nr \in Nat, NEW a \in Nat
    PROVE  Enough(nr, a) \in Nat /\ Enough(nr, a) >= nr /\ Enough(nr, a) >= a
<1>1. Slack \in Nat
    BY StrBufAssumption
<1>2. AllocNr(a) \in Nat
    BY <1>1 DEF AllocNr
<1> QED
    BY <1>2 DEF Enough

\* strbuf_grow leaves room for the NUL.
LEMMA GrownIs ==
    ASSUME Shape, NEW extra \in Nat
    PROVE  /\ Grown(extra) \in Nat /\ Grown(extra) >= alloc
           /\ Grown(extra) > len + extra
<1>1. alloc \in Nat /\ len + extra + 1 \in Nat /\ len \in Nat
    BY DEF Shape, Holds
<1>2. /\ Enough(len + extra + 1, alloc) \in Nat
      /\ Enough(len + extra + 1, alloc) >= len + extra + 1
      /\ Enough(len + extra + 1, alloc) >= alloc
    BY <1>1, EnoughIs
<1> QED
    BY <1>1, <1>2 DEF Grown

LEMMA DataIsSeq ==
    ASSUME NEW data \in Data
    PROVE  data \in Seq(Char) /\ Len(data) \in Nat
<1>1. PICK n \in 0 .. MaxData : data \in [1 .. n -> Char]
    BY DEF Data
<1>2. n \in Nat
    BY StrBufAssumption
<1> QED
    BY <1>1, <1>2

LEMMA OneChar ==
    ASSUME NEW c \in Char
    PROVE  <<c>> \in Seq(Char) /\ Len(<<c>>) = 1 /\ <<c>>[1] = c
OBVIOUS

\* What is written at the end of the buffer, with a NUL or without.
LEMMA WrittenHolds ==
    ASSUME Shape, NEW a \in Nat, NEW data \in Seq(Char),
           a >= alloc, a > len + Len(data)
    PROVE  /\ Holds(a, len + Len(data), Terminated(a, len, data), text \o data)
           /\ Terminated(a, len, data)[len + Len(data)] = NUL
           /\ Holds(a, len + Len(data), Written(a, len, data), text \o data)
<1> DEFINE d == Len(data)
           T == Terminated(a, len, data)
           W == Written(a, len, data)
           t == text \o data
<1>1. /\ alloc \in Nat /\ len \in Nat /\ text \in Seq(Char) /\ Len(text) = len
      /\ mem \in [Cells(alloc) -> Byte] /\ \A i \in 1 .. len : mem[i - 1] = text[i]
      /\ IF alloc = 0 THEN len = 0 ELSE len < alloc
    BY DEF Shape, Holds
<1>2. d \in Nat /\ DOMAIN data = 1 .. d /\ \A i \in 1 .. d : data[i] \in Char
    BY LenProperties, ElementOfSeq
<1>3. /\ t \in Seq(Char) /\ Len(t) = len + d
      /\ \A i \in 1 .. len + d : t[i] = IF i <= len THEN text[i] ELSE data[i - len]
    BY <1>1, ConcatProperties
<1>4. Cells(a) = 0 .. a - 1 /\ a > 0
    BY <1>1, <1>2 DEF Cells
<1>5. \A i \in Nat : Kept(i) \in Byte
    BY <1>1 DEF Kept, Byte
<1>6. \A i \in Cells(a) : len <= i /\ i < len + d => i - len + 1 \in 1 .. d
    BY <1>1, <1>2, <1>4
<1>7. T \in [Cells(a) -> Byte] /\ W \in [Cells(a) -> Byte]
    BY <1>2, <1>4, <1>5, <1>6 DEF Terminated, Written, Byte
<1>8. ASSUME NEW i \in 1 .. len + d
      PROVE  T[i - 1] = t[i] /\ W[i - 1] = t[i]
    <2>1. i - 1 \in Cells(a)
        BY <1>1, <1>2, <1>4
    <2>2. CASE i <= len
        <3>1. Kept(i - 1) = text[i]
            BY <1>1, <2>2 DEF Kept, Cells
        <3> QED
            BY <1>1, <1>2, <1>3, <2>1, <2>2, <3>1 DEF Terminated, Written
    <2>3. CASE i > len
        BY <1>1, <1>2, <1>3, <2>1, <2>3 DEF Terminated, Written
    <2> QED
        BY <1>1, <1>2, <2>2, <2>3
<1>9. T[len + d] = NUL
    BY <1>1, <1>2, <1>4 DEF Terminated
<1> QED
    BY <1>1, <1>2, <1>3, <1>4, <1>7, <1>8, <1>9 DEF Holds

\* The first n characters, when a NUL is put after them.
LEMMA CutHolds ==
    ASSUME Shape, NEW n \in 0 .. len
    PROVE  /\ Holds(alloc, n, [mem EXCEPT ![n] = NUL], SubSeq(text, 1, n))
           /\ [mem EXCEPT ![n] = NUL][n] = NUL
<1>1. /\ alloc \in Nat /\ len \in Nat /\ text \in Seq(Char) /\ Len(text) = len
      /\ mem \in [Cells(alloc) -> Byte] /\ \A i \in 1 .. len : mem[i - 1] = text[i]
      /\ IF alloc = 0 THEN len = 0 ELSE len < alloc
    BY DEF Shape, Holds
<1>2. \A i \in 1 .. len : text[i] \in Char
    BY <1>1, ElementOfSeq
<1>3. /\ SubSeq(text, 1, n) \in Seq(Char) /\ Len(SubSeq(text, 1, n)) = n
      /\ \A i \in 1 .. n : SubSeq(text, 1, n)[i] = text[i]
    BY <1>1, <1>2, SubSeqProperties
<1>4. n \in Cells(alloc)
    BY <1>1 DEF Cells
<1>5. [mem EXCEPT ![n] = NUL] \in [Cells(alloc) -> Byte]
    BY <1>1, <1>4 DEF Byte
<1>6. \A i \in 1 .. n : i - 1 # n /\ i - 1 \in Cells(alloc)
    BY <1>1 DEF Cells
<1>7. \A i \in 1 .. n : [mem EXCEPT ![n] = NUL][i - 1] = text[i]
    BY <1>1, <1>6
<1> QED
    BY <1>1, <1>3, <1>4, <1>5, <1>7 DEF Holds

\* Data is added, with enough room.
LEMMA AddedToHolds ==
    ASSUME BufInv, Idle, NEW a \in Nat, NEW data \in Seq(Char),
           a >= alloc, a > len + Len(data), AddedTo(a, data)
    PROVE  BufInv'
<1>1. /\ Holds(a, len + Len(data), Terminated(a, len, data), text \o data)
      /\ Terminated(a, len, data)[len + Len(data)] = NUL
    BY WrittenHolds DEF BufInv
<1>2. Shape' /\ mem'[len'] = NUL
    BY <1>1 DEF AddedTo, Shape
<1>3. doing' = "nothing" /\ before' = before
    BY DEF AddedTo, Idle
<1> QED
    BY <1>2, <1>3 DEF BufInv, ReadInv, Idle

\* Growing for what is added is enough.
LEMMA AddGrown ==
    ASSUME BufInv, Idle, NEW extra \in Nat, NEW data \in Seq(Char),
           Len(data) <= extra, AddedTo(Grown(extra), data)
    PROVE  BufInv'
<1>1. Shape /\ len \in Nat /\ Len(data) \in Nat
    BY LenProperties DEF BufInv, Shape, Holds
<1>2. Grown(extra) \in Nat /\ Grown(extra) >= alloc /\ Grown(extra) > len + extra
    BY <1>1, GrownIs
<1>3. Grown(extra) > len + Len(data)
    BY <1>1, <1>2
<1> QED
    BY <1>2, <1>3, AddedToHolds

\* The text is cut.
LEMMA CutKeeps ==
    ASSUME BufInv, Idle, NEW n \in 0 .. len,
           len' = n, mem' = [mem EXCEPT ![n] = NUL], text' = SubSeq(text, 1, n),
           UNCHANGED <<alloc, doing, before>>
    PROVE  BufInv'
<1>1. Shape' /\ mem'[len'] = NUL
    BY CutHolds DEF BufInv, Shape
<1> QED
    BY <1>1 DEF BufInv, ReadInv, Idle

\* Room for one more character.
LEMMA OneMore ==
    ASSUME Shape
    PROVE  LineRoom \in Nat /\ LineRoom >= alloc /\ LineRoom > len + 1
<1>1. alloc \in Nat /\ len \in Nat /\ (IF alloc = 0 THEN len = 0 ELSE len < alloc)
    BY DEF Shape, Holds
<1>2. Grown(1) \in Nat /\ Grown(1) >= alloc /\ Grown(1) > len + 1
    BY GrownIs
<1> QED
    BY <1>1, <1>2 DEF LineRoom, Avail

-----------------------------------------------------------------------------
LEMMA ReleaseKeeps == ASSUME BufInv, Release PROVE BufInv'
<1>1. mem' \in [{0} -> Byte] /\ mem'[0] = NUL
    BY DEF Release, Freed, Byte
<1>2. text' \in Seq(Char) /\ Len(text') = 0
    BY DEF Release
<1>3. Shape' /\ mem'[len'] = NUL
    BY <1>1, <1>2 DEF Release, Freed, Shape, Holds, Cells
<1> QED
    BY <1>3 DEF Release, BufInv, ReadInv, Idle

LEMMA LTrimKeeps == ASSUME BufInv, LTrim PROVE BufInv'
<1>1. PICK n \in 0 .. len :
        /\ len' = len - n
        /\ mem' = [i \in DOMAIN mem |->
                      IF i < len - n THEN mem[i + n] ELSE IF i = len - n THEN NUL ELSE mem[i]]
        /\ text' = SubSeq(text, n + 1, len)
    BY DEF LTrim
<1>2. /\ alloc \in Nat /\ len \in Nat /\ text \in Seq(Char) /\ Len(text) = len
      /\ mem \in [Cells(alloc) -> Byte] /\ \A i \in 1 .. len : mem[i - 1] = text[i]
      /\ IF alloc = 0 THEN len = 0 ELSE len < alloc
    BY DEF BufInv, Shape, Holds
<1>3. \A i \in n + 1 .. len : text[i] \in Char
    BY <1>2, ElementOfSeq
<1>4. /\ text' \in Seq(Char) /\ Len(text') = len - n
      /\ \A i \in 1 .. len - n : text'[i] = text[i + n]
    <2>1. /\ SubSeq(text, n + 1, len) \in Seq(Char)
          /\ Len(SubSeq(text, n + 1, len)) = IF n + 1 <= len THEN len - (n + 1) + 1 ELSE 0
          /\ \A i \in 1 .. len - (n + 1) + 1 :
                SubSeq(text, n + 1, len)[i] = text[(n + 1) + i - 1]
        BY <1>2, <1>3, SubSeqProperties
    <2> QED
        BY <1>1, <1>2, <2>1
<1>5. /\ DOMAIN mem = Cells(alloc)
      /\ \A i \in Cells(alloc) : i \in Nat
      /\ \A i \in Cells(alloc) : i < len - n => i + n \in Cells(alloc)
      /\ len - n \in Cells(alloc)
      /\ \A i \in 1 .. len - n : i - 1 \in Cells(alloc)
    BY <1>2 DEF Cells
<1>6. mem' \in [Cells(alloc) -> Byte] /\ mem'[len'] = NUL
    BY <1>1, <1>2, <1>5 DEF Byte
<1>7. \A i \in 1 .. len - n : mem'[i - 1] = text'[i]
    BY <1>1, <1>2, <1>4, <1>5
<1>8. alloc' = alloc /\ doing' = doing /\ before' = before /\ Idle
    BY DEF LTrim
<1>9. len' \in Nat /\ (IF alloc = 0 THEN len' = 0 ELSE len' < alloc) /\ len' = len - n
    BY <1>1, <1>2
<1>10. Shape'
    BY <1>2, <1>4, <1>6, <1>7, <1>8, <1>9 DEF Shape, Holds
<1> QED
    BY <1>6, <1>8, <1>10 DEF BufInv, ReadInv, Idle

LEMMA AddDupKeeps == ASSUME BufInv, AddDup PROVE BufInv'
<1>1. PICK pos \in 0 .. len : \E n \in 0 .. len - pos :
        /\ alloc' = Grown(n)
        /\ mem' = Terminated(Grown(n), len, [k \in 1 .. n |-> mem[pos + k - 1]])
        /\ len' = len + n
        /\ text' = text \o SubSeq(text, pos + 1, pos + n)
    BY DEF AddDup
<1>2. PICK n \in 0 .. len - pos :
        /\ alloc' = Grown(n)
        /\ mem' = Terminated(Grown(n), len, [k \in 1 .. n |-> mem[pos + k - 1]])
        /\ len' = len + n
        /\ text' = text \o SubSeq(text, pos + 1, pos + n)
    BY <1>1
<1>3. /\ Shape /\ alloc \in Nat /\ len \in Nat /\ text \in Seq(Char) /\ Len(text) = len
      /\ \A i \in 1 .. len : mem[i - 1] = text[i]
    BY DEF BufInv, Shape, Holds
<1>4. \A i \in pos + 1 .. pos + n : text[i] \in Char
    BY <1>3, ElementOfSeq
<1> DEFINE data == SubSeq(text, pos + 1, pos + n)
<1>5. /\ data \in Seq(Char) /\ Len(data) = n
      /\ \A i \in 1 .. n : data[i] = text[pos + i]
    <2>1. /\ data \in Seq(Char)
          /\ Len(data) = IF pos + 1 <= pos + n THEN pos + n - (pos + 1) + 1 ELSE 0
          /\ \A i \in 1 .. pos + n - (pos + 1) + 1 : data[i] = text[(pos + 1) + i - 1]
        <3>1. pos + 1 \in Int /\ pos + n \in Int
            BY <1>3
        <3> QED
            BY <1>4, <3>1, SubSeqProperties
    <2> QED
        BY <1>3, <2>1
<1>6. [k \in 1 .. n |-> mem[pos + k - 1]] = data
    <2>1. \A k \in 1 .. n : mem[pos + k - 1] = data[k]
        BY <1>3, <1>5
    <2>2. data = [k \in 1 .. n |-> data[k]]
        BY <1>3, <1>5, LenProperties
    <2> QED
        BY <2>1, <2>2
<1>7. AddedTo(Grown(n), data)
    BY <1>2, <1>5, <1>6 DEF AddDup, AddedTo
<1>8. Idle /\ n \in Nat /\ Len(data) <= n
    BY <1>3, <1>5 DEF AddDup
<1> QED
    BY <1>5, <1>7, <1>8, AddGrown

\* Characters are counted from one, bytes from zero.
LEMMA IndexInside ==
    ASSUME NEW a \in Nat, NEW e \in Nat, e < a, NEW k \in 1 .. e
    PROVE  k - 1 \in Cells(a) /\ k - 1 # a - 1
BY DEF Cells

LEMMA SpliceKeeps == ASSUME BufInv, Splice PROVE BufInv'
<1>1. PICK pos \in 0 .. len : \E n \in 0 .. len - pos : \E data \in Data :
        LET end == len + Len(data) - n
            room == IF Len(data) >= n THEN Grown(Len(data) - n) ELSE alloc
        IN  /\ alloc' = room
            /\ mem' = [i \in Cells(room) |->
                          IF i < pos THEN mem[i]
                          ELSE IF i < pos + Len(data) THEN data[i - pos + 1]
                          ELSE IF i < end THEN mem[i - Len(data) + n]
                          ELSE IF i = end THEN NUL ELSE Kept(i)]
            /\ len' = end
            /\ text' = SubSeq(text, 1, pos) \o data \o SubSeq(text, pos + n + 1, len)
    BY DEF Splice
<1>2. PICK n \in 0 .. len - pos : \E data \in Data :
        LET end == len + Len(data) - n
            room == IF Len(data) >= n THEN Grown(Len(data) - n) ELSE alloc
        IN  /\ alloc' = room
            /\ mem' = [i \in Cells(room) |->
                          IF i < pos THEN mem[i]
                          ELSE IF i < pos + Len(data) THEN data[i - pos + 1]
                          ELSE IF i < end THEN mem[i - Len(data) + n]
                          ELSE IF i = end THEN NUL ELSE Kept(i)]
            /\ len' = end
            /\ text' = SubSeq(text, 1, pos) \o data \o SubSeq(text, pos + n + 1, len)
    BY <1>1
<1>3. PICK data \in Data :
        LET end == len + Len(data) - n
            room == IF Len(data) >= n THEN Grown(Len(data) - n) ELSE alloc
        IN  /\ alloc' = room
            /\ mem' = [i \in Cells(room) |->
                          IF i < pos THEN mem[i]
                          ELSE IF i < pos + Len(data) THEN data[i - pos + 1]
                          ELSE IF i < end THEN mem[i - Len(data) + n]
                          ELSE IF i = end THEN NUL ELSE Kept(i)]
            /\ len' = end
            /\ text' = SubSeq(text, 1, pos) \o data \o SubSeq(text, pos + n + 1, len)
    BY <1>2
<1> DEFINE d == Len(data)
           end == len + d - n
           head == SubSeq(text, 1, pos)
           tail == SubSeq(text, pos + n + 1, len)
<1>4. /\ alloc \in Nat /\ len \in Nat /\ text \in Seq(Char) /\ Len(text) = len
      /\ mem \in [Cells(alloc) -> Byte] /\ \A i \in 1 .. len : mem[i - 1] = text[i]
      /\ IF alloc = 0 THEN len = 0 ELSE len < alloc
      /\ Shape
    BY DEF BufInv, Shape, Holds
<1>5. /\ data \in Seq(Char) /\ d \in Nat /\ DOMAIN data = 1 .. d
      /\ \A i \in 1 .. d : data[i] \in Char
    BY DataIsSeq, LenProperties, ElementOfSeq
<1>6. \A i \in 1 .. len : text[i] \in Char
    BY <1>4, ElementOfSeq
<1>7. /\ head \in Seq(Char) /\ Len(head) = pos
      /\ \A i \in 1 .. pos : head[i] = text[i]
    BY <1>4, <1>6, SubSeqProperties
<1>8. /\ tail \in Seq(Char) /\ Len(tail) = len - pos - n
      /\ \A i \in 1 .. len - pos - n : tail[i] = text[i + pos + n]
    <2>1. /\ tail \in Seq(Char)
          /\ Len(tail) = IF pos + n + 1 <= len THEN len - (pos + n + 1) + 1 ELSE 0
          /\ \A i \in 1 .. len - (pos + n + 1) + 1 : tail[i] = text[(pos + n + 1) + i - 1]
        BY <1>4, <1>6, SubSeqProperties
    <2> QED
        BY <1>4, <2>1
<1>9. /\ head \o data \in Seq(Char) /\ Len(head \o data) = pos + d
      /\ \A i \in 1 .. pos + d :
            (head \o data)[i] = IF i <= pos THEN head[i] ELSE data[i - pos]
    BY <1>5, <1>7, ConcatProperties
<1>10. /\ text' \in Seq(Char) /\ Len(text') = end
       /\ \A i \in 1 .. end :
            text'[i] = IF i <= pos THEN text[i]
                       ELSE IF i <= pos + d THEN data[i - pos]
                       ELSE text[i - d + n]
    <2>1. text' = (head \o data) \o tail
        BY <1>3
    <2>2. /\ text' \in Seq(Char) /\ Len(text') = (pos + d) + (len - pos - n)
          /\ \A i \in 1 .. (pos + d) + (len - pos - n) :
                text'[i] = IF i <= pos + d THEN (head \o data)[i] ELSE tail[i - (pos + d)]
        <3>1. /\ (head \o data) \o tail \in Seq(Char)
              /\ Len((head \o data) \o tail) = Len(head \o data) + Len(tail)
              /\ \A i \in 1 .. Len(head \o data) + Len(tail) :
                    ((head \o data) \o tail)[i] =
                        IF i <= Len(head \o data) THEN (head \o data)[i]
                        ELSE tail[i - Len(head \o data)]
            <4>1. tail \in Seq(Char) /\ head \o data \in Seq(Char)
                BY <1>8, <1>9
            <4> HIDE DEF head, tail
            <4> QED
                BY <4>1, ConcatProperties, Zenon
        <3> HIDE DEF head, tail, d
        <3> QED
            BY <2>1, <1>8, <1>9, <3>1
    <2>3. (pos + d) + (len - pos - n) = end
        BY <1>4, <1>5
    <2>4. ASSUME NEW i \in 1 .. end
          PROVE  text'[i] = IF i <= pos THEN text[i]
                            ELSE IF i <= pos + d THEN data[i - pos]
                            ELSE text[i - d + n]
        <3>1. CASE i <= pos + d
            <4>1. i \in 1 .. pos + d
                BY <1>5, <3>1
            <4>2. text'[i] = IF i <= pos THEN head[i] ELSE data[i - pos]
                BY <1>4, <1>5, <1>9, <2>2, <2>3, <3>1, <4>1
            <4>3. i <= pos => head[i] = text[i]
                BY <1>7, <4>1
            <4> QED
                BY <3>1, <4>2, <4>3
        <3>2. CASE i > pos + d
            <4>1. i - (pos + d) \in 1 .. len - pos - n
                BY <1>4, <1>5, <3>2
            <4>2. tail[i - (pos + d)] = text[i - (pos + d) + pos + n]
                BY <1>8, <4>1
            <4>3. i - (pos + d) + pos + n = i - d + n
                BY <1>4, <1>5
            <4>4. text'[i] = tail[i - (pos + d)]
                <5>1. i \in 1 .. (pos + d) + (len - pos - n) /\ ~(i <= pos + d)
                    BY <1>4, <1>5, <2>3, <3>2
                <5> HIDE DEF tail, head, d, end
                <5> QED
                    BY <2>2, <5>1
            <4>5. ~(i <= pos) /\ ~(i <= pos + d)
                BY <1>5, <3>2
            <4> QED
                BY <4>2, <4>3, <4>4, <4>5
        <3> QED
            BY <1>4, <1>5, <3>1, <3>2
    <2> QED
        BY <2>2, <2>3, <2>4
<1>11. alloc' \in Nat /\ alloc' >= alloc /\ end < alloc' /\ end \in Nat
    <2>1. CASE d >= n
        <3>1. d - n \in Nat
            BY <1>5, <2>1
        <3>2. Grown(d - n) \in Nat /\ Grown(d - n) >= alloc /\ Grown(d - n) > len + (d - n)
            BY <1>4, <3>1, GrownIs
        <3>3. alloc' = Grown(d - n)
            BY <1>3, <2>1
        <3>4. len \in Nat /\ n \in Nat /\ d \in Nat /\ n <= len
            BY <1>4, <1>5
        <3>5. end = len + (d - n) /\ end \in Nat
            BY <2>1, <3>4
        <3> QED
            BY <3>2, <3>3, <3>5
    <2>2. CASE d < n
        BY <1>3, <1>4, <1>5, <2>2
    <2> QED
        BY <1>5, <2>1, <2>2
<1>12. mem' = [i \in Cells(alloc') |->
                  IF i < pos THEN mem[i]
                  ELSE IF i < pos + d THEN data[i - pos + 1]
                  ELSE IF i < end THEN mem[i - d + n]
                  ELSE IF i = end THEN NUL ELSE Kept(i)]
    BY <1>3
<1>13. /\ Cells(alloc') = 0 .. alloc' - 1 /\ end \in Cells(alloc')
       /\ \A i \in 0 .. len - 1 : mem[i] \in Byte
       /\ \A i \in Nat : Kept(i) \in Byte
    BY <1>4, <1>11 DEF Cells, Kept, Byte
<1>14. ASSUME NEW i \in Cells(alloc')
       PROVE  mem'[i] \in Byte
    <2>1. i \in Nat
        BY <1>11, <1>13
    <2>2. CASE i < pos
        BY <1>4, <1>12, <1>13, <2>1, <2>2
    <2>3. CASE ~(i < pos) /\ i < pos + d
        <3>1. i - pos + 1 \in 1 .. d
            BY <1>4, <1>5, <2>1, <2>3
        <3> QED
            BY <1>5, <1>12, <2>3, <3>1 DEF Byte
    <2>4. CASE ~(i < pos) /\ ~(i < pos + d) /\ i < end
        <3>1. i - d + n \in 0 .. len - 1
            BY <1>4, <1>5, <2>1, <2>4
        <3> QED
            BY <1>12, <1>13, <2>4, <3>1
    <2>5. CASE ~(i < pos) /\ ~(i < pos + d) /\ ~(i < end)
        BY <1>12, <1>13, <2>1, <2>5 DEF Byte
    <2> QED
        BY <2>2, <2>3, <2>4, <2>5
<1>15. mem' \in [Cells(alloc') -> Byte] /\ mem'[end] = NUL
    <2>1. ~(end < pos) /\ ~(end < pos + d)
        BY <1>4, <1>5
    <2>2. mem' \in [Cells(alloc') -> Byte]
        BY <1>12, <1>14, Zenon
    <2>3. mem'[end] = NUL
        <3>1. ~(end < end)
            BY <1>11
        <3> HIDE DEF end, d
        <3> QED
            BY <1>12, <1>13, <2>1, <3>1
    <2> QED
        BY <2>2, <2>3
<1>16. ASSUME NEW i \in 1 .. end
       PROVE  mem'[i - 1] = text'[i]
    <2>1. i - 1 \in Cells(alloc')
        BY <1>11, IndexInside
    <2>2. CASE i <= pos
        BY <1>4, <1>10, <1>12, <2>1, <2>2
    <2>3. CASE i > pos /\ i <= pos + d
        <3>1. (i - 1) - pos + 1 = i - pos
            BY <1>4
        <3> QED
            BY <1>4, <1>5, <1>10, <1>12, <2>1, <2>3, <3>1
    <2>4. CASE i > pos + d
        <3>1. i - d + n \in 1 .. len /\ (i - 1) - d + n = (i - d + n) - 1
            BY <1>4, <1>5, <2>4
        <3>2. ~(i - 1 < pos) /\ ~(i - 1 < pos + d) /\ i - 1 < end
            BY <1>4, <1>5, <2>4
        <3>3. mem'[i - 1] = mem[(i - 1) - d + n]
            BY <1>12, <2>1, <3>2
        <3>4. text'[i] = text[i - d + n]
            <4>1. ~(i <= pos) /\ ~(i <= pos + d)
                BY <1>5, <2>4
            <4> QED
                BY <1>10, <4>1
        <3>5. mem[(i - d + n) - 1] = text[i - d + n]
            BY <1>4, <3>1
        <3> QED
            BY <3>1, <3>3, <3>4, <3>5
    <2> QED
        BY <1>4, <1>5, <2>2, <2>3, <2>4
<1>17. doing' = doing /\ before' = before /\ Idle
    BY DEF Splice
<1>18. len' = end
    BY <1>3
<1>19. Shape'
    BY <1>10, <1>11, <1>15, <1>16, <1>18 DEF Shape, Holds
<1> QED
    BY <1>15, <1>17, <1>18, <1>19 DEF BufInv, ReadInv, Idle

LEMMA AddFKeeps == ASSUME BufInv, AddF PROVE BufInv'
<1>1. PICK data \in Data :
        LET first == IF Avail = 0 THEN Grown(FormatChunk) ELSE alloc
            room == IF Len(data) > first - len - 1
                    THEN Enough(len + Len(data) + 1, first) ELSE first
        IN  /\ alloc' = room
            /\ mem' = [Terminated(room, len, data) EXCEPT ![room - 1] = NUL]
            /\ len' = len + Len(data)
            /\ text' = text \o data
    BY DEF AddF
<1> DEFINE first == IF Avail = 0 THEN Grown(FormatChunk) ELSE alloc
           T == Terminated(alloc', len, data)
<1>2. /\ Shape /\ alloc \in Nat /\ len \in Nat
      /\ IF alloc = 0 THEN len = 0 ELSE len < alloc
    BY DEF BufInv, Shape, Holds
<1>3. data \in Seq(Char) /\ Len(data) \in Nat
    BY DataIsSeq
<1>4. first \in Nat /\ first >= alloc /\ first > len
    <2>1. FormatChunk \in Nat
        BY StrBufAssumption
    <2>2. /\ Grown(FormatChunk) \in Nat /\ Grown(FormatChunk) >= alloc
          /\ Grown(FormatChunk) > len + FormatChunk
        BY <1>2, <2>1, GrownIs
    <2> QED
        BY <1>2, <2>1, <2>2 DEF Avail
<1>5. alloc' \in Nat /\ alloc' >= alloc /\ alloc' > len + Len(data)
    <2>1. alloc' = IF Len(data) > first - len - 1
                   THEN Enough(len + Len(data) + 1, first) ELSE first
        BY <1>1
    <2>2. /\ Enough(len + Len(data) + 1, first) \in Nat
          /\ Enough(len + Len(data) + 1, first) >= len + Len(data) + 1
          /\ Enough(len + Len(data) + 1, first) >= first
        <3> HIDE DEF first
        <3>1. len + Len(data) + 1 \in Nat
            BY <1>2, <1>3
        <3> QED
            BY <1>4, <3>1, EnoughIs
    <2> HIDE DEF first
    <2> QED
        BY <1>2, <1>3, <1>4, <2>1, <2>2
<1>6. /\ Holds(alloc', len + Len(data), T, text \o data)
      /\ T[len + Len(data)] = NUL
    BY <1>2, <1>3, <1>5, WrittenHolds
<1>7. mem' = [T EXCEPT ![alloc' - 1] = NUL] /\ len' = len + Len(data) /\ text' = text \o data
    BY <1>1
<1> HIDE DEF T
<1>8. T \in [Cells(alloc') -> Byte] /\ \A i \in 1 .. len' : T[i - 1] = text'[i]
    BY <1>6, <1>7 DEF Holds
<1>9. mem' \in [Cells(alloc') -> Byte]
    BY <1>7, <1>8 DEF Byte
<1>10. ASSUME NEW i \in 1 .. len'
       PROVE  mem'[i - 1] = text'[i]
    <2>0. len + Len(data) \in Nat /\ i \in 1 .. len + Len(data)
        BY <1>2, <1>3, <1>7
    <2>1. i - 1 \in Cells(alloc') /\ i - 1 # alloc' - 1
        BY <1>5, <2>0, IndexInside
    <2> QED
        BY <1>7, <1>8, <2>1
<1>11. mem'[len'] = NUL
    <2>1. len' \in Cells(alloc')
        BY <1>2, <1>3, <1>5, <1>7 DEF Cells
    <2> QED
        BY <1>6, <1>7, <1>8, <2>1
<1>12. Shape'
    BY <1>5, <1>6, <1>7, <1>9, <1>10 DEF Holds, Shape
<1>13. doing' = doing /\ before' = before /\ Idle
    BY DEF AddF
<1> QED
    BY <1>11, <1>12, <1>13 DEF BufInv, ReadInv, Idle

-----------------------------------------------------------------------------
\* What strbuf_read and strbuf_read_once grow by is never nothing.
LEMMA ReadRoomIs ==
    ASSUME Shape, NEW hint \in 0 .. MaxData
    PROVE  LET room == Grown(IF hint = 0 THEN ReadChunk ELSE hint)
           IN  room \in Nat /\ room >= alloc /\ room > len /\ room > 0
<1> DEFINE extra == IF hint = 0 THEN ReadChunk ELSE hint
<1>1. extra \in Nat
    BY StrBufAssumption
<1>2. alloc \in Nat /\ len \in Nat
    BY DEF Shape, Holds
<1> HIDE DEF extra
<1>3. Grown(extra) \in Nat /\ Grown(extra) >= alloc /\ Grown(extra) > len + extra
    BY <1>1, GrownIs
<1>4. Grown(extra) \in Nat /\ Grown(extra) >= alloc /\ Grown(extra) > len /\ Grown(extra) > 0
    BY <1>1, <1>2, <1>3
<1> QED
    BY <1>4 DEF extra

LEMMA StartReadKeeps == ASSUME BufInv, StartRead PROVE BufInv'
<1>1. PICK hint \in 0 .. MaxData :
        /\ alloc' = Grown(IF hint = 0 THEN ReadChunk ELSE hint)
        /\ mem' = Written(alloc', len, <<>>)
    BY DEF StartRead
<1>3. /\ Shape /\ alloc \in Nat /\ len \in Nat /\ text \in Seq(Char) /\ Len(text) = len
      /\ IF alloc = 0 THEN len = 0 ELSE len < alloc
    BY DEF BufInv, Shape, Holds
<1>4. alloc' \in Nat /\ alloc' >= alloc /\ alloc' > len /\ alloc' > 0
    BY <1>1, <1>3, ReadRoomIs
<1>5. <<>> \in Seq(Char) /\ Len(<<>>) = 0 /\ text \o <<>> = text
    BY <1>3, ConcatEmptySeq
<1>6. Holds(alloc', len + Len(<<>>), Written(alloc', len, <<>>), text \o <<>>)
    <2>1. alloc' > len + Len(<<>>)
        BY <1>3, <1>4, <1>5
    <2> QED
        BY <1>3, <1>4, <1>5, <2>1, WrittenHolds
<1>7. len + Len(<<>>) = len /\ len' = len /\ text' = text
    BY <1>3, <1>5 DEF StartRead
<1>8. Shape'
    BY <1>1, <1>5, <1>6, <1>7 DEF Shape
<1>9. before' = [alloc |-> alloc, len |-> len, text |-> text] /\ doing' = "read"
    BY DEF StartRead
<1>10. ReadInv'
    BY <1>3, <1>4, <1>7, <1>9 DEF ReadInv
<1> QED
    BY <1>8, <1>9, <1>10 DEF BufInv, Idle

LEMMA ReadLastKeeps == ASSUME BufInv, ReadLast PROVE BufInv'
<1>1. PICK data \in Data :
        /\ Len(data) < alloc - len - 1
        /\ mem' = Terminated(alloc, len, data)
        /\ len' = len + Len(data)
        /\ text' = text \o data
    BY DEF ReadLast
<1>2. Shape /\ alloc \in Nat /\ len \in Nat
    BY DEF BufInv, Shape, Holds
<1>3. data \in Seq(Char) /\ Len(data) \in Nat
    BY DataIsSeq
<1>4. /\ Holds(alloc, len + Len(data), Terminated(alloc, len, data), text \o data)
      /\ Terminated(alloc, len, data)[len + Len(data)] = NUL
    BY <1>1, <1>2, <1>3, WrittenHolds
<1>5. alloc' = alloc /\ doing' = "nothing" /\ before' = NoRead
    BY DEF ReadLast
<1>6. Shape' /\ mem'[len'] = NUL
    BY <1>1, <1>4, <1>5 DEF Shape
<1> QED
    BY <1>5, <1>6 DEF BufInv, ReadInv, NoRead, Idle

LEMMA ReadMoreKeeps == ASSUME BufInv, ReadMore PROVE BufInv'
<1>1. PICK data \in Data :
        /\ Len(data) = alloc - len - 1
        /\ alloc' = Enough(len + Len(data) + ReadChunk + 1, alloc)
        /\ mem' = Written(alloc', len, data)
        /\ len' = len + Len(data)
        /\ text' = text \o data
    BY DEF ReadMore
<1>2. Shape /\ alloc \in Nat /\ len \in Nat /\ text \in Seq(Char) /\ Len(text) = len
    BY DEF BufInv, Shape, Holds
<1>3. data \in Seq(Char) /\ Len(data) \in Nat
    BY DataIsSeq
<1>4. alloc' \in Nat /\ alloc' >= alloc /\ alloc' > len + Len(data)
    <2>1. ReadChunk \in Nat
        BY StrBufAssumption
    <2>2. /\ Enough(len + Len(data) + ReadChunk + 1, alloc) \in Nat
          /\ Enough(len + Len(data) + ReadChunk + 1, alloc) >= len + Len(data) + ReadChunk + 1
          /\ Enough(len + Len(data) + ReadChunk + 1, alloc) >= alloc
        <3>1. len + Len(data) + ReadChunk + 1 \in Nat
            BY <1>2, <1>3, <2>1
        <3> QED
            BY <1>2, <3>1, EnoughIs
    <2> QED
        BY <1>1, <1>2, <1>3, <2>1, <2>2
<1>5. Holds(alloc', len + Len(data), Written(alloc', len, data), text \o data)
    BY <1>2, <1>3, <1>4, WrittenHolds
<1>6. Shape'
    BY <1>1, <1>5 DEF Shape
<1>7. doing = "read" /\ doing' = doing /\ before' = before
    BY DEF ReadMore
<1>8. ReadInv
    BY DEF BufInv
<1>9. \A i \in 1 .. len : text'[i] = text[i]
    BY <1>1, <1>2, <1>3, ConcatProperties
<1>10. ReadInv'
    <2>1. /\ before.len = Len(before.text) /\ before.len <= len /\ before.len \in Nat
          /\ \A i \in 1 .. before.len : before.text[i] = text[i]
          /\ before.alloc = 0 => before.len = 0
          /\ before \in [alloc : Nat, len : Nat, text : Seq(Char)]
        BY <1>7, <1>8 DEF ReadInv
    <2>2. before.len <= len' /\ alloc' > 0
        BY <1>1, <1>2, <1>3, <1>4, <2>1
    <2>3. \A i \in 1 .. before.len : before.text[i] = text'[i]
        BY <1>2, <1>9, <2>1
    <2> QED
        BY <1>7, <2>1, <2>2, <2>3 DEF ReadInv
<1> QED
    BY <1>6, <1>7, <1>10 DEF BufInv, Idle

LEMMA ReadFailsKeeps == ASSUME BufInv, ReadFails PROVE BufInv'
<1>1. doing = "read" /\ text' = before.text /\ doing' = "nothing" /\ before' = NoRead
    BY DEF ReadFails
<1>2. /\ before.len = Len(before.text) /\ before.len <= len /\ before.len \in Nat
      /\ \A i \in 1 .. before.len : before.text[i] = text[i]
      /\ before.alloc = 0 => before.len = 0
      /\ before.text \in Seq(Char)
    BY <1>1 DEF BufInv, ReadInv
<1>3. /\ Shape /\ alloc \in Nat /\ len \in Nat /\ text \in Seq(Char) /\ Len(text) = len
    BY DEF BufInv, Shape, Holds
<1>4. CASE before.alloc = 0
    <2>1. alloc' = 0 /\ len' = 0 /\ mem' = [i \in {0} |-> NUL]
        BY <1>4 DEF ReadFails, Freed
    <2>2. Len(text') = 0 /\ text' \in Seq(Char)
        BY <1>1, <1>2, <1>4
    <2>3. Shape' /\ mem'[len'] = NUL
        BY <2>1, <2>2 DEF Shape, Holds, Cells, Byte
    <2> QED
        BY <1>1, <2>3 DEF BufInv, ReadInv, NoRead, Idle
<1>5. CASE before.alloc # 0
    <2>1. alloc' = alloc /\ len' = before.len /\ mem' = [mem EXCEPT ![before.len] = NUL]
        BY <1>5 DEF ReadFails
    <2>2. before.len \in 0 .. len
        BY <1>2, <1>3
    <2>3. /\ Holds(alloc, before.len, [mem EXCEPT ![before.len] = NUL],
                   SubSeq(text, 1, before.len))
          /\ [mem EXCEPT ![before.len] = NUL][before.len] = NUL
        BY <1>3, <2>2, CutHolds
    <2>4. SubSeq(text, 1, before.len) = before.text
        <3>1. \A i \in 1 .. before.len : text[i] \in Char
            BY <1>2, <1>3, ElementOfSeq
        <3>2. /\ SubSeq(text, 1, before.len) \in Seq(Char)
              /\ Len(SubSeq(text, 1, before.len)) = before.len
              /\ \A i \in 1 .. before.len : SubSeq(text, 1, before.len)[i] = text[i]
            BY <1>2, <3>1, SubSeqProperties
        <3> QED
            BY <1>2, <3>2, SeqEqual
    <2>5. Shape' /\ mem'[len'] = NUL
        BY <1>1, <2>1, <2>3, <2>4 DEF Shape
    <2> QED
        BY <1>1, <2>5 DEF BufInv, ReadInv, NoRead, Idle
<1> QED
    BY <1>4, <1>5

LEMMA ReadOnceKeeps == ASSUME BufInv, ReadOnce PROVE BufInv'
<1>1. PICK hint \in 0 .. MaxData : \E data \in Data :
        LET room == Grown(IF hint = 0 THEN ReadChunk ELSE hint)
        IN  Len(data) <= room - len - 1 /\ AddedTo(room, data)
    BY DEF ReadOnce
<1> DEFINE room == Grown(IF hint = 0 THEN ReadChunk ELSE hint)
<1>2. PICK data \in Data : Len(data) <= room - len - 1 /\ AddedTo(room, data)
    BY <1>1
<1>3. Shape /\ alloc \in Nat /\ len \in Nat /\ Idle
    BY DEF BufInv, Shape, Holds, ReadOnce
<1>4. room \in Nat /\ room >= alloc /\ room > len
    BY <1>3, ReadRoomIs
<1>5. data \in Seq(Char) /\ Len(data) \in Nat
    BY DataIsSeq
<1> HIDE DEF room
<1>6. room > len + Len(data)
    BY <1>2, <1>3, <1>4, <1>5
<1> QED
    BY <1>2, <1>3, <1>4, <1>5, <1>6, AddedToHolds

-----------------------------------------------------------------------------
LEMMA StartLineKeeps == ASSUME BufInv, StartLine PROVE BufInv'
<1>1. Shape /\ len \in Nat /\ 0 \in 0 .. len /\ Idle /\ text \in Seq(Char)
    BY DEF BufInv, Shape, Holds, StartLine
<1>2. /\ Holds(alloc, 0, [mem EXCEPT ![0] = NUL], SubSeq(text, 1, 0))
      /\ [mem EXCEPT ![0] = NUL][0] = NUL
    BY <1>1, CutHolds
<1>3. SubSeq(text, 1, 0) = <<>>
    BY <1>1
<1>4. /\ alloc' = alloc /\ len' = 0 /\ mem' = [mem EXCEPT ![0] = NUL] /\ text' = <<>>
      /\ doing' \in {"line", "getline"} /\ before' = before
    BY DEF StartLine
<1>5. Shape' /\ mem'[len'] = NUL
    BY <1>2, <1>3, <1>4 DEF Shape
<1> QED
    BY <1>1, <1>4, <1>5 DEF BufInv, ReadInv, Idle

\* One character put after the others, with a NUL or without.
LEMMA CharHolds ==
    ASSUME Shape, NEW c \in Char
    PROVE  /\ Holds(LineRoom, len + 1, Terminated(LineRoom, len, <<c>>), Append(text, c))
           /\ Terminated(LineRoom, len, <<c>>)[len + 1] = NUL
           /\ Holds(LineRoom, len + 1, Written(LineRoom, len, <<c>>), Append(text, c))
<1>1. text \in Seq(Char) /\ len \in Nat /\ alloc \in Nat
    BY DEF Shape, Holds
<1>2. <<c>> \in Seq(Char) /\ Len(<<c>>) = 1
    BY OneChar
<1>3. LineRoom \in Nat /\ LineRoom >= alloc /\ LineRoom > len + 1
    BY OneMore
<1>4. Append(text, c) = text \o <<c>>
    BY <1>1, AppendIsConcat
<1>5. /\ Holds(LineRoom, len + Len(<<c>>), Terminated(LineRoom, len, <<c>>), text \o <<c>>)
      /\ Terminated(LineRoom, len, <<c>>)[len + Len(<<c>>)] = NUL
      /\ Holds(LineRoom, len + Len(<<c>>), Written(LineRoom, len, <<c>>), text \o <<c>>)
    <2>1. LineRoom > len + Len(<<c>>)
        BY <1>2, <1>3
    <2> QED
        BY <1>2, <1>3, <2>1, WrittenHolds
<1> QED
    BY <1>2, <1>4, <1>5

LEMMA LineCharKeeps == ASSUME BufInv, LineChar PROVE BufInv'
<1>1. PICK c \in Char :
        /\ alloc' = LineRoom
        /\ mem' = Written(LineRoom, len, <<c>>)
        /\ len' = len + 1
        /\ text' = Append(text, c)
    BY DEF LineChar
<1>2. Holds(LineRoom, len + 1, Written(LineRoom, len, <<c>>), Append(text, c))
    BY CharHolds DEF BufInv
<1>3. Shape'
    BY <1>1, <1>2 DEF Shape
<1> QED
    BY <1>3 DEF LineChar, BufInv, ReadInv, Idle

LEMMA LineTermKeeps == ASSUME BufInv, LineTerm PROVE BufInv'
<1>1. PICK c \in Char :
        LET stored == Terminated(LineRoom, len, <<c>>) IN
        /\ alloc' = LineRoom
        /\ IF doing = "getline"
           THEN mem' = [stored EXCEPT ![len] = NUL] /\ UNCHANGED <<len, text>>
           ELSE mem' = stored /\ len' = len + 1 /\ text' = Append(text, c)
    BY DEF LineTerm
<1> DEFINE stored == Terminated(LineRoom, len, <<c>>)
<1>2. /\ Holds(LineRoom, len + 1, stored, Append(text, c))
      /\ stored[len + 1] = NUL
    BY CharHolds DEF BufInv
<1>3. doing' = "nothing" /\ before' = before
    BY DEF LineTerm
<1>4. /\ alloc \in Nat /\ len \in Nat /\ text \in Seq(Char) /\ Len(text) = len
    BY DEF BufInv, Shape, Holds
<1> HIDE DEF stored
<1>5. CASE doing = "getline"
    <2>1. mem' = [stored EXCEPT ![len] = NUL] /\ len' = len /\ text' = text /\ alloc' = LineRoom
        BY <1>1, <1>5 DEF stored
    <2>2. LineRoom \in Nat /\ LineRoom > len + 1
        BY OneMore DEF BufInv
    <2>3. /\ stored \in [Cells(LineRoom) -> Byte]
          /\ \A i \in 1 .. len + 1 : stored[i - 1] = Append(text, c)[i]
        BY <1>2 DEF Holds
    <2>4. len \in Cells(LineRoom) /\ \A i \in 1 .. len : i - 1 \in Cells(LineRoom)
        BY <1>4, <2>2 DEF Cells
    <2>5. mem' \in [Cells(LineRoom) -> Byte] /\ mem'[len'] = NUL
        BY <2>1, <2>3, <2>4 DEF Byte
    <2>6. ASSUME NEW i \in 1 .. len
          PROVE  mem'[i - 1] = text'[i]
        <3>1. i - 1 # len /\ i \in 1 .. len + 1
            BY <1>4
        <3>2. Append(text, c)[i] = text[i]
            BY <1>4, AppendProperties
        <3> QED
            BY <2>1, <2>3, <2>4, <3>1, <3>2
    <2>7. Shape'
        BY <1>4, <2>1, <2>2, <2>5, <2>6 DEF Shape, Holds
    <2> QED
        BY <1>3, <2>5, <2>7 DEF BufInv, ReadInv, Idle
<1>6. CASE doing # "getline"
    <2>1. mem' = stored /\ len' = len + 1 /\ text' = Append(text, c) /\ alloc' = LineRoom
        BY <1>1, <1>6 DEF stored
    <2>2. Shape' /\ mem'[len'] = NUL
        BY <1>2, <2>1 DEF Shape
    <2> QED
        BY <1>3, <2>2 DEF BufInv, ReadInv, Idle
<1> QED
    BY <1>5, <1>6

LEMMA LineEofKeeps == ASSUME BufInv, LineEof PROVE BufInv'
<1>1. /\ Shape /\ len \in Nat /\ len \in 0 .. len /\ text \in Seq(Char) /\ Len(text) = len
      /\ mem \in [Cells(alloc) -> Byte] /\ alloc \in Nat
      /\ (IF alloc = 0 THEN len = 0 ELSE len < alloc)
      /\ \A i \in 1 .. len : mem[i - 1] = text[i]
    BY DEF BufInv, Shape, Holds
<1>2. /\ mem' = [mem EXCEPT ![len] = NUL] /\ doing' = "nothing"
      /\ alloc' = alloc /\ len' = len /\ before' = before /\ text' = text
    BY DEF LineEof
<1>3. len \in Cells(alloc) /\ \A i \in 1 .. len : i - 1 \in Cells(alloc) /\ i - 1 # len
    BY <1>1 DEF Cells
<1>4. mem' \in [Cells(alloc) -> Byte] /\ mem'[len'] = NUL
    BY <1>1, <1>2, <1>3 DEF Byte
<1>5. \A i \in 1 .. len : mem'[i - 1] = text'[i]
    BY <1>1, <1>2, <1>3
<1>6. Shape'
    BY <1>1, <1>2, <1>4, <1>5 DEF Shape, Holds
<1> QED
    BY <1>2, <1>4, <1>6 DEF BufInv, ReadInv, Idle

-----------------------------------------------------------------------------
LEMMA InitHolds == Init => BufInv
<1> SUFFICES ASSUME Init PROVE BufInv
    OBVIOUS
<1>1. mem \in [{0} -> Byte] /\ mem[0] = NUL
    BY DEF Init, Byte
<1>2. text \in Seq(Char) /\ Len(text) = 0 /\ alloc = 0 /\ len = 0
    BY DEF Init
<1>3. Shape
    BY <1>1, <1>2 DEF Shape, Holds, Cells
<1>4. doing = "nothing" /\ before \in [alloc : Nat, len : Nat, text : Seq(Char)]
    BY DEF Init, NoRead
<1> QED
    BY <1>1, <1>2, <1>3, <1>4 DEF BufInv, ReadInv, Idle

LEMMA NextKeeps == BufInv /\ [Next]_vars => BufInv'
<1> SUFFICES ASSUME BufInv, [Next]_vars PROVE BufInv'
    OBVIOUS
<1>1. Shape /\ alloc \in Nat /\ len \in Nat
    BY DEF BufInv, Shape, Holds
<1>2. \A data \in Data : data \in Seq(Char) /\ Len(data) \in Nat
    BY DataIsSeq
<1>3. CASE Release
    BY <1>3, ReleaseKeeps
<1>4. CASE Grow
    <2>1. PICK extra \in 0 .. MaxData : AddedTo(Grown(extra), <<>>)
        BY <1>4 DEF Grow
    <2>2. extra \in Nat /\ <<>> \in Seq(Char) /\ Len(<<>>) <= extra /\ Idle
        BY <1>4 DEF Grow
    <2> QED
        BY <2>1, <2>2, AddGrown
<1>5. CASE SetLen
    BY <1>5, CutKeeps DEF SetLen
<1>6. CASE RTrim
    BY <1>6, CutKeeps DEF RTrim
<1>7. CASE LTrim
    BY <1>7, LTrimKeeps
<1>8. CASE Splice
    BY <1>8, SpliceKeeps
<1>9. CASE Add
    <2>1. PICK data \in Data : AddedTo(Grown(Len(data)), data)
        BY <1>9 DEF Add
    <2>2. data \in Seq(Char) /\ Len(data) \in Nat /\ Len(data) <= Len(data) /\ Idle
        BY <1>2, <1>9 DEF Add
    <2> QED
        BY <2>1, <2>2, AddGrown
<1>10. ASSUME Idle, NEW c \in Char, AddedTo(LineRoom, <<c>>)
       PROVE  BufInv'
    <2>1. <<c>> \in Seq(Char) /\ Len(<<c>>) = 1
        BY OneChar
    <2>2. LineRoom \in Nat /\ LineRoom >= alloc /\ LineRoom > len + Len(<<c>>)
        BY <1>1, <2>1, OneMore
    <2> QED
        BY <1>10, <2>1, <2>2, AddedToHolds
<1>11. CASE AddCh
    BY <1>10, <1>11 DEF AddCh, LineRoom
<1>12. CASE Complete
    BY <1>10, <1>12 DEF Complete, LineRoom
<1>13. CASE AddDup
    BY <1>13, AddDupKeeps
<1>14. CASE AddF
    BY <1>14, AddFKeeps
<1>15. CASE FRead
    <2>1. PICK size \in 0 .. MaxData : \E data \in Data :
            /\ Len(data) <= size
            /\ UNCHANGED vars \/ AddedTo(Grown(size), data)
        BY <1>15 DEF FRead
    <2>2. PICK data \in Data :
            Len(data) <= size /\ (UNCHANGED vars \/ AddedTo(Grown(size), data))
        BY <2>1
    <2>3. size \in Nat /\ data \in Seq(Char) /\ Idle
        BY <1>2, <1>15 DEF FRead
    <2>4. CASE UNCHANGED vars
        BY <2>4 DEF vars, BufInv, Shape, ReadInv, Idle
    <2>5. CASE AddedTo(Grown(size), data)
        BY <2>2, <2>3, <2>5, AddGrown
    <2> QED
        BY <2>2, <2>4, <2>5
<1>16. CASE ReadOnce
    BY <1>16, ReadOnceKeeps
<1>17. CASE StartRead
    BY <1>17, StartReadKeeps
<1>18. CASE ReadLast
    BY <1>18, ReadLastKeeps
<1>19. CASE ReadMore
    BY <1>19, ReadMoreKeeps
<1>20. CASE ReadFails
    BY <1>20, ReadFailsKeeps
<1>21. CASE StartLine
    BY <1>21, StartLineKeeps
<1>22. CASE LineChar
    BY <1>22, LineCharKeeps
<1>23. CASE LineTerm
    BY <1>23, LineTermKeeps
<1>24. CASE LineEof
    BY <1>24, LineEofKeeps
<1>25. CASE UNCHANGED vars
    BY <1>25 DEF vars, BufInv, Shape, ReadInv, Idle
<1> QED
    BY <1>3, <1>4, <1>5, <1>6, <1>7, <1>8, <1>9, <1>11, <1>12, <1>13, <1>14, <1>15,
       <1>16, <1>17, <1>18, <1>19, <1>20, <1>21, <1>22, <1>23, <1>24, <1>25
    DEF Next

LEMMA InvSuffices == BufInv => BufferHoldsText
<1> SUFFICES ASSUME BufInv PROVE BufferHoldsText
    OBVIOUS
<1>1. /\ alloc \in Nat /\ len \in Nat /\ Len(text) = len
      /\ mem \in [Cells(alloc) -> Byte] /\ \A i \in 1 .. len : mem[i - 1] = text[i]
      /\ IF alloc = 0 THEN len = 0 ELSE len < alloc
    BY DEF BufInv, Shape, Holds
<1>2. DOMAIN mem = Cells(alloc) /\ len \in Cells(alloc)
    BY <1>1 DEF Cells
<1> QED
    BY <1>1, <1>2 DEF BufferHoldsText, BufInv

\* Whatever calls are made in whatever order, and however a read ends, the
\* buffer holds the text they put together, with a NUL after it, inside the
\* memory it has (strbuf.c).
THEOREM BufferIsSound == Spec => []BufferHoldsText
<1>1. Init => BufInv
    BY InitHolds
<1>2. BufInv /\ [Next]_vars => BufInv'
    BY NextKeeps
<1>3. BufInv => BufferHoldsText
    BY InvSuffices
<1> QED
    BY <1>1, <1>2, <1>3, PTL DEF Spec

=============================================================================

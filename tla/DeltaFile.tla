------------------------------ MODULE DeltaFile -----------------------------
(***************************************************************************)
(* How a file's bytes are cut into lines (delta-file.c).  The array holds  *)
(* where each line ends, after a mark in front of the first byte, and has  *)
(* room for one mark per line and two more.                                *)
(*                                                                         *)
(* Of a file without bytes the code looks at the byte in front of the      *)
(* buffer (split_in_place, delta-file.c:41), which may be any byte: such a *)
(* file has no line, or one line of no bytes.                              *)
(***************************************************************************)
EXTENDS Naturals, Sequences, SequencesExt, FiniteSets, Ascend

CONSTANT NL   \* the byte that ends a line

NewlinesIn(bytes) == {k \in DOMAIN bytes : bytes[k] = NL}

\* The last line has no newline.
EndsInLine(bytes) == bytes # <<>> /\ bytes[Len(bytes)] # NL

CountLines(bytes) ==
    Cardinality(NewlinesIn(bytes)) + (IF EndsInLine(bytes) THEN 1 ELSE 0)

\* Mutant: no mark in front of the first byte.
RoomForLines(bytes) == CountLines(bytes) + 1

\* Marks the array has room for.
RoomForMarks(bytes) == CountLines(bytes) + 2

\* Positions count from one; nlBefore: there is a newline before the buffer.
SplitInPlace(bytes, nlBefore) ==
    IF bytes = <<>> THEN IF nlBefore THEN <<0>> ELSE <<0, 0>>
    ELSE <<0>> \o Ascending(NewlinesIn(bytes))
               \o (IF EndsInLine(bytes) THEN <<Len(bytes)>> ELSE <<>>)

LinesAt(bytes, marks) ==
    [k \in 1 .. Len(marks) - 1 |-> SubSeq(bytes, marks[k] + 1, marks[k + 1])]

=============================================================================

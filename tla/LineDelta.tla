----------------------------- MODULE LineDelta ------------------------------
(***************************************************************************)
(* The comparison of two files line by line (delta.c): a table of arrows   *)
(* is filled from the first lines on, for a longest common subsequence,    *)
(* and is then followed backwards from the last lines to list what was     *)
(* deleted from the old file and what was inserted into the new one.       *)
(*                                                                         *)
(* The trace ends as soon as one of the files is used up (delta.c:184), so *)
(* leading lines that only the other file has are not listed.  What holds  *)
(* of the listing is therefore said of the lines after the cell (i, j)     *)
(* that the trace has reached.                                             *)
(***************************************************************************)
EXTENDS Integers, Sequences, FiniteSets

CONSTANT Line   \* what a line can be

VARIABLES
    old, new,   \* the lines of the two files: bf and af in the code
    phase,      \* "idle", "fill", "trace" or "result"
    i, j,       \* the cell to fill, or the one the trace has reached
    prev, sol,  \* the length above and to the left, and the length to the left
    vprev,      \* lengths of the row above, as far as it is still needed
    vsol,       \* lengths of the row that is being filled
    table,      \* the arrows; a cell that was not filled is "unset"
    diff,       \* listed lines, the last one found first
    common      \* pairs of equal lines the trace went through

delta == <<old, new, phase, i, j, prev, sol, vprev, vsol, table, diff, common>>

Arrow == {"up", "left", "tilt"}
DiffLine == [sign : {"+", "-"}, index : Nat, text : Line]

n == Len(old)
m == Len(new)

Cells == (0 .. n) \X (0 .. m)

\* How often a sign is listed: the counters insertions and deletions.
Count(sign) == Cardinality({k \in DOMAIN diff : diff[k].sign = sign})

Insertions == Count("+")
Deletions == Count("-")

-----------------------------------------------------------------------------
DeltaInit ==
    /\ old = <<>> /\ new = <<>>
    /\ phase = "idle"
    /\ i = 0 /\ j = 0
    /\ prev = 0 /\ sol = 0
    /\ vprev = [c \in {0} |-> 0] /\ vsol = [c \in {0} |-> 0]
    /\ table = [x \in {<<0, 0>>} |-> "unset"]
    /\ diff = <<>> /\ common = {}

\* The vectors are cleared; the arrows keep what malloc found there.
Start(o, a) ==
    /\ phase = "idle"
    /\ old' = o /\ new' = a
    /\ phase' = "fill"
    /\ i' = 1 /\ j' = 1
    /\ prev' = 0 /\ sol' = 0
    /\ vprev' = [c \in 0 .. Len(a) |-> 0]
    /\ vsol' = [c \in 0 .. Len(a) |-> 0]
    /\ table' = [x \in (0 .. Len(o)) \X (0 .. Len(a)) |-> "unset"]
    /\ diff' = <<>> /\ common' = {}

\* The length and the arrow of the cell (i, j).
Cell ==
    IF old[i] = new[j] THEN [len |-> prev + 1, arrow |-> "tilt"]
    ELSE IF prev < sol THEN [len |-> sol, arrow |-> "left"]
    ELSE [len |-> vprev[j], arrow |-> "up"]

FillCell ==
    /\ phase = "fill" /\ i <= n /\ j <= m
    /\ vsol' = [vsol EXCEPT ![j] = Cell.len]
    /\ table' = [table EXCEPT ![<<i, j>>] = Cell.arrow]
    /\ prev' = vprev[j]
    /\ vprev' = [vprev EXCEPT ![j] = Cell.len]
    /\ sol' = Cell.len
    /\ j' = j + 1
    /\ UNCHANGED <<old, new, phase, i, diff, common>>

\* Mutant: prev and sol of the last row are used for the next one.
NextRowStale ==
    /\ phase = "fill" /\ i <= n /\ j > m
    /\ i' = i + 1
    /\ j' = 1
    /\ UNCHANGED <<old, new, phase, prev, sol, vprev, vsol, table, diff, common>>

NextRow ==
    /\ phase = "fill" /\ i <= n /\ j > m
    /\ i' = i + 1
    /\ j' = 1
    /\ prev' = vprev[0]
    /\ sol' = vsol[0]
    /\ UNCHANGED <<old, new, phase, vprev, vsol, table, diff, common>>

\* Mutant: the last row is left out.
FillDoneEarly ==
    /\ phase = "fill" /\ i >= n
    /\ phase' = "trace"
    /\ i' = n /\ j' = m
    /\ UNCHANGED <<old, new, prev, sol, vprev, vsol, table, diff, common>>

FillDone ==
    /\ phase = "fill" /\ i > n
    /\ phase' = "trace"
    /\ i' = n /\ j' = m
    /\ UNCHANGED <<old, new, prev, sol, vprev, vsol, table, diff, common>>

Tracing == phase = "trace" /\ i # 0 /\ j # 0

TraceUp ==
    /\ Tracing /\ table[<<i, j>>] = "up"
    /\ diff' = <<[sign |-> "-", index |-> i, text |-> old[i]]>> \o diff
    /\ i' = i - 1
    /\ UNCHANGED <<old, new, phase, j, prev, sol, vprev, vsol, table, common>>

TraceLeft ==
    /\ Tracing /\ table[<<i, j>>] = "left"
    /\ diff' = <<[sign |-> "+", index |-> j, text |-> new[j]]>> \o diff
    /\ j' = j - 1
    /\ UNCHANGED <<old, new, phase, i, prev, sol, vprev, vsol, table, common>>

\* Mutant: only the new file's line is passed over.
TraceTiltOne ==
    /\ Tracing /\ table[<<i, j>>] = "tilt"
    /\ common' = common \union {<<i, j>>}
    /\ j' = j - 1
    /\ UNCHANGED <<old, new, phase, i, prev, sol, vprev, vsol, table, diff>>

TraceTilt ==
    /\ Tracing /\ table[<<i, j>>] = "tilt"
    /\ common' = common \union {<<i, j>>}
    /\ i' = i - 1
    /\ j' = j - 1
    /\ UNCHANGED <<old, new, phase, prev, sol, vprev, vsol, table, diff>>

TraceDone ==
    /\ phase = "trace" /\ (i = 0 \/ j = 0)
    /\ phase' = "result"
    /\ UNCHANGED <<old, new, i, j, prev, sol, vprev, vsol, table, diff, common>>

\* The caller takes the result; the table is freed.
Release ==
    /\ phase = "result"
    /\ phase' = "idle"
    /\ old' = <<>> /\ new' = <<>>
    /\ i' = 0 /\ j' = 0
    /\ prev' = 0 /\ sol' = 0
    /\ vprev' = [c \in {0} |-> 0] /\ vsol' = [c \in {0} |-> 0]
    /\ table' = [x \in {<<0, 0>>} |-> "unset"]
    /\ diff' = <<>> /\ common' = {}

Compute ==
    \/ FillCell \/ NextRow \/ FillDone
    \/ TraceUp \/ TraceLeft \/ TraceTilt \/ TraceDone

Begin ==
    /\ old' \in Seq(Line) /\ new' \in Seq(Line)
    /\ Start(old', new')

DeltaNext ==
    \/ Begin
    \/ Compute
    \/ Release

DeltaSpec == DeltaInit /\ [][DeltaNext]_delta

-----------------------------------------------------------------------------
(* Properties *)

\* The trace never follows an arrow that was not written, though the memory
\* of the table is not cleared (delta.c:53), and never leaves the table.
ReadsWrittenCells ==
    phase = "trace" => i \in 0 .. n /\ j \in 0 .. m /\ (Tracing => table[<<i, j>>] \in Arrow)

\* An arrow that says two lines are equal is right.
TiltsAreEqual ==
    \A r \in 1 .. n, c \in 1 .. m : table[<<r, c>>] = "tilt" => old[r] = new[c]

Listed(sign) == {diff[k].index : k \in {k \in DOMAIN diff : diff[k].sign = sign}}

\* Listed lines are lines of the files, from the first one to the last.
ListedTexts ==
    /\ \A k \in DOMAIN diff :
            diff[k].text = (IF diff[k].sign = "-" THEN old ELSE new)[diff[k].index]
    /\ \A k, l \in DOMAIN diff :
            k < l /\ diff[k].sign = diff[l].sign => diff[k].index < diff[l].index

\* The lines the trace has been through are deleted, inserted or common.
EveryLineOnce ==
    /\ Listed("-") \intersect {p[1] : p \in common} = {}
    /\ Listed("-") \union {p[1] : p \in common} = (i + 1) .. n
    /\ Listed("+") \intersect {p[2] : p \in common} = {}
    /\ Listed("+") \union {p[2] : p \in common} = (j + 1) .. m

\* Pairs of lines that are in the same order in both files.
InOrder(pairs) == \A p, q \in pairs : p[1] < q[1] <=> p[2] < q[2]

\* Common lines are equal and in the same order.
CommonInOrder ==
    /\ \A p \in common : old[p[1]] = new[p[2]]
    /\ InOrder(common)

\* The lines the trace has been through are listed, each one once: a deleted
\* line is one of the old file, an inserted one is one of the new file, and
\* the rest of both are equal lines in the same order.  So the listing, with
\* the common lines, turns the one end of a file into the other.
EditScript ==
    phase \in {"trace", "result"} => ListedTexts /\ EveryLineOnce /\ CommonInOrder

\* Pairs of equal lines of the two files.
Equal == {p \in (1 .. n) \X (1 .. m) : old[p[1]] = new[p[2]]}

\* No lines are listed that need not be: the trace finds as many common lines
\* as the last cell counts, and no common subsequence of the files is longer,
\* though a cell compares the length to the left with the one diagonally
\* above and not with the one above (delta.c:131, 174).
LongestCommon ==
    phase = "result" =>
        /\ Cardinality(common) = vsol[m]
        /\ \A pairs \in SUBSET Equal :
                InOrder(pairs) => Cardinality(pairs) <= Cardinality(common)

=============================================================================

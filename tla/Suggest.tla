------------------------------ MODULE Suggest -------------------------------
(***************************************************************************)
(* What peg proposes for a word that is no command (main.c): the command   *)
(* at the smallest distance.  The distance is computed in three rows that  *)
(* change places; its four weights are all the length of the word.         *)
(***************************************************************************)
EXTENDS Naturals, Sequences, SequencesExt, FiniteSetsExt

CONSTANTS
    Commands,   \* the names, in the order of the list
    MinStart    \* what `min' starts with, 100000 in the code

(***************************************************************************)
(* The row of the character i of s, from the two rows before it: row[j+1]  *)
(* is the distance of the first i characters of s from the first j of t.   *)
(***************************************************************************)
Row(s, t, w, before, now, i) ==
    LET Cell(row, j) ==
            Min({now[j] + (IF s[i] # t[j] THEN w ELSE 0), now[j + 1] + w, row[j] + w}
                \union (IF i > 1 /\ j > 1 /\ s[i - 1] = t[j] /\ s[i] = t[j - 1]
                        THEN {before[j - 1] + w} ELSE {}))
        Longer(row, j) == Append(row, Cell(row, j))
        filled[j \in 0 .. Len(t)] ==
            IF j = 0 THEN <<i * w>> ELSE Longer(filled[j - 1], j)
    IN  filled[Len(t)]

\* There is no row before the first one, and none is looked at.
Levenshtein(s, t, w) ==
    LET first == [j \in 1 .. Len(t) + 1 |-> (j - 1) * w]
        Turned(two, i) == <<two[2], Row(s, t, w, two[1], two[2], i)>>
        rows[i \in 0 .. Len(s)] ==
            IF i = 0 THEN <<first, first>> ELSE Turned(rows[i - 1], i)
    IN  rows[Len(s)][2][Len(t) + 1]

MatchOf(word, name) == Levenshtein(word, name, Len(word))

Matching(word) == [c \in DOMAIN Commands |-> MatchOf(word, Commands[c])]

\* Mutant: the last of the nearest.
SuggestedLast(word) ==
    LET match == Matching(word)
        nearest == Min(Range(match))
    IN  IF nearest < MinStart THEN Max({c \in DOMAIN Commands : match[c] = nearest}) ELSE 0

\* The command that is proposed, 0 if no distance is below the start value,
\* in which case the pointer to it is not initialised.
Suggested(word) ==
    LET match == Matching(word)
        nearest == Min(Range(match))
    IN  IF nearest < MinStart THEN Min({c \in DOMAIN Commands : match[c] = nearest}) ELSE 0

-----------------------------------------------------------------------------
(* Whether at most n edits lead from s to t, when no place is edited twice: *)
(* the last character is common, or was left out, put in, changed, or       *)
(* swapped with the one before it.                                          *)

Within(s, t, n) ==
    LET within[p \in (0 .. Len(s)) \X (0 .. Len(t)) \X (0 .. n)] ==
            LET i == p[1]
                j == p[2]
                k == p[3]
            IN  \/ i = 0 /\ j = 0
                \/ i > 0 /\ j > 0 /\ s[i] = t[j] /\ within[<<i - 1, j - 1, k>>]
                \/ i > 0 /\ k > 0 /\ within[<<i - 1, j, k - 1>>]
                \/ j > 0 /\ k > 0 /\ within[<<i, j - 1, k - 1>>]
                \/ i > 0 /\ j > 0 /\ k > 0 /\ within[<<i - 1, j - 1, k - 1>>]
                \/ /\ i > 1 /\ j > 1 /\ k > 0 /\ s[i - 1] = t[j] /\ s[i] = t[j - 1]
                   /\ within[<<i - 2, j - 2, k - 1>>]
    IN  within[<<Len(s), Len(t), n>>]

=============================================================================

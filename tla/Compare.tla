------------------------------ MODULE Compare -------------------------------
(***************************************************************************)
(* The command `compare' (delta.c): two commits, or the work tree and the  *)
(* HEAD commit, file by file.  Every pair of files goes through LineDelta. *)
(*                                                                         *)
(* Of two commits the first one's list is walked, every entry is looked up *)
(* in the second one's, and what was not looked up is listed at the end.   *)
(* What is printed collects in `out' first; titles of files that only the  *)
(* first commit has stay there until a later section is printed.           *)
(*                                                                         *)
(* With full output the lists of all files are kept in one result.  Its    *)
(* list forgets the first common file's lines when an empty list is        *)
(* appended to it (strbuf-list.h:66: its `last' is still its head), and    *)
(* those of no later file: `carried' is what the next section repeats.     *)
(***************************************************************************)
EXTENDS LineDelta, DeltaFile

CONSTANTS
    Paths,   \* names of files
    NoPath,  \* the missing name of a title
    Byte,    \* what files are made of
    Files,   \* what a file can hold
    Cases    \* comparisons to make: what is compared, and with which output

\* An entry of a commit, or a file that a directory walk finds; a file that
\* was named and is not there is "GONE".
Row == [path : Paths, flag : {"NEW", "MODIFIED", "DELETED", "GONE"}, text : Files]

\* A list has a path once: a commit takes over entries that are not deleted,
\* and nothing is staged twice (commit.c:433, PegStore).
Once(list) == \A k, l \in DOMAIN list : list[k].path = list[l].path => k = l

ASSUME CompareAssumption ==
    /\ NoPath \notin Paths
    /\ Files \subseteq Seq(Byte)
    /\ \A c \in Cases :
            /\ c.kind \in {"commits", "files"} /\ c.minimal \in BOOLEAN
            /\ c.first \in Seq(Row) /\ Once(c.first)
            /\ c.second \in Seq(Row) /\ Once(c.second)
    /\ \A file \in Files, nlBefore \in BOOLEAN :
            LinesAt(file, SplitInPlace(file, nlBefore)) \in Seq(Line)

VARIABLES
    case,      \* the comparison: [kind, minimal, first, second]
    second,    \* entries of the second commit, with the flags compare sets
    at,        \* position in the list that is walked
    step,      \* "next", "delta", "report", "rest" or "done"
    partner,   \* position in the other list of the entry that is compared
    marked,    \* marks of the two files that are compared
    carried,   \* lines of earlier files that are still in the result
    totals,    \* insertions and deletions, summed over files
    appended,  \* how often an empty list was appended to the result's
    out,       \* collected and not printed yet
    printed    \* what was printed, piece by piece

walk == <<second, at, step, partner, marked>>
result == <<carried, totals, appended>>
output == <<out, printed>>
vars == <<delta, case, walk, result, output>>

-----------------------------------------------------------------------------
(* Pieces of output *)

Title(p, q) == [piece |-> "title", names |-> {p, q} \ {NoPath}]
Stat(ins, del) == [piece |-> "stat", insertions |-> ins, deletions |-> del]
Listing(p, lines) == [piece |-> "lines", of |-> p, lines |-> lines]
Whole(p, lines) == [piece |-> "whole", of |-> p, lines |-> lines]
Additions(p, k) == [piece |-> "additions", of |-> p, number |-> k]

-----------------------------------------------------------------------------
Init ==
    /\ DeltaInit
    /\ case \in Cases
    /\ second = case.second
    /\ at = 1
    /\ step = "next"
    /\ partner = 0
    /\ marked = <<>>
    /\ carried = <<>>
    /\ totals = [ins |-> 0, del |-> 0]
    /\ appended = 0
    /\ out = <<>>
    /\ printed = <<>>

\* Entries of the second commit that a name is found in.
Found(name) ==
    {k \in DOMAIN second : second[k].path = name /\ second[k].flag # "DELETED"}

\* The tracked entry of a file of the work tree.
Tracked(name) ==
    {k \in DOMAIN case.first :
        case.first[k].path = name /\ case.first[k].flag # "DELETED"}

-----------------------------------------------------------------------------
(* One pair of files *)

(***************************************************************************)
(* The two contents are cut into lines.  Contents that are equal, and of   *)
(* as many marks, are not compared any further.                            *)
(***************************************************************************)
Prepare(a, b) ==
    \E nlBefore \in [1 .. 2 -> BOOLEAN] :
        LET ma == SplitInPlace(a, nlBefore[1])
            mb == SplitInPlace(b, nlBefore[2])
        IN  /\ marked' = <<[bytes |-> a, marks |-> ma], [bytes |-> b, marks |-> mb]>>
            /\ IF Len(ma) = Len(mb) /\ a = b
               THEN step' = "report" /\ UNCHANGED delta
               ELSE step' = "delta" /\ Start(LinesAt(a, ma), LinesAt(b, mb))

DeltaStep ==
    /\ step = "delta" /\ Compute
    /\ UNCHANGED <<case, walk, result, output>>

\* The result of the pair is there.
Ready == step = "report" \/ (step = "delta" /\ phase = "result")

Taken == IF step = "report" THEN UNCHANGED delta ELSE Release

AddTotals ==
    totals' = [ins |-> totals.ins + Insertions, del |-> totals.del + Deletions]

GoOn ==
    /\ step' = "next"
    /\ at' = at + 1
    /\ partner' = 0
    /\ marked' = <<>>

-----------------------------------------------------------------------------
(* Two commits: do_commit_delta *)

Commits == case.kind = "commits"

\* Nothing is compared with a commit that has no entry.
EmptyCommit ==
    /\ Commits /\ step = "next"
    /\ case.first = <<>> \/ second = <<>>
    /\ step' = "done"
    /\ UNCHANGED <<delta, case, second, at, partner, marked, result, output>>

Walking(list) == step = "next" /\ at <= Len(list) /\ case.first # <<>> /\ second # <<>>

\* DELTA_FLAG, the flag of an entry that was looked up, is 0x2, as NEW is.
DeltaFlag == "NEW"

CommonFile ==
    /\ Commits /\ Walking(case.first)
    /\ LET name == case.first[at].path IN
        /\ Found(name) # {}
        /\ partner' = CHOOSE k \in Found(name) : \A l \in Found(name) : k <= l
        /\ out' = Append(out, Title(name, name))
        /\ second' = [second EXCEPT ![partner'].flag = DeltaFlag]
        /\ Prepare(case.first[at].text, second[partner'].text)
    /\ UNCHANGED <<case, at, result, printed>>

\* Mutant: the title of a file only the first commit has is dropped.
FirstOnlyUntitled ==
    /\ Commits /\ Walking(case.first)
    /\ Found(case.first[at].path) = {}
    /\ out' = <<>>
    /\ printed' = Append(printed, Whole(case.first[at].path, case.first[at].text))
    /\ GoOn
    /\ UNCHANGED <<delta, case, second, result>>

\* Its lines are printed at once, its title waits for the next section.
FirstOnly ==
    /\ Commits /\ Walking(case.first)
    /\ Found(case.first[at].path) = {}
    /\ out' = Append(out, Title(case.first[at].path, NoPath))
    /\ printed' = Append(printed, Whole(case.first[at].path, case.first[at].text))
    /\ GoOn
    /\ UNCHANGED <<delta, case, second, result>>

\* index_delta with minimal output: counts, if there are any.
ReportCounts ==
    /\ Commits /\ case.minimal /\ Ready
    /\ printed' = printed \o out \o
            (IF diff = <<>> THEN <<>> ELSE <<Stat(Insertions, Deletions)>>)
    /\ out' = <<>>
    /\ AddTotals
    /\ Taken /\ GoOn
    /\ UNCHANGED <<case, second, carried, appended>>

\* Mutant: an empty list appended leaves the result's list as it is.
ReportLinesKept ==
    /\ Commits /\ ~case.minimal /\ Ready
    /\ AddTotals
    /\ printed' = printed \o out \o
            (IF step = "report" \/ totals'.ins + totals'.del = 0 THEN <<>>
             ELSE <<Listing(case.first[at].path, diff \o carried)>>)
    /\ out' = <<>>
    /\ carried' = diff \o carried
    /\ appended' = appended + 1
    /\ Taken /\ GoOn
    /\ UNCHANGED <<case, second>>

\* index_delta with full output: the lines in the result, those of earlier
\* files included, unless no file so far had any.
ReportLines ==
    /\ Commits /\ ~case.minimal /\ Ready
    /\ AddTotals
    /\ printed' = printed \o out \o
            (IF step = "report" \/ totals'.ins + totals'.del = 0 THEN <<>>
             ELSE <<Listing(case.first[at].path, diff \o carried)>>)
    /\ out' = <<>>
    /\ carried' = IF appended = 0 THEN <<>> ELSE diff \o carried
    /\ appended' = appended + 1
    /\ Taken /\ GoOn
    /\ UNCHANGED <<case, second>>

FirstDone ==
    /\ Commits /\ step = "next"
    /\ case.first # <<>> /\ second # <<>> /\ at > Len(case.first)
    /\ step' = "rest"
    /\ at' = 1
    /\ UNCHANGED <<delta, case, second, partner, marked, result, output>>

RestSkipped ==
    /\ step = "rest" /\ at <= Len(second) /\ second[at].flag = DeltaFlag
    /\ at' = at + 1
    /\ UNCHANGED <<delta, case, second, step, partner, marked, result, output>>

RestListed ==
    /\ step = "rest" /\ at <= Len(second) /\ second[at].flag # DeltaFlag
    /\ LET e == second[at] IN
        printed' = printed \o out \o
            <<Title(NoPath, e.path),
              IF case.minimal THEN Whole(e.path, e.text)
              ELSE Additions(e.path, CountLines(e.text))>>
    /\ out' = <<>>
    /\ at' = at + 1
    /\ UNCHANGED <<delta, case, second, step, partner, marked, result>>

RestDone ==
    /\ step = "rest" /\ at > Len(second)
    /\ step' = "done"
    /\ UNCHANGED <<delta, case, second, at, partner, marked, result, output>>

-----------------------------------------------------------------------------
(* The work tree and HEAD: check_entry, for every file of a directory walk *)

WorkTree == case.kind = "files"

Checking == WorkTree /\ step = "next" /\ at <= Len(second)

Untracked ==
    /\ Checking
    /\ Tracked(second[at].path) = {}
    /\ GoOn
    /\ UNCHANGED <<delta, case, second, result, output>>

HeadText(name) == case.first[CHOOSE k \in Tracked(name) : TRUE].text

\* A file that was named and is not there.
GoneFile ==
    /\ Checking
    /\ LET name == second[at].path
           lines == CountLines(HeadText(name))
       IN  /\ Tracked(name) # {} /\ second[at].flag = "GONE"
           /\ totals' = [totals EXCEPT !.del = @ + lines]
           /\ printed' = Append(printed, IF case.minimal THEN Stat(0, lines)
                                         ELSE Whole(name, HeadText(name)))
    /\ GoOn
    /\ UNCHANGED <<delta, case, second, carried, appended, out>>

CheckFile ==
    /\ Checking
    /\ Tracked(second[at].path) # {} /\ second[at].flag # "GONE"
    /\ Prepare(HeadText(second[at].path), second[at].text)
    /\ UNCHANGED <<case, second, at, partner, result, output>>

\* Mutant: two deleted lines are not worth a report.
WorthSayingMore == Insertions > 0 \/ Deletions > 2

\* A single deleted line is not reported.
WorthSaying == Insertions > 0 \/ Deletions > 1

ReportFile ==
    /\ WorkTree /\ Ready
    /\ LET name == second[at].path IN
        IF WorthSaying
        THEN /\ AddTotals
             /\ printed' = printed \o
                    <<Title(name, name),
                      IF case.minimal THEN Stat(Insertions, Deletions)
                      ELSE Listing(name, diff)>>
        ELSE UNCHANGED <<totals, printed>>
    /\ Taken /\ GoOn
    /\ UNCHANGED <<case, second, carried, appended, out>>

FilesDone ==
    /\ WorkTree /\ step = "next" /\ at > Len(second)
    /\ step' = "done"
    /\ UNCHANGED <<delta, case, second, at, partner, marked, result, output>>

-----------------------------------------------------------------------------
Next ==
    \/ DeltaStep
    \/ EmptyCommit \/ CommonFile \/ FirstOnly
    \/ ReportCounts \/ ReportLines
    \/ FirstDone \/ RestSkipped \/ RestListed \/ RestDone
    \/ Untracked \/ GoneFile \/ CheckFile \/ ReportFile \/ FilesDone

Spec == Init /\ [][Next]_vars

-----------------------------------------------------------------------------
(* Properties *)

\* The marks fit into the memory that deltafile_init asks for, and the lines
\* between them are the file (delta-file.c:31, 66).
MarksFit ==
    \A f \in {marked[k] : k \in DOMAIN marked} :
        /\ Len(f.marks) <= RoomForMarks(f.bytes)
        /\ FlattenSeq(LinesAt(f.bytes, f.marks)) = f.bytes

Shown == {printed[k] : k \in DOMAIN printed}
Named == UNION {t.names : t \in {t \in Shown : t.piece = "title"}}

LinesOf(bytes) == LinesAt(bytes, SplitInPlace(bytes, TRUE))

\* The same, with the one line a file of no bytes may be taken to have.
MostLinesOf(bytes) == LinesAt(bytes, SplitInPlace(bytes, FALSE))

\* One of two files has the lines of the other at its end.
EndsAlike(s, t) == IsSuffix(s, t) \/ IsSuffix(t, s)

\* `compare' says nothing of a changed file only if the files differ in the
\* leading lines that one of them has, but for one deleted line
\* (delta.c:184, 789).
QuietChange ==
    WorkTree /\ step = "done" =>
        \A k \in DOMAIN second :
            LET name == second[k].path
                was == LinesOf(HeadText(name))
                is == LinesOf(second[k].text)
            IN  Tracked(name) # {} /\ second[k].flag # "GONE" /\ name \notin Named =>
                    \/ EndsAlike(was, is)
                    \/ \E l \in DOMAIN was : EndsAlike(RemoveAt(was, l), is)

\* Names of the second commit that no entry of the first one finds.
Added ==
    {k \in DOMAIN case.second :
        \/ case.second[k].flag = "DELETED"
        \/ \A l \in DOMAIN case.first : case.first[l].path # case.second[k].path}

\* Entries of the first commit that are not found.
Removed == {l \in DOMAIN case.first : Found(case.first[l].path) = {}}

\* Comparing two commits names every file of either one, but for those with
\* the flag NEW that only the second has, and those at the end of the first
\* one's list that only it has, if nothing is printed after them.
FilesNamed ==
    Commits /\ step = "done" /\ case.first # <<>> /\ second # <<>> =>
        LET AddedOld == {k \in Added : case.second[k].flag # "NEW"}
            Trailing == {l \in Removed : l .. Len(case.first) \subseteq Removed}
            Late == IF AddedOld = {} THEN Trailing ELSE {}
        IN  Named = {case.first[l].path : l \in DOMAIN case.first \ Late}
                        \union {case.second[k].path : k \in AddedOld}

\* With full output, the sections of the first two files in both commits
\* show lines of these files, each one once.  A later section also repeats
\* what was shown from the second file on.
OwnLines ==
    step = "done" =>
        \A k \in {k \in DOMAIN printed : printed[k].piece = "lines"} :
            LET name == printed[k].of
                place == CHOOSE l \in DOMAIN case.first : case.first[l].path = name
                was == MostLinesOf(case.first[place].text)
                is == MostLinesOf(second[CHOOSE l \in DOMAIN second :
                                             second[l].path = name].text)
                shown == printed[k].lines
            IN  Cardinality(1 .. place - 1 \ Removed) < 2 =>
                    /\ \A x \in DOMAIN shown :
                            LET file == IF shown[x].sign = "-" THEN was ELSE is
                            IN  /\ shown[x].index \in DOMAIN file
                                /\ shown[x].text = file[shown[x].index]
                    /\ \A x, y \in DOMAIN shown :
                            <<shown[x].sign, shown[x].index>> = <<shown[y].sign, shown[y].index>>
                                => x = y

=============================================================================

------------------------------ MODULE Listing -------------------------------
(***************************************************************************)
(* The commands that only show something: hist, tag without arguments,     *)
(* list, show and status.  What they print is a sequence of rows; a row    *)
(* has the data of a line or of a cell, not its layout.                    *)
(***************************************************************************)
EXTENDS Arguments

\* log_commit, for each commit
Log(cl) ==
    [does |-> "log",
     rows |-> [k \in DOMAIN cl |->
                 [hash |-> cl[k].hash, tag |-> cl[k].tag,
                  message |-> cl[k].message, desc |-> cl[k].desc,
                  name |-> cl[k].name, email |-> cl[k].email, stamp |-> cl[k].stamp]]]

\* list_tags
Tags(cl) == [does |-> "tags", rows |-> SelectSeq([k \in DOMAIN cl |-> cl[k].tag],
                                                 LAMBDA t : t # NoTag)]

-----------------------------------------------------------------------------
(* list *)

\* print_index_list: a new file is an M as well.
EntryRows(c) ==
    [j \in DOMAIN c.place |->
        [mark |-> IF c.place[j].status = "deleted" THEN "D" ELSE "M",
         name |-> c.place[j].name]]

\* print_commit_index_html: a commit without entries ends it.
HtmlRows(cl) ==
    LET empty == {k \in DOMAIN cl : cl[k].place = <<>>}
        upTo == IF empty = {} THEN Len(cl) ELSE Min(empty) - 1
    IN  FlattenSeq([k \in 1 .. upTo |->
            [j \in DOMAIN cl[k].place |->
                [hash |-> cl[k].hash, name |-> cl[k].place[j].name]]])

(***************************************************************************)
(* list_index: the last word counts, --html ends the arguments, and what   *)
(* is not an option of list is looked for among the commits.  Entries at a *)
(* place that was never written are looked for anywhere.                   *)
(***************************************************************************)
ListStart == [commit |-> 0, html |-> FALSE, fails |-> FALSE]

ListArgument(cl, p, a) ==
    IF p.html \/ p.fails \/ a.opt \in {"-f=size", "-f=pack", "-f=both", "-c"} THEN p
    ELSE IF a.opt \in {"--html", "-h"} THEN [p EXCEPT !.html = TRUE]
    ELSE [p EXCEPT !.commit = Find(cl, a.word),
                   !.fails = a.opt # "" \/ Find(cl, a.word) = 0]

ListParsed(cl, args) ==
    LET parsed[k \in 0 .. Len(args)] ==
            IF k = 0 THEN ListStart ELSE ListArgument(cl, parsed[k - 1], args[k])
    IN  parsed

ParseList(cl, args) ==
    LET all == ListParsed(cl, args)[Len(args)]
        to == IF all.commit # 0 THEN all.commit ELSE HeadOf(cl)
    IN  IF cl = <<>> THEN Nothing
        ELSE IF all.fails THEN Dies
        ELSE IF all.html THEN [does |-> "list html", rows |-> HtmlRows(cl)]
        ELSE IF to = 0 THEN Crashes
        ELSE [does |-> "list", commit |-> to, rows |-> EntryRows(cl[to])]

-----------------------------------------------------------------------------
(* show *)

OfCommits == {"--commit", "-hc", "-cc", "--head", "-hs"}

\* show_commit_node, print_html_node: "NULL" stands for no tag.
CommitRow(cl, k) == [id |-> k - 1, commit |-> cl[k]]

\* show_commit_table, print_html_page
CommitTable(cl) == [k \in DOMAIN cl |-> CommitRow(cl, k)]

\* print_head_commit_short
ShortRow(c) == [hash |-> c.hash, message |-> c.message]

\* show_node, show_node_html: the entries of the stage in their order.
StageTable(stage) == [k \in DOMAIN stage |-> [id |-> k - 1, entry |-> stage[k]]]

\* show_tables: what each argument prints.  One that is about commits dies if
\* they cannot be read, or if it wants a HEAD and there is none; what came
\* before it has been printed.
ParseShow(reading, stage, args) ==
    LET cl == reading.commits
        head == HeadOf(cl)
        Table(kind, rows) == <<[table |-> kind, rows |-> rows]>>
        Shown(a) ==
            CASE a.opt \in {"--cached", "-hcc"} -> Table("stage", StageTable(stage))
              [] a.opt \in {"--commit", "-hc"}  -> Table("commits", CommitTable(cl))
              [] a.opt = "-cc"                  -> Table("count", Len(cl))
              [] a.opt = "--head"               -> Table("head", <<CommitRow(cl, head)>>)
              [] a.opt = "-hs"                  -> Table("short", <<ShortRow(cl[head])>>)
              [] OTHER                          -> <<>>
        mortal == {k \in DOMAIN args : \/ ~reading.readable /\ args[k].opt \in OfCommits
                                       \/ head = 0 /\ args[k].opt \in {"--head", "-hs"}}
        upTo == IF mortal = {} THEN Len(args) ELSE Min(mortal) - 1
    IN  [does |-> "show", dies |-> mortal # {},
         tables |-> FlattenSeq([k \in 1 .. upTo |-> Shown(args[k])])]

-----------------------------------------------------------------------------
(* status *)

\* print_status: the files status() reported, those that are tracked first.
\* One list begins with a word if any of its kind is there.
StatusLists(found) ==
    LET Of(kinds) == SelectSeq(found, LAMBDA f : f.status \in kinds)
    IN  [does |-> "status", tracked |-> Of({"modified", "deleted"}), new |-> Of({"new"})]

=============================================================================

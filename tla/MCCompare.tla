----------------------------- MODULE MCCompare ------------------------------
(* Comparisons to make: pairs of single files with up to four lines, and     *)
(* pairs of commits of up to three files with short ones.                    *)
EXTENDS Compare

CONSTANTS a, b, p, q, r

\* Files of up to k lines; the last one may lack its newline.
Full == {<<a, NL>>, <<b, NL>>}

Texts(k) ==
    {FlattenSeq(s) \o t : s \in UNION {[1 .. l -> Full] : l \in 0 .. k}, t \in {<<>>, <<a>>}}

MCLine == Seq({a, b, NL})

Entry(name, flag, text) == [path |-> name, flag |-> flag, text |-> text]

\* A file of HEAD and the same file in the work tree.
OneFile(k, minimal) ==
    {[kind |-> "files", minimal |-> minimal,
      first |-> <<Entry(p, "NEW", s)>>, second |-> <<Entry(p, "MODIFIED", t)>>] :
        s \in Texts(k), t \in Texts(k)}

Short == {<<a, NL>>, <<b, NL, a, NL>>}

\* Lists of some of the three files; there are fewer versions of the last.
Lists(options, last) ==
    LET Part(name, o) == IF o = <<>> THEN <<>> ELSE <<Entry(name, o[1], o[2])>>
        Options == options \union {<<>>}
    IN  {Part(p, x) \o Part(q, y) \o Part(r, z) :
            x \in Options, y \in Options, z \in last \union {<<>>}}

Deleted == <<"DELETED", <<>>>>
Long == <<b, NL, a, NL>>

MCCommits ==
    {[kind |-> "commits", minimal |-> min, first |-> f, second |-> s] :
        min \in BOOLEAN,
        f \in Lists(({"MODIFIED"} \X Short) \union {Deleted}, {<<"MODIFIED", Long>>}),
        s \in Lists(({"NEW", "MODIFIED"} \X Short) \union {Deleted},
                    {"NEW", "MODIFIED"} \X {<<b, NL>>})}

\* Files of HEAD and of the work tree, one of which may have gone.
MCTree ==
    {[kind |-> "files", minimal |-> min, first |-> f, second |-> s] :
        min \in BOOLEAN,
        f \in Lists(({"NEW"} \X {<<a, NL>>}) \union {Deleted}, {}),
        s \in Lists(({"MODIFIED"} \X Short) \union {<<"GONE", <<>>>>}, {})}

\* All contents that occur.
MCFiles == Texts(4)

MCCases == OneFile(4, TRUE) \union OneFile(2, FALSE) \union MCCommits \union MCTree
=============================================================================

----------------------------- MODULE CommitFile -----------------------------
(***************************************************************************)
(* The file of the commits, .peg/db/commit.idx: what a process writes to   *)
(* it, and what the next one reads (commit.c, author.h, timestamp.h).  A   *)
(* file is a sequence of fields; a text is two, its length and its         *)
(* characters, and the two numbers that lead to the entries of a commit    *)
(* are one, its place.                                                     *)
(*                                                                         *)
(* The end of the file is looked for at one field only, the hash.  A file  *)
(* that was cut, by a death or a full disk, has fields of its beginning;   *)
(* what stands in the place of the others depends on the field.            *)
(***************************************************************************)
EXTENDS Naturals, Sequences, SequencesExt, FiniteSetsExt

CONSTANT Room  \* memory a new author has for the name, and for the address

ASSUME RoomAssumption == Room \in Nat

NoTag == <<>>
Now == "now"  \* what time() returns to the reader

\* Memory that was never written.
Junk == <<[name |-> "?", status |-> "?"]>>

-----------------------------------------------------------------------------
Text(t) == <<Len(t), t>>

\* Mutant: the address comes before the name.
WriteCommitAddressFirst(c) ==
    <<[tag |-> c.tag # NoTag, head |-> c.head], c.hash>>
        \o (IF c.tag = NoTag THEN <<>> ELSE <<c.tag>>)
        \o Text(c.email) \o Text(c.name) \o Text(c.message) \o Text(c.desc)
        \o <<c.stamp, c.place>>

\* The flags say whether there is a tag.
WriteCommit(c) ==
    <<[tag |-> c.tag # NoTag, head |-> c.head], c.hash>>
        \o (IF c.tag = NoTag THEN <<>> ELSE <<c.tag>>)
        \o Text(c.name) \o Text(c.email) \o Text(c.message) \o Text(c.desc)
        \o <<c.stamp, c.place>>

\* flush_commit_list
WriteList(cl) == <<Len(cl)>> \o FlattenSeq([k \in DOMAIN cl |-> WriteCommit(cl[k])])

-----------------------------------------------------------------------------
Field(file, p, otherwise) == IF p <= Len(file) THEN file[p] ELSE otherwise

\* strbuf_grow: a name that fills its memory exactly is given more, and the
\* address is measured by it.
RoomWithName(len) == IF len + 1 > Room THEN Max({len + 1, ((Room + 16) * 3) \div 2}) ELSE Room

\* Where the flags of the commit at p say that the name of its author begins.
AfterTag(file, p) == IF Field(file, p, [tag |-> FALSE]).tag THEN p + 3 ELSE p + 2

\* read_commit_object: the commit whose flags are at p.  A length that is
\* missing is the one before it.
ReadCommit(file, p) ==
    LET q == AfterTag(file, p)
    IN  [hash    |-> Field(file, p + 1, <<>>),
         tag     |-> IF q = p + 3 THEN Field(file, p + 2, NoTag) ELSE NoTag,
         head    |-> Field(file, p, [head |-> FALSE]).head,
         name    |-> Field(file, q + 1, <<>>),
         email   |-> Field(file, q + 3, <<>>),
         message |-> Field(file, q + 5, <<>>),
         desc    |-> Field(file, q + 7, <<>>),
         stamp   |-> Field(file, q + 8, Now),
         place   |-> Field(file, q + 9, Junk)]

ReadFails(file, p) ==
    LET q == AfterTag(file, p)
        name == Field(file, q, 0)
    IN  \/ p + 1 > Len(file)
        \/ name > Room
        \/ Field(file, q + 2, name) > RoomWithName(name)

\* make_commit_list: as many commits as the first field says.
Starts(file) ==
    LET start[k \in 1 .. Field(file, 1, 0)] ==
            IF k = 1 THEN 2 ELSE AfterTag(file, start[k - 1]) + 10
    IN  start

Unreadable == [readable |-> FALSE, commits |-> <<>>]

\* What a process may get.  The length of a message that is missing was never
\* written, and there may be no memory for so long a text.
Readings(file) ==
    LET starts == Starts(file)
    IN  IF \E k \in DOMAIN starts : ReadFails(file, starts[k]) THEN {Unreadable}
        ELSE {[readable |-> TRUE,
               commits |-> [k \in DOMAIN starts |-> ReadCommit(file, starts[k])]]}
             \union (IF \E k \in DOMAIN starts : AfterTag(file, starts[k]) + 4 > Len(file)
                     THEN {Unreadable} ELSE {})

=============================================================================

---------------------------- MODULE MCCommandLine ----------------------------
(***************************************************************************)
(* Processes with all sorts of arguments, in small worlds, for TLC.        *)
(***************************************************************************)
EXTENDS CommandLine, TLC

Chars(w) == [k \in 1 .. Len(w) |-> SubSeq(w, k, k)]

MCLetter == {"u", "e", "a"}
MCDigit == {"1"}
MCStray == {"-", "@"}
MCUserName == <<"u">>
MCUserEmail == <<"e">>

Names == <<"create", "insert", "commit", "reset", "hist", "head", "status", "show",
           "revert", "compare", "checkout", "list", "tag", "replay", "help", "seeChanges">>

MCCommands == [c \in DOMAIN Names |-> Chars(Names[c])]
MCCommandTypes == [Names EXCEPT ![16] = "see"]
MCHelpWord == Chars("--help")
MCCreateWord == Chars("create")
MCNoFile == <<"no file">>

UpTo(n, S) == UNION {[1 .. k -> S] : k \in 0 .. n}

-----------------------------------------------------------------------------
Good == Chars("u=a\ne= a@-1")

Files == {Good, Chars("#a\nu=e\nu =a 1\n\ne=a"), Chars("u=u\n#e=a"), Chars("e=a\n"),
          Chars("u=1"), Chars("@u=a"), Chars("u=a#u\ne=a\n"), Chars("ue=a\n1")}
         \union UpTo(4, {"u", "=", "#", "\n", "@"})

\* Three commits, of which two begin alike and one bears the other's digits.
Commit(hash, tag, head) ==
    [hash |-> Chars(hash), tag |-> Chars(tag), head |-> head,
     name |-> <<"n">>, email |-> <<"e", "e">>, message |-> <<"m">>, desc |-> <<>>,
     stamp |-> hash, place |-> <<[name |-> hash, status |-> "new"]>>]

\* With names of four lengths, around the room of three characters.
Signed ==
    {[Commit("ab", "", FALSE) EXCEPT !.name = name, !.email = email] :
        name \in UpTo(4, {"n"}), email \in UpTo(4, {"e"})}

History == <<Commit("ab", "c", FALSE), Commit("ac", "t", TRUE), Commit("bb", "", FALSE)>>

Tree == [n \in {<<"a">>, <<"a", "b">>, <<"d">>, <<"d", "/", "a">>, <<".", "x">>} |->
            IF n = <<"d">> THEN "dir" ELSE "file"]

Stage == <<[name |-> "a", status |-> "new"], [name |-> "d", status |-> "deleted"]>>

Found == <<[name |-> "a", status |-> "new"], [name |-> "b", status |-> "same"],
           [name |-> "c", status |-> "modified"], [name |-> "d", status |-> "deleted"]>>

Invoke(word, args) ==
    {[word |-> Chars(word), args |-> a, config |-> Good, commits |-> History,
      cut |-> 0, tree |-> Tree, stage |-> Stage, found |-> Found] :
        a \in args}

Digits == {WordArg(Chars(w)) : w \in {"a", "ac", "b", "c", "t", "z"}}

PathArgs == {WordArg(Chars(w)) : w \in {"a", "./a", "ab", "d", "d/a", ".x", ".", "z"}}

MCInvocations ==
    Invoke("create", {<<>>, <<WordArg(<<"x">>)>>, <<OptArg("-n"), WordArg(<<"x">>)>>, <<OptArg("-x")>>,
                       <<OptArg("-a"), WordArg(<<"x">>)>>, <<WordArg(<<"x">>), OptArg("-d")>>})
    \union {[r EXCEPT !.config = file] :
                r \in Invoke("hist", {<<>>}), file \in Files \union {MCNoFile}}
    \union UNION {Invoke(word, {<<>>}) :
                word \in {"--help", "tga", "ist", "hsad", "rehset", "seechanges", "", "aaaaaaaaaaaaa", "list"}}
    \union {[r EXCEPT !.commits = <<>>] : r \in Invoke("compare", {<<>>, <<WordArg(<<"a">>)>>})}
    \union {[r EXCEPT !.commits = SubSeq(History, 1, 1)] :
                r \in Invoke("head", {<<NumberArg("master~", 0)>>})}
    \union {[r EXCEPT !.commits = cl] :
                r \in Invoke("hist", {<<>>}), cl \in {<<>>} \union {<<c>> : c \in Signed}
                    \union {<<c, Commit("ba", "t", TRUE)>> : c \in Signed}}
    \union {[r EXCEPT !.commits = SubSeq(History, 1, 2), !.cut = n] :
                r \in Invoke("hist", {<<>>}) \union Invoke("list", {<<>>, <<OptArg("-h")>>})
                        \union Invoke("head", {<<OptArg("--reset")>>})
                        \union Invoke("show", {<<OptArg("-hs")>>}),
                n \in 1 .. 22}
    \union {[r EXCEPT !.commits = <<[Commit("ab", "", TRUE) EXCEPT !.name = <<"n", "n", "n", "n">>]>>] :
                r \in Invoke("commit", {<<OptArg("-m"), WordArg(<<"a">>)>>})
                        \union Invoke("insert", {<<OptArg("-a")>>})}
    \union {[r EXCEPT !.commits = cl] :
                r \in Invoke("list", UpTo(2, Digits \union {OptArg("-c"), OptArg("-h"), OptArg("-x")})),
                cl \in {<<>>, SubSeq(History, 1, 1), History,
                        [History EXCEPT ![1].place = <<>>]}}
    \union {[r EXCEPT !.commits = cl] :
                r \in Invoke("show", UpTo(2, {OptArg(o) : o \in
                        {"--cached", "--commit", "-cc", "--head", "-hs", "-x"}})),
                cl \in {<<>>, SubSeq(History, 1, 1), History}}
    \union Invoke("status", {<<>>})
    \union Invoke("head", {<<a>> : a \in Digits \union {OptArg("--reset"), OptArg("-h")}
                                    \union {NumberArg("master~", n) : n \in 0 .. 4}})
    \union Invoke("tag", UpTo(2, Digits))
    \union Invoke("commit", UpTo(3, {OptArg("-m"), OptArg("-q"), OptArg("--log"), WordArg(<<"a">>)}))
    \union Invoke("compare", UpTo(2, Digits \union PathArgs \union {OptArg("--hash"), OptArg("-f")}))
    \union Invoke("revert", UpTo(2, PathArgs \union {NumberArg("~", n) : n \in {1, 4}}))
    \union Invoke("insert", UpTo(2, PathArgs \union {OptArg("-a")}
                                     \union {IgnoreArg(Chars(w)) : w \in {"a", "d", "./d/a"}}))

=============================================================================

---------------------------- MODULE PegRepoProofs ----------------------------
(***************************************************************************)
(* What holds of PegRepo for any files, contents and directories, and any  *)
(* number of commits, edits and killed commands.                           *)
(***************************************************************************)
EXTENDS PegRepo, SequenceTheorems, TLAPS

-----------------------------------------------------------------------------
(* Types *)

\* The stage, or the entries of a commit.
Tree == UNION {[D -> Node] : D \in SUBSET Paths}

Rewriting == {"rewriting", "reverting"}

TypeInv ==
    /\ work \in [Paths -> FileContent \union {Absent}]
    /\ stage \in Tree
    /\ commits \in Seq(Tree)
    /\ head \in 0 .. Len(commits)
    /\ pc \in {"idle", "cleaning"} \union Rewriting
    /\ source \in 0 .. Len(commits)
    /\ pc \notin Rewriting => todo = {}
    /\ pc \in Rewriting => todo \subseteq (IF source = 0 THEN {} ELSE DOMAIN commits[source])

LEMMA TreeIs ==
    ASSUME NEW t
    PROVE  t \in Tree <=> /\ t = [p \in DOMAIN t |-> t[p]]
                          /\ DOMAIN t \subseteq Paths
                          /\ \A p \in DOMAIN t : t[p] \in Node
<1>1. ASSUME t \in Tree
      PROVE  /\ t = [p \in DOMAIN t |-> t[p]] /\ DOMAIN t \subseteq Paths
             /\ \A p \in DOMAIN t : t[p] \in Node
  <2>1. PICK D \in SUBSET Paths : t \in [D -> Node]
    BY <1>1 DEF Tree
  <2> QED
    BY <2>1
<1>2. ASSUME t = [p \in DOMAIN t |-> t[p]], DOMAIN t \subseteq Paths,
             \A p \in DOMAIN t : t[p] \in Node
      PROVE  t \in Tree
  <2>1. t \in [DOMAIN t -> Node] /\ DOMAIN t \in SUBSET Paths
    BY <1>2
  <2> QED
    BY <2>1 DEF Tree
<1> QED
    BY <1>1, <1>2

LEMMA EntryType ==
    ASSUME NEW t \in Tree, NEW p \in DOMAIN t
    PROVE  /\ p \in Paths /\ t[p] \in Node
           /\ t[p].content \in FileContent /\ t[p].stamp \in Stamp /\ t[p].deleted \in BOOLEAN
<1>1. p \in Paths /\ t[p] \in Node
    BY TreeIs
<1> QED
    BY <1>1 DEF Node

LEMMA OverIs ==
    ASSUME NEW f \in Tree, NEW g \in Tree
    PROVE  /\ Over(f, g) \in Tree
           /\ DOMAIN Over(f, g) = DOMAIN f \union DOMAIN g
           /\ \A p \in DOMAIN f : Over(f, g)[p] = f[p]
           /\ \A p \in DOMAIN g \ DOMAIN f : Over(f, g)[p] = g[p]
<1>1. /\ DOMAIN Over(f, g) = DOMAIN f \union DOMAIN g
      /\ Over(f, g) = [p \in DOMAIN Over(f, g) |-> Over(f, g)[p]]
      /\ \A p \in DOMAIN f : Over(f, g)[p] = f[p]
      /\ \A p \in DOMAIN g \ DOMAIN f : Over(f, g)[p] = g[p]
    BY DEF Over
<1>2. DOMAIN f \subseteq Paths /\ DOMAIN g \subseteq Paths
      /\ (\A p \in DOMAIN f : f[p] \in Node) /\ (\A p \in DOMAIN g : g[p] \in Node)
    BY EntryType
<1> QED
    BY <1>1, <1>2, TreeIs

\* Only the stamp of p's entry may have changed.
Versions(new, old, p) ==
    /\ new \in Tree /\ DOMAIN new = DOMAIN old
    /\ \A q \in DOMAIN old :
            /\ new[q].content = old[q].content /\ new[q].deleted = old[q].deleted
            /\ new[q].stamp = old[q].stamp \/ q = p

LEMMA RestampedIs ==
    ASSUME NEW t \in Tree, NEW p, NEW stamp \in {"older", "raced"}
    PROVE  /\ Versions(Restamped(t, p, stamp), t, p)
           /\ p \in DOMAIN t => Restamped(t, p, stamp)[p].stamp # "same"
<1>1. CASE p \in DOMAIN t /\ t[p].stamp \in OwnStamps
  <2> DEFINE e == [t[p] EXCEPT !.stamp = stamp]
             new == [t EXCEPT ![p] = e]
  <2>1. t[p] \in Node /\ DOMAIN t \subseteq Paths /\ \A q \in DOMAIN t : t[q] \in Node
    BY <1>1, EntryType
  <2>2. /\ e \in Node /\ e.content = t[p].content /\ e.deleted = t[p].deleted
        /\ e.stamp = stamp
    BY <2>1 DEF Node, Stamp
  <2> HIDE DEF e
  <2>3. /\ DOMAIN new = DOMAIN t /\ new = [q \in DOMAIN new |-> new[q]]
        /\ new[p] = e /\ \A q \in DOMAIN t \ {p} : new[q] = t[q]
    BY <1>1
  <2> HIDE DEF new
  <2>4. new \in Tree
    BY <2>1, <2>2, <2>3, TreeIs
  <2>5. Restamped(t, p, stamp) = new
    BY <1>1 DEF Restamped, new, e
  <2> QED
    BY <2>2, <2>3, <2>4, <2>5 DEF Versions
<1>2. CASE ~(p \in DOMAIN t /\ t[p].stamp \in OwnStamps)
    BY <1>2 DEF Restamped, Versions, OwnStamps
<1> QED
    BY <1>1, <1>2

\* What writing a file does to the entries.
Rewritten(p, c) ==
    /\ work' = [work EXCEPT ![p] = c] /\ work' \in [Paths -> FileContent \union {Absent}]
    /\ Versions(stage', stage, p)
    /\ commits' \in Seq(Tree) /\ Len(commits') = Len(commits)
    /\ \A i \in 1 .. Len(commits) : Versions(commits'[i], commits[i], p)
    /\ p \in DOMAIN stage => stage'[p].stamp # "same"
    /\ \A i \in 1 .. Len(commits) :
            p \in DOMAIN commits[i] => commits'[i][p].stamp # "same"

LEMMA PutFileDoes ==
    ASSUME TypeInv, NEW p \in Paths, NEW c \in FileContent,
           NEW stamp \in {"older", "raced"}, PutFile(p, c, stamp)
    PROVE  Rewritten(p, c)
<1>1. /\ work' = [work EXCEPT ![p] = c] /\ work' \in [Paths -> FileContent \union {Absent}]
      /\ stage \in Tree /\ commits \in Seq(Tree)
    BY DEF PutFile, TypeInv
<1>2. /\ Len(commits) \in Nat /\ DOMAIN commits = 1 .. Len(commits)
      /\ \A i \in 1 .. Len(commits) : commits[i] \in Tree
    BY <1>1
<1>3. /\ stage' = Restamped(stage, p, stamp)
      /\ commits' = [i \in DOMAIN commits |-> Restamped(commits[i], p, stamp)]
    BY DEF PutFile
<1>4. /\ Versions(stage', stage, p) /\ (p \in DOMAIN stage => stage'[p].stamp # "same")
      /\ \A i \in 1 .. Len(commits) : Versions(Restamped(commits[i], p, stamp), commits[i], p)
      /\ \A i \in 1 .. Len(commits) :
              p \in DOMAIN commits[i] => Restamped(commits[i], p, stamp)[p].stamp # "same"
    BY <1>1, <1>2, <1>3, RestampedIs
<1> DEFINE k == Len(commits)
<1>5. commits' = [i \in 1 .. k |-> Restamped(commits[i], p, stamp)]
    BY <1>2, <1>3
<1>6. \A i \in 1 .. k : Restamped(commits[i], p, stamp) \in Tree
    BY <1>4 DEF Versions
<1>7. k \in Nat
    BY <1>2
<1> HIDE DEF k
<1>8. commits' \in Seq(Tree) /\ Len(commits') = k
    BY <1>5, <1>6, <1>7
<1> QED
    BY <1>1, <1>4, <1>5, <1>8 DEF Rewritten, k

LEMMA WriteOutDoes ==
    ASSUME TypeInv, NEW p \in Paths, NEW c \in FileContent, WriteOut(p, c)
    PROVE  Rewritten(p, c)
BY PutFileDoes DEF WriteOut

LEMMA StampingsAre == Stampings \subseteq {"older", "raced"}
BY DEF Stampings

-----------------------------------------------------------------------------
(* What the commands do to the stage and the commits *)

LEMMA CommitTypes ==
    ASSUME TypeInv
    PROVE  /\ Len(commits) \in Nat /\ DOMAIN commits = 1 .. Len(commits)
           /\ \A i \in 1 .. Len(commits) : commits[i] \in Tree
           /\ \A i \in 0 .. Len(commits) : Live(i) \subseteq Paths
           /\ \A i \in 1 .. Len(commits) : Live(i) \subseteq DOMAIN commits[i]
           /\ HeadLive \subseteq Paths
<1>1. /\ Len(commits) \in Nat /\ DOMAIN commits = 1 .. Len(commits)
      /\ \A i \in 1 .. Len(commits) : commits[i] \in Tree
      /\ head \in 0 .. Len(commits)
    BY DEF TypeInv
<1>2. \A i \in 1 .. Len(commits) : Live(i) \subseteq DOMAIN commits[i]
    BY <1>1 DEF Live
<1>3. \A i \in 1 .. Len(commits) : DOMAIN commits[i] \subseteq Paths
    BY <1>1, EntryType
<1>4. \A i \in 0 .. Len(commits) : Live(i) \subseteq Paths
  <2> TAKE i \in 0 .. Len(commits)
  <2>1. CASE i = 0
    BY <2>1 DEF Live
  <2>2. CASE i # 0
    BY <1>1, <1>2, <1>3, <2>2
  <2> QED
    BY <2>1, <2>2
<1> QED
    BY <1>1, <1>2, <1>4 DEF HeadLive

LEMMA NodeOfIs ==
    ASSUME TypeInv, NEW p \in Paths, NEW deleted \in BOOLEAN
    PROVE  /\ NodeOf(p, deleted) \in Node
           /\ NodeOf(p, deleted).deleted = deleted
           /\ p \in Present => /\ NodeOf(p, deleted).content = work[p]
                               /\ NodeOf(p, deleted).stamp = "same"
           /\ p \notin Present => NodeOf(p, deleted).stamp = "junk"
<1>1. p \in Present => work[p] \in FileContent
    BY DEF TypeInv, Present
<1>2. Empty \in FileContent
    BY DEF FileContent
<1> QED
    BY <1>1, <1>2 DEF NodeOf, Node, Stamp

\* Nodes of the paths join the stage; those that are there already stay.
Joined(paths) ==
    /\ stage' \in Tree
    /\ DOMAIN stage' = DOMAIN stage \union paths
    /\ \A p \in DOMAIN stage : stage'[p] = stage[p]

LEMMA StageReportedDoes ==
    ASSUME TypeInv, NEW paths \in SUBSET Paths, NEW gone, StageReported(paths, gone)
    PROVE  /\ Joined(paths)
           /\ \A p \in paths \ DOMAIN stage : stage'[p] = NodeOf(p, p \in gone)
<1> DEFINE new == [p \in paths |-> NodeOf(p, p \in gone)]
<1>1. ASSUME NEW p \in paths
      PROVE  new[p] = NodeOf(p, p \in gone) /\ new[p] \in Node
  <2>1. p \in Paths /\ (p \in gone) \in BOOLEAN
    OBVIOUS
  <2>2. NodeOf(p, p \in gone) \in Node
    BY <2>1, NodeOfIs, Zenon
  <2> QED
    BY <2>2
<1>2. DOMAIN new = paths /\ new = [p \in DOMAIN new |-> new[p]]
    OBVIOUS
<1>3. stage' = Over(stage, new) /\ stage \in Tree
    BY DEF StageReported, TypeInv
<1> HIDE DEF new
<1>4. new \in Tree
    BY <1>1, <1>2, TreeIs
<1>5. /\ Over(stage, new) \in Tree
      /\ DOMAIN Over(stage, new) = DOMAIN stage \union DOMAIN new
      /\ \A p \in DOMAIN stage : Over(stage, new)[p] = stage[p]
      /\ \A p \in DOMAIN new \ DOMAIN stage : Over(stage, new)[p] = new[p]
    BY <1>3, <1>4, OverIs
<1> QED
    BY <1>1, <1>2, <1>3, <1>5 DEF Joined

\* What status() reports of any files it has seen.
Report(r, seen, trusted) ==
    /\ seen \subseteq Present /\ trusted \subseteq JunkStamped
    /\ r = StatusOf(seen, trusted)

LEMMA StatusesReport ==
    /\ \A r \in Statuses : \E seen, trusted : Report(r, seen, trusted)
    /\ \A d : \A r \in StatusesIn(d) : \E trusted : Report(r, In(d), trusted)
<1>1. ASSUME NEW r \in Statuses
      PROVE  \E seen, trusted : Report(r, seen, trusted)
  <2>1. PICK d \in Dirs \union {NoDir}, t \in SUBSET JunkStamped :
            r = StatusOf({p \in Present : DirOf[p] # d}, t)
    BY DEF Statuses
  <2>2. Report(r, {p \in Present : DirOf[p] # d}, t)
    BY <2>1 DEF Report
  <2> QED
    BY <2>2
<1>2. ASSUME NEW d, NEW r \in StatusesIn(d)
      PROVE  \E trusted : Report(r, In(d), trusted)
  <2>1. PICK t \in SUBSET JunkStamped : r = StatusOf(In(d), t)
    BY DEF StatusesIn
  <2>2. Report(r, In(d), t)
    BY <2>1 DEF Report, In
  <2> QED
    BY <2>2
<1> QED
    BY <1>1, <1>2

LEMMA ReportIs ==
    ASSUME TypeInv, NEW r, NEW seen, NEW trusted, Report(r, seen, trusted)
    PROVE  /\ r.new = seen \ HeadLive
           /\ r.modified = {p \in seen \cap HeadLive :
                    ~Unchanged(p) /\ commits[head][p].stamp \notin OwnStamps /\ p \notin trusted}
           /\ r.gone = HeadLive \ seen
           /\ seen \subseteq Paths
           /\ r.new \union r.modified \union r.gone \subseteq Paths
           /\ r.new \subseteq Paths /\ r.modified \subseteq Paths /\ r.gone \subseteq Paths
<1>1. HeadLive \subseteq Paths
    BY CommitTypes
<1>2. Present \subseteq Paths
    BY DEF Present
<1> QED
    BY <1>1, <1>2 DEF Report, StatusOf

\* The paths that status() has reported join the stage as it has seen them.
ReportJoins(r, paths) ==
    /\ paths \subseteq r.new \union r.modified \union r.gone
    /\ Joined(paths)
    /\ \A p \in paths \ DOMAIN stage : stage'[p] = NodeOf(p, p \in r.gone)

LEMMA InsertAllDoes ==
    ASSUME TypeInv, NEW ignored \in SUBSET Paths, InsertAll(ignored)
    PROVE  \E r \in Statuses :
                ReportJoins(r, (r.new \union r.modified \union r.gone) \ ignored)
<1>1. PICK r \in Statuses :
        StageReported((r.new \union r.modified \union r.gone) \ ignored, r.gone)
    BY DEF InsertAll
<1>2. r.new \union r.modified \union r.gone \subseteq Paths
    BY StatusesReport, ReportIs
<1> DEFINE paths == (r.new \union r.modified \union r.gone) \ ignored
<1>3. paths \in SUBSET Paths /\ StageReported(paths, r.gone)
      /\ paths \subseteq r.new \union r.modified \union r.gone
    BY <1>1, <1>2
<1> HIDE DEF paths
<1>4. ReportJoins(r, paths)
    BY <1>3, StageReportedDoes DEF ReportJoins
<1> QED
    BY <1>4 DEF paths

LEMMA InsertDirDoes ==
    ASSUME TypeInv, NEW d, InsertDir(d)
    PROVE  \E r \in StatusesIn(d) :
                ReportJoins(r, r.new \union r.modified \union r.gone)
<1>1. PICK r \in StatusesIn(d) :
        StageReported(r.new \union r.modified \union r.gone, r.gone)
    BY DEF InsertDir
<1>2. r.new \union r.modified \union r.gone \subseteq Paths
    BY StatusesReport, ReportIs
<1> DEFINE paths == r.new \union r.modified \union r.gone
<1>3. paths \in SUBSET Paths /\ StageReported(paths, r.gone)
    BY <1>1, <1>2
<1> HIDE DEF paths
<1>4. Joined(paths) /\ \A p \in paths \ DOMAIN stage : stage'[p] = NodeOf(p, p \in r.gone)
    BY <1>3, StageReportedDoes
<1> QED
    BY <1>4 DEF paths, ReportJoins

LEMMA InsertFileDoes ==
    ASSUME TypeInv, NEW p \in Paths, InsertFile(p)
    PROVE  /\ p \in Present
           /\ \/ Unchanged(p) /\ stage' = stage
              \/ /\ ~Unchanged(p) /\ Joined({p})
                 /\ p \notin DOMAIN stage => /\ stage'[p].content = work[p]
                                             /\ ~stage'[p].deleted
<1>1. p \in Present
    BY DEF InsertFile
<1>2. CASE Unchanged(p)
    BY <1>1, <1>2 DEF InsertFile
<1>3. CASE ~Unchanged(p)
  <2> DEFINE n == [NodeOf(p, FALSE) EXCEPT !.stamp = IF p \in HeadLive THEN "junk" ELSE @]
             new == [q \in {p} |-> n]
  <2>1. /\ NodeOf(p, FALSE) \in Node /\ NodeOf(p, FALSE).content = work[p]
        /\ NodeOf(p, FALSE).deleted = FALSE /\ NodeOf(p, FALSE).stamp = "same"
    BY <1>1, NodeOfIs
  <2>2. n \in Node /\ n.content = work[p] /\ n.deleted = FALSE
    BY <2>1 DEF Node, Stamp
  <2>3. stage' = Over(stage, new)
    <3>1. [q \in {p} |-> [NodeOf(q, FALSE) EXCEPT
                        !.stamp = IF q \in HeadLive THEN "junk" ELSE @]] = new
      OBVIOUS
    <3> QED
      BY <1>3, <3>1 DEF InsertFile
  <2> HIDE DEF n
  <2>4. DOMAIN new = {p} /\ new[p] = n /\ new = [q \in DOMAIN new |-> new[q]]
    OBVIOUS
  <2> HIDE DEF new
  <2>5. new \in Tree /\ stage \in Tree
    BY <2>2, <2>4, TreeIs DEF TypeInv
  <2>6. /\ Over(stage, new) \in Tree
        /\ DOMAIN Over(stage, new) = DOMAIN stage \union DOMAIN new
        /\ \A q \in DOMAIN stage : Over(stage, new)[q] = stage[q]
        /\ \A q \in DOMAIN new \ DOMAIN stage : Over(stage, new)[q] = new[q]
    BY <2>5, OverIs
  <2> QED
    BY <1>1, <1>3, <2>2, <2>3, <2>4, <2>6 DEF Joined
<1> QED
    BY <1>2, <1>3

LEMMA NothingIs == Nothing \in Tree /\ DOMAIN Nothing = {}
<1>1. DOMAIN Nothing = {} /\ Nothing = [p \in DOMAIN Nothing |-> Nothing[p]]
    BY DEF Nothing
<1> QED
    BY <1>1, TreeIs

\* The new commit: the staged entries on top of those of the last commit.
LEMMA CommitDoes ==
    ASSUME TypeInv, Commit
    PROVE  \E t \in Tree :
            /\ commits' = Append(commits, t)
            /\ DOMAIN t = DOMAIN stage \union Live(Len(commits))
            /\ \A p \in DOMAIN stage :
                IF stage[p].deleted /\ p \in Live(Len(commits))
                THEN t[p].deleted /\ t[p].content = Empty /\ t[p].stamp = "junk"
                ELSE /\ ~t[p].deleted /\ t[p].content = stage[p].content
                     /\ t[p].stamp = stage[p].stamp
            /\ \A p \in Live(Len(commits)) \ DOMAIN stage :
                /\ ~t[p].deleted /\ t[p].stamp = "junk"
                /\ t[p].content = commits[Len(commits)][p].content
<1> DEFINE new == [p \in DOMAIN stage |-> Transferred(p)]
           t == Over(new, Carried)
           n == Len(commits)
<1>1. n \in Nat /\ Live(n) \subseteq Paths /\ stage \in Tree
      /\ (\A i \in 1 .. n : commits[i] \in Tree /\ Live(i) \subseteq DOMAIN commits[i])
      /\ n = Last
    BY CommitTypes DEF TypeInv, Last
<1> HIDE DEF n
<1>2. ASSUME NEW p \in DOMAIN stage
      PROVE  /\ new[p] \in Node /\ p \in Paths
             /\ IF stage[p].deleted /\ p \in Live(n)
                THEN new[p].deleted /\ new[p].content = Empty /\ new[p].stamp = "junk"
                ELSE /\ ~new[p].deleted /\ new[p].content = stage[p].content
                     /\ new[p].stamp = stage[p].stamp
  <2>1. new[p] = Transferred(p)
    OBVIOUS
  <2>2. stage[p] \in Node /\ p \in Paths
    BY <1>1, EntryType
  <2>3. CASE stage[p].deleted /\ p \in Live(n)
    BY <1>1, <2>1, <2>2, <2>3 DEF Transferred, Node, Stamp, FileContent
  <2>4. CASE ~(stage[p].deleted /\ p \in Live(n))
    BY <1>1, <2>1, <2>2, <2>4 DEF Transferred, Node
  <2> QED
    BY <2>2, <2>3, <2>4
<1>3. DOMAIN new = DOMAIN stage /\ new = [p \in DOMAIN new |-> new[p]]
    OBVIOUS
<1>4. ASSUME NEW p \in Live(n)
      PROVE  /\ Carried[p] \in Node /\ ~Carried[p].deleted /\ Carried[p].stamp = "junk"
             /\ Carried[p].content = commits[n][p].content
  <2>1. n # 0
    BY DEF Live
  <2>2. commits[n] \in Tree /\ p \in DOMAIN commits[n] /\ ~commits[n][p].deleted
    <3>1. n \in 1 .. n
      BY <1>1, <2>1
    <3> QED
      BY <1>1, <2>1, <3>1 DEF Live
  <2>3. commits[n][p] \in Node
    BY <2>2, EntryType
  <2>4. Carried[p] = [commits[n][p] EXCEPT !.stamp = "junk"]
    BY <1>1 DEF Carried
  <2> QED
    BY <2>2, <2>3, <2>4 DEF Node, Stamp
<1>5. DOMAIN Carried = Live(n) /\ Carried = [p \in DOMAIN Carried |-> Carried[p]]
    BY <1>1 DEF Carried
<1> HIDE DEF new
<1>6. new \in Tree
    BY <1>2, <1>3, TreeIs
<1>7. Carried \in Tree
    BY <1>1, <1>4, <1>5, TreeIs
<1>8. /\ t \in Tree /\ DOMAIN t = DOMAIN new \union DOMAIN Carried
      /\ \A p \in DOMAIN new : t[p] = new[p]
      /\ \A p \in DOMAIN Carried \ DOMAIN new : t[p] = Carried[p]
    BY <1>6, <1>7, OverIs
<1>9. commits' = Append(commits, t)
    BY DEF Commit, new
<1> HIDE DEF t
<1>10. \A p \in DOMAIN stage :
            IF stage[p].deleted /\ p \in Live(n)
            THEN t[p].deleted /\ t[p].content = Empty /\ t[p].stamp = "junk"
            ELSE /\ ~t[p].deleted /\ t[p].content = stage[p].content
                 /\ t[p].stamp = stage[p].stamp
    BY <1>2, <1>3, <1>8
<1>11. \A p \in Live(n) \ DOMAIN stage :
            /\ ~t[p].deleted /\ t[p].stamp = "junk" /\ t[p].content = commits[n][p].content
    BY <1>3, <1>4, <1>5, <1>8
<1>12. t \in Tree /\ DOMAIN t = DOMAIN stage \union Live(n)
    BY <1>3, <1>5, <1>8
<1> QED
    BY <1>9, <1>10, <1>11, <1>12 DEF n

-----------------------------------------------------------------------------
(* Type correctness *)

LEMMA InitTypes == Init => TypeInv
<1> SUFFICES ASSUME Init PROVE TypeInv
    OBVIOUS
<1>1. Nothing \in Tree
    BY NothingIs
<1>2. commits = <<>> /\ commits \in Seq(Tree) /\ Len(commits) = 0
    BY DEF Init
<1>3. work \in [Paths -> FileContent \union {Absent}]
    BY DEF Init, FileContent
<1> QED
    BY <1>1, <1>2, <1>3 DEF Init, TypeInv, Rewriting

\* A step that gives a command that checks files out nothing more to do.
LEMMA TypesKept ==
    ASSUME TypeInv, work' \in [Paths -> FileContent \union {Absent}], stage' \in Tree,
           commits' \in Seq(Tree), Len(commits) <= Len(commits'),
           \A i \in 1 .. Len(commits) : DOMAIN commits'[i] = DOMAIN commits[i],
           head' \in 0 .. Len(commits'),
           pc' = pc, source' = source, todo' \in SUBSET todo
    PROVE  TypeInv'
<1>1. Len(commits) \in Nat /\ Len(commits') \in Nat /\ source \in 0 .. Len(commits)
    BY DEF TypeInv
<1>2. source' \in 0 .. Len(commits')
    BY <1>1
<1>3. pc' \notin Rewriting => todo' = {}
    BY DEF TypeInv
<1>4. ASSUME pc' \in Rewriting
      PROVE  todo' \subseteq (IF source' = 0 THEN {} ELSE DOMAIN commits'[source'])
  <2>1. todo' \subseteq todo /\ todo \subseteq (IF source = 0 THEN {} ELSE DOMAIN commits[source])
    BY <1>4 DEF TypeInv
  <2>2. CASE source = 0
    BY <2>1, <2>2
  <2>3. CASE source # 0
    <3>1. source \in 1 .. Len(commits)
      BY <1>1, <2>3
    <3> QED
      BY <2>1, <3>1, <2>3
  <2> QED
    BY <2>2, <2>3
<1>5. pc' \in {"idle", "cleaning"} \union Rewriting
    BY DEF TypeInv
<1> QED
    BY <1>2, <1>3, <1>4, <1>5 DEF TypeInv

LEMMA RewrittenTypes ==
    ASSUME TypeInv, NEW p \in Paths, NEW c, Rewritten(p, c)
    PROVE  /\ work' \in [Paths -> FileContent \union {Absent}] /\ stage' \in Tree
           /\ commits' \in Seq(Tree) /\ Len(commits') = Len(commits)
           /\ \A i \in 1 .. Len(commits) : DOMAIN commits'[i] = DOMAIN commits[i]
           /\ Len(commits) \in Nat
BY CommitTypes DEF Rewritten, Versions

LEMMA RewrittenKeepsTypes ==
    ASSUME TypeInv, NEW p \in Paths, NEW c, Rewritten(p, c), head' = head,
           pc' = pc, source' = source, todo' \in SUBSET todo
    PROVE  TypeInv'
<1>1. /\ work' \in [Paths -> FileContent \union {Absent}] /\ stage' \in Tree
      /\ commits' \in Seq(Tree) /\ Len(commits') = Len(commits)
      /\ \A i \in 1 .. Len(commits) : DOMAIN commits'[i] = DOMAIN commits[i]
      /\ Len(commits) \in Nat
    BY RewrittenTypes
<1>2. Len(commits) <= Len(commits') /\ head' \in 0 .. Len(commits')
    BY <1>1 DEF TypeInv
<1> QED
    BY <1>1, <1>2, TypesKept

LEMMA CommitGrows ==
    ASSUME TypeInv, Commit
    PROVE  /\ commits' \in Seq(Tree) /\ Len(commits') = Len(commits) + 1
           /\ \A i \in 1 .. Len(commits) : commits'[i] = commits[i]
<1>1. PICK t \in Tree : commits' = Append(commits, t)
    BY CommitDoes
<1>2. commits \in Seq(Tree)
    BY DEF TypeInv
<1> QED
    BY <1>1, <1>2

\* What is written back is a content the source has.
LEMMA SourceContent ==
    ASSUME TypeInv, pc \in Rewriting, NEW p \in todo
    PROVE  /\ p \in Paths /\ source \in 1 .. Len(commits) /\ p \in DOMAIN commits[source]
           /\ commits[source][p].content \in FileContent
<1>1. source # 0 /\ p \in DOMAIN commits[source]
    BY DEF TypeInv
<1>2. source \in 1 .. Len(commits) /\ commits[source] \in Tree
    BY <1>1, CommitTypes DEF TypeInv
<1> QED
    BY <1>1, <1>2, EntryType

LEMMA InsertKeepsTypes ==
    ASSUME TypeInv, stage' \in Tree, UNCHANGED <<work, commits, head, checking>>
    PROVE  TypeInv'
<1>1. /\ work' = work /\ commits' = commits /\ head' = head /\ pc' = pc /\ source' = source
      /\ todo' = todo
    BY DEF checking
<1> QED
    BY <1>1 DEF TypeInv

LEMMA CommandTypes ==
    ASSUME TypeInv, Command
    PROVE  TypeInv'
<1>1. ASSUME NEW ignored \in SUBSET Paths, InsertAll(ignored) PROVE TypeInv'
  <2>1. stage' \in Tree
    BY <1>1, InsertAllDoes DEF ReportJoins, Joined
  <2>2. UNCHANGED <<work, commits, head, checking>>
    BY <1>1 DEF InsertAll
  <2> QED
    BY <2>1, <2>2, InsertKeepsTypes
<1>2. ASSUME NEW d \in Dirs, InsertDir(d) PROVE TypeInv'
  <2>1. stage' \in Tree
    BY <1>2, InsertDirDoes DEF ReportJoins, Joined
  <2>2. UNCHANGED <<work, commits, head, checking>>
    BY <1>2 DEF InsertDir
  <2> QED
    BY <2>1, <2>2, InsertKeepsTypes
<1>3. ASSUME NEW p \in Paths, InsertFile(p) PROVE TypeInv'
  <2>1. stage' \in Tree
    BY <1>3, InsertFileDoes DEF Joined, TypeInv
  <2>2. UNCHANGED <<work, commits, head, checking>>
    BY <1>3 DEF InsertFile
  <2> QED
    BY <2>1, <2>2, InsertKeepsTypes
<1>4. CASE Reset
    BY <1>4, NothingIs, InsertKeepsTypes DEF Reset
<1>5. CASE Commit
  <2>1. /\ commits' \in Seq(Tree) /\ Len(commits') = Len(commits) + 1
        /\ \A i \in 1 .. Len(commits) : commits'[i] = commits[i]
    BY <1>5, CommitGrows
  <2>2. /\ work' = work /\ pc' = pc /\ source' = source /\ todo' = todo
        /\ head' = Len(commits) + 1 /\ stage' = Nothing
    BY <1>5 DEF Commit, checking, Last
  <2>3. /\ work \in [Paths -> FileContent \union {Absent}] /\ Len(commits) \in Nat
        /\ pc \in {"idle", "cleaning"} \union Rewriting
    BY DEF TypeInv
  <2>4. Len(commits) <= Len(commits') /\ head' \in 0 .. Len(commits')
    BY <2>1, <2>2, <2>3
  <2>5. /\ work' \in [Paths -> FileContent \union {Absent}] /\ stage' \in Tree
        /\ todo' \in SUBSET todo
        /\ \A i \in 1 .. Len(commits) : DOMAIN commits'[i] = DOMAIN commits[i]
    BY <2>1, <2>2, <2>3, NothingIs
  <2> QED
    BY <2>1, <2>2, <2>3, <2>4, <2>5, TypesKept
<1>6. ASSUME NEW i \in DOMAIN commits, Tag(i) PROVE TypeInv'
  <2>1. /\ work' = work /\ stage' = stage /\ commits' = commits /\ pc' = pc
        /\ source' = source /\ todo' = todo
        /\ head' \in {0, head}
    BY <1>6 DEF Tag, checking
  <2>2. Len(commits) \in Nat
    BY DEF TypeInv
  <2> QED
    BY <2>1, <2>2 DEF TypeInv
<1>7. ASSUME NEW target \in 0 .. Len(commits), NEW force, CheckOut(target, force)
      PROVE  TypeInv'
  <2>1. /\ work' = work /\ stage' = stage /\ commits' = commits /\ source' = source
        /\ todo' = todo /\ head' = target
        /\ pc = "idle" /\ pc' \in {"idle", "cleaning"}
    BY <1>7 DEF CheckOut
  <2> QED
    BY <2>1 DEF TypeInv, Rewriting
<1>8. Len(commits) \in 0 .. Len(commits) /\ DOMAIN commits \subseteq 0 .. Len(commits)
      /\ head \in 0 .. Len(commits)
    BY CommitTypes DEF TypeInv
<1>9. CASE \E i \in DOMAIN commits : HeadTo(i)
    BY <1>7, <1>8, <1>9 DEF HeadTo
<1>10. CASE HeadReset
    BY <1>7, <1>8, <1>10 DEF HeadReset, Last
<1>11. CASE CheckOutHead
    BY <1>7, <1>8, <1>11 DEF CheckOutHead
<1>12. ASSUME NEW p \in Paths, NEW i \in DOMAIN commits, RevertFile(p, i) PROVE TypeInv'
  <2>1. i \in 1 .. Len(commits) /\ p \in Live(i) /\ WriteOut(p, commits[i][p].content)
    BY <1>12, CommitTypes DEF RevertFile
  <2>2. commits[i] \in Tree /\ p \in DOMAIN commits[i]
    BY <2>1, CommitTypes
  <2>3. commits[i][p].content \in FileContent
    BY <2>2, EntryType
  <2>4. Rewritten(p, commits[i][p].content)
    BY <2>1, <2>3, WriteOutDoes
  <2>5. head' = head /\ pc' = pc /\ source' = source /\ todo' \in SUBSET todo
    BY <1>12 DEF RevertFile, checking
  <2> QED
    BY <2>4, <2>5, RewrittenKeepsTypes
<1>13. ASSUME NEW d \in Dirs \union {Root}, NEW i \in DOMAIN commits, RevertDir(d, i)
       PROVE  TypeInv'
  <2>1. /\ work' = work /\ stage' = stage /\ commits' = commits /\ head' = head
        /\ source' = i /\ pc' = "reverting"
        /\ todo' = In(d) \cap Live(i)
    BY <1>13 DEF RevertDir, repo
  <2>2. i \in 1 .. Len(commits) /\ Live(i) \subseteq DOMAIN commits[i] /\ Len(commits) \in Nat
    BY CommitTypes
  <2> QED
    BY <2>1, <2>2 DEF TypeInv, Rewriting
<1> QED
    BY <1>1, <1>2, <1>3, <1>4, <1>5, <1>6, <1>9, <1>10, <1>11, <1>12, <1>13 DEF Command

LEMMA CheckingOutTypes ==
    ASSUME TypeInv, CheckingOut
    PROVE  TypeInv'
<1>1. ASSUME NEW p \in Paths, RemoveFile(p) PROVE TypeInv'
  <2>1. /\ work' = [work EXCEPT ![p] = Absent] /\ stage' = stage /\ commits' = commits
        /\ head' = head /\ pc' = pc /\ source' = source /\ todo' = todo
    BY <1>1 DEF RemoveFile, repo, checking
  <2> QED
    BY <2>1 DEF TypeInv
<1>2. ASSUME NEW p \in Paths, WriteBack(p) PROVE TypeInv'
  <2>1. /\ pc \in Rewriting /\ p \in todo /\ WriteOut(p, commits[source][p].content)
        /\ head' = head /\ pc' = pc /\ source' = source /\ todo' = todo \ {p}
    BY <1>2 DEF WriteBack, Rewriting
  <2>2. commits[source][p].content \in FileContent
    BY <2>1, SourceContent
  <2>3. Rewritten(p, commits[source][p].content)
    BY <2>1, <2>2, WriteOutDoes
  <2>4. todo' \in SUBSET todo
    BY <2>1
  <2> QED
    BY <2>1, <2>3, <2>4, RewrittenKeepsTypes
<1>3. CASE CleanDone
  <2>1. /\ work' = work /\ stage' = stage /\ commits' = commits /\ head' = head
        /\ source' = head /\ pc' = "rewriting"
        /\ todo' = (IF head = 0 THEN {} ELSE DOMAIN commits[head])
    BY <1>3 DEF CleanDone, repo
  <2> QED
    BY <2>1 DEF TypeInv, Rewriting
<1>4. CASE WrittenBack
  <2>1. /\ work' = work /\ stage' = stage /\ commits' = commits /\ head' = head
        /\ source' = 0 /\ pc' = "idle"
        /\ todo' = {}
    BY <1>4 DEF WrittenBack, Exit, repo
  <2>2. Len(commits) \in Nat
    BY CommitTypes
  <2> QED
    BY <2>1, <2>2 DEF TypeInv, Rewriting
<1> QED
    BY <1>1, <1>2, <1>3, <1>4 DEF CheckingOut

LEMMA KillTypes ==
    ASSUME TypeInv, Kill
    PROVE  TypeInv'
<1>1. /\ head' = head /\ pc' = "idle" /\ source' = 0 /\ todo' = {}
    BY DEF Kill, Exit
<1>2. Len(commits) \in Nat
    BY CommitTypes
<1>3. CASE UNCHANGED <<work, stage, commits>>
    BY <1>1, <1>2, <1>3 DEF TypeInv, Rewriting
<1>4. ASSUME NEW p \in todo, NEW stamp \in Stampings, PutFile(p, Empty, stamp) PROVE TypeInv'
  <2>1. pc \in Rewriting
    BY <1>4 DEF TypeInv
  <2>2. p \in Paths /\ Empty \in FileContent
    BY <1>4, <2>1, SourceContent DEF FileContent
  <2>3. Rewritten(p, Empty)
    BY <1>4, <2>2, PutFileDoes, StampingsAre
  <2>4. /\ work' \in [Paths -> FileContent \union {Absent}] /\ stage' \in Tree
        /\ commits' \in Seq(Tree) /\ Len(commits') = Len(commits)
        /\ \A k \in 1 .. Len(commits) : DOMAIN commits'[k] = DOMAIN commits[k]
    BY <2>2, <2>3, RewrittenTypes
  <2> QED
    BY <1>1, <1>2, <2>4 DEF TypeInv, Rewriting
<1> QED
    BY <1>3, <1>4 DEF Kill

LEMMA EditTypes ==
    ASSUME TypeInv, NEW p \in Paths, Edit(p)
    PROVE  TypeInv'
<1>1. /\ head' = head /\ pc' = pc /\ source' = source /\ todo' = todo
    BY DEF Edit, checking
<1>2. ASSUME NEW c \in Contents, NEW stamp \in Stampings, PutFile(p, c, stamp) PROVE TypeInv'
  <2>1. Rewritten(p, c)
    BY <1>2, PutFileDoes, StampingsAre DEF FileContent
  <2>2. todo' \in SUBSET todo
    BY <1>1
  <2> QED
    BY <1>1, <2>1, <2>2, RewrittenKeepsTypes
<1>3. CASE work' = [work EXCEPT ![p] = Absent] /\ UNCHANGED <<stage, commits>>
    BY <1>1, <1>3 DEF TypeInv
<1> QED
    BY <1>2, <1>3 DEF Edit

LEMMA StillTypes ==
    ASSUME TypeInv, UNCHANGED vars
    PROVE  TypeInv'
<1>1. /\ work' = work /\ stage' = stage /\ commits' = commits /\ head' = head /\ pc' = pc
      /\ source' = source /\ todo' = todo
    BY DEF vars, repo, checking
<1> QED
    BY <1>1 DEF TypeInv

LEMMA TypesStep == TypeInv /\ [Next]_vars => TypeInv'
BY CommandTypes, CheckingOutTypes, KillTypes, EditTypes, StillTypes DEF Next

\* The work tree maps paths to contents, stage and commits are trees of
\* entries, HEAD is one of the commits or none, and what a checkout or a
\* revert still has to write back is a path its commit has an entry for: it
\* never looks up an entry that is not there (checkout.c:155-190).
THEOREM RepoTypes == Spec => []TypeInv
BY InitTypes, TypesStep, PTL DEF Spec

-----------------------------------------------------------------------------
(* What a step can do to the files, the stage and the commits *)

\* None of the three changes.
Still == work' = work /\ stage' = stage /\ commits' = commits

Removal ==
    /\ \E p \in Paths : work' = [work EXCEPT ![p] = Absent]
    /\ stage' = stage /\ commits' = commits

Writing == \E p \in Paths, c \in FileContent : Rewritten(p, c)

\* A node whose stamp is the file's has the file's content.
Growing ==
    /\ work' = work /\ commits' = commits
    /\ \E paths \in SUBSET Paths :
        /\ Joined(paths)
        /\ \A p \in paths \ DOMAIN stage :
                stage'[p].stamp = "same" => stage'[p].content = work[p]

Forgetting == work' = work /\ commits' = commits /\ stage' = Nothing

LEMMA ReportGrows ==
    ASSUME TypeInv, NEW r, NEW seen, NEW trusted, Report(r, seen, trusted), NEW paths,
           ReportJoins(r, paths), work' = work, commits' = commits
    PROVE  Growing
<1>1. paths \in SUBSET Paths /\ Joined(paths)
    BY ReportIs DEF ReportJoins
<1>2. ASSUME NEW p \in paths \ DOMAIN stage, stage'[p].stamp = "same"
      PROVE  stage'[p].content = work[p]
  <2>1. stage'[p] = NodeOf(p, p \in r.gone) /\ p \in Paths
    BY <1>1, <1>2 DEF ReportJoins
  <2>2. stage'[p].stamp = (IF p \in Present THEN "same" ELSE "junk")
        /\ stage'[p].content = (IF p \in Present THEN work[p] ELSE Empty)
    BY <2>1 DEF NodeOf
  <2> QED
    BY <1>2, <2>2
<1> QED
    BY <1>1, <1>2 DEF Growing

LEMMA InsertsGrow ==
    ASSUME TypeInv
    PROVE  /\ \A ignored \in SUBSET Paths : InsertAll(ignored) => Growing
           /\ \A d \in Dirs : InsertDir(d) => Growing
           /\ \A p \in Paths : InsertFile(p) => Growing \/ Still
<1>1. ASSUME NEW ignored \in SUBSET Paths, InsertAll(ignored) PROVE Growing
  <2>1. PICK r \in Statuses :
            ReportJoins(r, (r.new \union r.modified \union r.gone) \ ignored)
    BY <1>1, InsertAllDoes
  <2>2. PICK seen, trusted : Report(r, seen, trusted)
    BY StatusesReport
  <2> QED
    BY <1>1, <2>1, <2>2, ReportGrows DEF InsertAll
<1>2. ASSUME NEW d \in Dirs, InsertDir(d) PROVE Growing
  <2>1. PICK r \in StatusesIn(d) : ReportJoins(r, r.new \union r.modified \union r.gone)
    BY <1>2, InsertDirDoes
  <2>2. PICK trusted : Report(r, In(d), trusted)
    BY StatusesReport
  <2> QED
    BY <1>2, <2>1, <2>2, ReportGrows DEF InsertDir
<1>3. ASSUME NEW p \in Paths, InsertFile(p) PROVE Growing \/ Still
  <2>1. work' = work /\ commits' = commits
    BY <1>3 DEF InsertFile
  <2>2. CASE stage' = stage
    BY <2>1, <2>2 DEF Still
  <2>3. CASE Joined({p}) /\ (p \notin DOMAIN stage => stage'[p].content = work[p])
    <3>1. {p} \in SUBSET Paths
      OBVIOUS
    <3> QED
      BY <2>1, <2>3, <3>1 DEF Growing
  <2> QED
    BY <1>3, <2>2, <2>3, InsertFileDoes
<1> QED
    BY <1>1, <1>2, <1>3

LEMMA WriteBackDoes ==
    ASSUME TypeInv, NEW p \in Paths, WriteBack(p)
    PROVE  p \in todo /\ pc \in Rewriting /\ Rewritten(p, commits[source][p].content)
           /\ commits[source][p].content \in FileContent
<1>1. pc \in Rewriting /\ p \in todo /\ WriteOut(p, commits[source][p].content)
    BY DEF WriteBack, Rewriting
<1>2. commits[source][p].content \in FileContent
    BY <1>1, SourceContent
<1> QED
    BY <1>1, <1>2, WriteOutDoes

Inserting ==
    \/ \E ignored \in SUBSET Paths : InsertAll(ignored)
    \/ \E d \in Dirs : InsertDir(d)
    \/ \E p \in Paths : InsertFile(p)

LEMMA StepKinds ==
    ASSUME TypeInv, [Next]_vars
    PROVE  Still \/ Removal \/ Writing \/ Inserting \/ Forgetting \/ Commit
<1>1. CASE Command
  <2>1. ASSUME NEW i, Tag(i) PROVE Still
    BY <2>1 DEF Tag, Still
  <2>2. ASSUME NEW i, NEW force, CheckOut(i, force) PROVE Still
    BY <2>2 DEF CheckOut, Still
  <2>3. ASSUME NEW d, NEW i, RevertDir(d, i) PROVE Still
    BY <2>3 DEF RevertDir, Still, repo
  <2>4. ASSUME NEW p \in Paths, NEW i \in DOMAIN commits, RevertFile(p, i) PROVE Writing
    <3>1. i \in 1 .. Len(commits) /\ p \in Live(i) /\ WriteOut(p, commits[i][p].content)
      BY <2>4, CommitTypes DEF RevertFile
    <3>2. commits[i] \in Tree /\ p \in DOMAIN commits[i]
      BY <3>1, CommitTypes
    <3>3. commits[i][p].content \in FileContent
      BY <3>2, EntryType
    <3> QED
      BY <3>1, <3>3, WriteOutDoes DEF Writing
  <2>5. Reset => Forgetting
    BY DEF Reset, Forgetting
  <2>6. (\E i \in DOMAIN commits : Tag(i) \/ HeadTo(i)) \/ HeadReset \/ CheckOutHead => Still
    BY <2>1, <2>2 DEF HeadTo, HeadReset, CheckOutHead
  <2> QED
    BY <1>1, <2>3, <2>4, <2>5, <2>6 DEF Command, Inserting
<1>2. CASE CheckingOut
  <2>1. ASSUME NEW p \in Paths, RemoveFile(p) PROVE Removal
    BY <2>1 DEF RemoveFile, Removal, repo
  <2>2. ASSUME NEW p \in Paths, WriteBack(p) PROVE Writing
    BY <2>2, WriteBackDoes DEF Writing
  <2>3. CleanDone \/ WrittenBack => Still
    BY DEF CleanDone, WrittenBack, Still, repo
  <2> QED
    BY <1>2, <2>1, <2>2, <2>3 DEF CheckingOut
<1>3. CASE Kill
  <2>1. CASE UNCHANGED <<work, stage, commits>>
    BY <2>1 DEF Still
  <2>2. ASSUME NEW p \in todo, NEW stamp \in Stampings, PutFile(p, Empty, stamp) PROVE Writing
    <3>1. pc \in Rewriting
      BY <2>2 DEF TypeInv
    <3>2. p \in Paths /\ Empty \in FileContent
      BY <2>2, <3>1, SourceContent DEF FileContent
    <3> QED
      BY <2>2, <3>2, PutFileDoes, StampingsAre DEF Writing
  <2> QED
    BY <1>3, <2>1, <2>2 DEF Kill
<1>4. ASSUME NEW p \in Paths, Edit(p) PROVE Writing \/ Removal
  <2>1. ASSUME NEW c \in Contents, NEW stamp \in Stampings, PutFile(p, c, stamp) PROVE Writing
    BY <2>1, PutFileDoes, StampingsAre DEF Writing, FileContent
  <2>2. CASE work' = [work EXCEPT ![p] = Absent] /\ UNCHANGED <<stage, commits>>
    BY <2>2 DEF Removal
  <2> QED
    BY <1>4, <2>1, <2>2 DEF Edit
<1>5. CASE UNCHANGED vars
    BY <1>5 DEF vars, repo, Still
<1> QED
    BY <1>1, <1>2, <1>3, <1>4, <1>5 DEF Next

LEMMA StepShapes ==
    ASSUME TypeInv, [Next]_vars
    PROVE  Still \/ Removal \/ Writing \/ Growing \/ Forgetting \/ Commit
BY StepKinds, InsertsGrow DEF Inserting

-----------------------------------------------------------------------------
(* Time stamps *)

\* What a stamp tells: a file with the stamp of an entry has its content.
Honest(t, files) ==
    \A p \in DOMAIN t :
        t[p].stamp = "same" => files[p] = t[p].content \/ files[p] = Absent

\* Nothing else keeps the file's own stamp but "raced", where the file was
\* written twice within one second.
StampInv ==
    /\ Honest(stage, work)
    /\ \A i \in 1 .. Len(commits) : Honest(commits[i], work)

LEMMA RewrittenHonest ==
    ASSUME NEW files \in [Paths -> FileContent \union {Absent}], NEW p \in Paths, NEW c,
           NEW old, NEW new, Versions(new, old, p), Honest(old, files),
           p \in DOMAIN old => new[p].stamp # "same"
    PROVE  Honest(new, [files EXCEPT ![p] = c])
BY DEF Honest, Versions

LEMMA RemovedHonest ==
    ASSUME NEW files \in [Paths -> FileContent \union {Absent}], NEW p \in Paths,
           NEW t, Honest(t, files)
    PROVE  Honest(t, [files EXCEPT ![p] = Absent])
BY DEF Honest

LEMMA CommitHonest ==
    ASSUME TypeInv, Commit, Honest(stage, work)
    PROVE  \E t \in Tree : commits' = Append(commits, t) /\ Honest(t, work)
<1>1. PICK t \in Tree :
            /\ commits' = Append(commits, t)
            /\ DOMAIN t = DOMAIN stage \union Live(Len(commits))
            /\ \A p \in DOMAIN stage :
                IF stage[p].deleted /\ p \in Live(Len(commits))
                THEN t[p].deleted /\ t[p].content = Empty /\ t[p].stamp = "junk"
                ELSE /\ ~t[p].deleted /\ t[p].content = stage[p].content
                     /\ t[p].stamp = stage[p].stamp
            /\ \A p \in Live(Len(commits)) \ DOMAIN stage :
                /\ ~t[p].deleted /\ t[p].stamp = "junk"
                /\ t[p].content = commits[Len(commits)][p].content
    BY CommitDoes
<1>2. ASSUME NEW p \in DOMAIN t, t[p].stamp = "same"
      PROVE  work[p] = t[p].content \/ work[p] = Absent
  <2>1. p \in DOMAIN stage
    BY <1>1, <1>2
  <2>2. t[p].content = stage[p].content /\ stage[p].stamp = "same"
    BY <1>1, <1>2, <2>1
  <2> QED
    BY <2>1, <2>2 DEF Honest
<1> QED
    BY <1>1, <1>2 DEF Honest

LEMMA StampsStep == TypeInv /\ StampInv /\ [Next]_vars => StampInv'
<1> SUFFICES ASSUME TypeInv, StampInv, [Next]_vars
             PROVE  Honest(stage', work')
                    /\ \A i \in 1 .. Len(commits') : Honest(commits'[i], work')
    BY DEF StampInv
<1>1. /\ Honest(stage, work) /\ \A i \in 1 .. Len(commits) : Honest(commits[i], work)
      /\ work \in [Paths -> FileContent \union {Absent}]
      /\ commits \in Seq(Tree) /\ Len(commits) \in Nat
    BY DEF StampInv, TypeInv
<1>2. CASE Still
    BY <1>1, <1>2 DEF Still
<1>3. CASE Removal
    BY <1>1, <1>3, RemovedHonest DEF Removal
<1>4. CASE Writing
  <2>1. PICK p \in Paths, c \in FileContent : Rewritten(p, c)
    BY <1>4 DEF Writing
  <2>2. /\ work' = [work EXCEPT ![p] = c] /\ Len(commits') = Len(commits)
        /\ Versions(stage', stage, p) /\ (p \in DOMAIN stage => stage'[p].stamp # "same")
    BY <2>1 DEF Rewritten
  <2>3. \A i \in 1 .. Len(commits) : Versions(commits'[i], commits[i], p)
    BY <2>1 DEF Rewritten
  <2>4. \A i \in 1 .. Len(commits) : p \in DOMAIN commits[i] => commits'[i][p].stamp # "same"
    BY <2>1 DEF Rewritten
  <2>5. Honest(stage', work')
    BY <1>1, <2>2, RewrittenHonest
  <2>6. ASSUME NEW i \in 1 .. Len(commits) PROVE Honest(commits'[i], work')
    BY <1>1, <2>2, <2>3, <2>4, RewrittenHonest
  <2> QED
    BY <2>2, <2>5, <2>6
<1>5. CASE Growing
  <2>1. PICK paths \in SUBSET Paths :
            /\ Joined(paths)
            /\ \A p \in paths \ DOMAIN stage :
                    stage'[p].stamp = "same" => stage'[p].content = work[p]
    BY <1>5 DEF Growing
  <2>2. Honest(stage', work)
    BY <1>1, <2>1 DEF Honest, Joined
  <2> QED
    BY <1>1, <1>5, <2>2 DEF Growing
<1>6. CASE Forgetting
    BY <1>1, <1>6, NothingIs DEF Forgetting, Honest
<1>7. CASE Commit
  <2>1. PICK t \in Tree : commits' = Append(commits, t) /\ Honest(t, work)
    BY <1>1, <1>7, CommitHonest
  <2>2. /\ Len(commits') = Len(commits) + 1 /\ commits'[Len(commits) + 1] = t
        /\ \A i \in 1 .. Len(commits) : commits'[i] = commits[i]
    BY <1>1, <2>1
  <2>3. work' = work /\ stage' = Nothing
    BY <1>7 DEF Commit
  <2>4. \A i \in 1 .. Len(commits') : i \in 1 .. Len(commits) \/ i = Len(commits) + 1
    BY <1>1, <2>2
  <2> QED
    BY <1>1, <2>1, <2>2, <2>3, <2>4, NothingIs DEF Honest
<1> QED
    BY <1>2, <1>3, <1>4, <1>5, <1>6, <1>7, StepShapes

LEMMA InitStamps == Init => StampInv
<1> SUFFICES ASSUME Init PROVE StampInv
    OBVIOUS
<1>1. stage = Nothing /\ Len(commits) = 0
    BY DEF Init
<1> QED
    BY <1>1, NothingIs DEF StampInv, Honest

\* A file whose time stamp is the one an index entry keeps has the content
\* the entry keeps, or is gone, unless it was written twice within that second;
\* so status() may skip the comparison in all other cases (status.c:124).
THEOREM StampsAreHonest == Spec => []StampInv
BY RepoTypes, InitStamps, StampsStep, PTL DEF Spec

-----------------------------------------------------------------------------
(* What insert finds *)

\* The walk leaves out one directory at most.
LEMMA StatusesSee ==
    ASSUME NEW r \in Statuses
    PROVE  \E d \in Dirs \union {NoDir} : \E trusted :
                Report(r, {p \in Present : DirOf[p] # d}, trusted)
<1>1. PICK d \in Dirs \union {NoDir}, t \in SUBSET JunkStamped :
            r = StatusOf({p \in Present : DirOf[p] # d}, t)
    BY DEF Statuses
<1> QED
    BY <1>1 DEF Report

\* A file that status() has seen and not reported is the one that HEAD has,
\* or has a stamp it should not have trusted.
LEMMA SeenAndUnreported ==
    ASSUME TypeInv, StampInv,
           NEW r, NEW seen, NEW trusted, Report(r, seen, trusted),
           NEW p \in seen, p \notin r.new \union r.modified
    PROVE  p \in HeadLive /\ (Unchanged(p) \/ p \in Doubtful)
<1>1. p \in HeadLive /\ p \in Present
    BY ReportIs DEF Report
<1>2. Unchanged(p) \/ commits[head][p].stamp \in {"same", "raced"} \/ p \in trusted
    BY <1>1, ReportIs DEF OwnStamps
<1>3. p \in trusted => p \in Doubtful
    BY <1>1 DEF Report, JunkStamped, Doubtful
<1>4. commits[head][p].stamp = "raced" => p \in Doubtful
    BY <1>1 DEF Doubtful
<1>5. ASSUME commits[head][p].stamp = "same" PROVE Unchanged(p)
  <2>1. head # 0
    BY <1>1 DEF HeadLive, Live
  <2>2. head \in 1 .. Len(commits) /\ p \in DOMAIN commits[head]
    BY <1>1, <2>1 DEF HeadLive, Live, TypeInv
  <2>3. work[p] = commits[head][p].content \/ work[p] = Absent
    BY <1>5, <2>2 DEF StampInv, Honest
  <2> QED
    BY <1>1, <2>3 DEF Unchanged, Present
<1> QED
    BY <1>1, <1>2, <1>3, <1>4, <1>5

\* What `insert .' stages of a path if the walk leaves directory d out.
StagedIn(d, p) ==
    IF DirOf[p] = d
    THEN IF p \in HeadLive THEN StagedAsDeleted(p)' ELSE p \notin DOMAIN stage'
    ELSE p \in Doubtful \/ StagedAsIs(p)'

LEMMA InsertAllFinds ==
    ASSUME TypeInv, StampInv, stage = Nothing, InsertAll({})
    PROVE  \E d \in Dirs \union {NoDir} : \A p \in Paths : StagedIn(d, p)
<1>1. PICK r \in Statuses : ReportJoins(r, (r.new \union r.modified \union r.gone) \ {})
    BY InsertAllDoes
<1>2. PICK d \in Dirs \union {NoDir} :
            \E trusted : Report(r, {p \in Present : DirOf[p] # d}, trusted)
    BY StatusesSee
<1>3. PICK trusted : Report(r, {p \in Present : DirOf[p] # d}, trusted)
    BY <1>2
<1> DEFINE seen == {p \in Present : DirOf[p] # d}
<1>4. /\ work' = work /\ commits' = commits /\ head' = head
    BY DEF InsertAll
<1>5. HeadLive' = HeadLive
    BY <1>4 DEF HeadLive, Live
<1>6. /\ DOMAIN stage' = r.new \union r.modified \union r.gone
      /\ \A p \in DOMAIN stage' : stage'[p] = NodeOf(p, p \in r.gone)
    BY <1>1, NothingIs DEF ReportJoins, Joined
<1>7. /\ r.new = seen \ HeadLive /\ r.gone = HeadLive \ seen
      /\ r.modified \subseteq seen \cap HeadLive
    BY <1>3, ReportIs
<1>8. ASSUME NEW p \in Paths, p \in DOMAIN stage'
      PROVE  /\ stage'[p].deleted = (p \in r.gone)
             /\ p \in Present => stage'[p].content = work[p]
  <2>1. (p \in r.gone) \in BOOLEAN /\ stage'[p] = NodeOf(p, p \in r.gone)
    BY <1>6, <1>8
  <2> DEFINE n == NodeOf(p, p \in r.gone)
  <2>2. n.deleted = (p \in r.gone) /\ (p \in Present => n.content = work[p])
    BY <2>1, NodeOfIs, Zenon
  <2> HIDE DEF n
  <2>3. stage'[p] = n
    BY <2>1 DEF n
  <2> QED
    BY <2>2, <2>3, Zenon
<1>9. ASSUME NEW p \in Paths, DirOf[p] = d PROVE StagedIn(d, p)
  <2>1. p \notin seen
    BY <1>9
  <2>2. p \in HeadLive => p \in r.gone /\ p \in DOMAIN stage'
    BY <1>6, <1>7, <2>1
  <2>3. p \notin HeadLive => p \notin DOMAIN stage'
    BY <1>6, <1>7, <2>1
  <2> QED
    BY <1>8, <1>9, <2>2, <2>3 DEF StagedIn, StagedAsDeleted
<1>10. ASSUME NEW p \in Paths, DirOf[p] # d, p \notin Doubtful PROVE StagedAsIs(p)'
  <2>1. p \in seen <=> p \in Present
    BY <1>10
  <2> HIDE DEF seen
  <2>2. CASE p \in DOMAIN stage'
    <3>1. IF stage'[p].deleted THEN p \in HeadLive /\ work[p] = Absent
                               ELSE work[p] = stage'[p].content
      BY <1>6, <1>7, <1>8, <2>1, <2>2 DEF Present
    <3> QED
      BY <1>4, <1>5, <2>2, <3>1 DEF StagedAsIs
  <2>3. CASE p \notin DOMAIN stage'
    <3>1. p \notin r.new \union r.modified /\ p \notin r.gone
      BY <1>6, <2>3
    <3>2. CASE p \in Present
      <4>1. p \in HeadLive /\ Unchanged(p)
        BY <1>3, <1>10, <2>1, <3>1, <3>2, SeenAndUnreported DEF seen
      <4> QED
        BY <1>4, <1>5, <2>3, <4>1 DEF Unchanged, StagedAsIs
    <3>3. CASE p \notin Present
      <4>1. p \notin HeadLive /\ work[p] = Absent
        BY <1>7, <2>1, <3>1, <3>3 DEF Present
      <4> QED
        BY <1>4, <1>5, <2>3, <4>1 DEF StagedAsIs
    <3> QED
      BY <3>2, <3>3
  <2> QED
    BY <2>2, <2>3
<1> QED
    BY <1>9, <1>10 DEF StagedIn

\* `insert .' on an empty stage: of every path it stages what the work tree
\* has, whatever the history, the edits and the killed commands before it. The
\* exceptions are those of the code: a stamp that lies or was never written,
\* and the files of one directory, all of them staged as deleted
\* (status.c:116-235).
THEOREM InsertMissesNothing == Spec => InsertFindsChanges
<1>1. TypeInv /\ StampInv /\ [Next]_vars =>
        [(stage = Nothing /\ InsertAll({}))
            => \E d \in Dirs \union {NoDir} : \A p \in Paths :
                    IF DirOf[p] = d
                    THEN IF p \in HeadLive THEN StagedAsDeleted(p)'
                                           ELSE p \notin DOMAIN stage'
                    ELSE p \in Doubtful \/ StagedAsIs(p)']_vars
    BY InsertAllFinds DEF StagedIn
<1> QED
    BY <1>1, RepoTypes, StampsAreHonest, PTL DEF Spec, InsertFindsChanges

LEMMA UnchangedIsPresent ==
    ASSUME TypeInv, NEW p, Unchanged(p)
    PROVE  p \in Present
<1>1. p \in HeadLive /\ work[p] = commits[head][p].content
    BY DEF Unchanged
<1>2. head # 0
    BY <1>1 DEF HeadLive, Live
<1>3. commits[head] \in Tree /\ p \in DOMAIN commits[head]
    BY <1>1, <1>2, CommitTypes DEF HeadLive, Live, TypeInv
<1>4. work[p] \in FileContent /\ p \in Paths
    BY <1>1, <1>3, EntryType
<1> QED
    BY <1>4, RepoAssumption DEF FileContent, Present

\* Unchanged files that a step has staged.
NewlyUnchanged == {p \in DOMAIN stage' \ DOMAIN stage : Unchanged(p)}

\* They are there as deleted, and for their directory.
OnlyAsDeleted ==
    /\ \A p \in NewlyUnchanged : StagedAsDeleted(p)'
    /\ NewlyUnchanged # {} =>
          \E d \in Dirs : \/ NewlyUnchanged \subseteq In(d)
                          \/ InsertDir(d) /\ NewlyUnchanged \cap In(d) = {}

\* An unchanged file that is reported is one that was not seen.
LEMMA ReportedUnchanged ==
    ASSUME TypeInv, NEW r, NEW seen, NEW trusted, Report(r, seen, trusted),
           NEW paths, ReportJoins(r, paths), NEW p \in NewlyUnchanged
    PROVE  p \in r.gone /\ p \in Present /\ p \notin seen /\ StagedAsDeleted(p)'
<1>1. p \in paths \ DOMAIN stage /\ p \in DOMAIN stage' /\ Unchanged(p)
    BY DEF NewlyUnchanged, ReportJoins, Joined
<1>2. p \in Present /\ p \in HeadLive /\ p \in Paths
    BY <1>1, UnchangedIsPresent DEF Unchanged, Present
<1>3. p \in r.gone /\ p \notin seen
    BY <1>1, <1>2, ReportIs DEF ReportJoins
<1>4. stage'[p].deleted = TRUE
  <2>1. stage'[p] = NodeOf(p, p \in r.gone) /\ (p \in r.gone) = TRUE
    BY <1>1, <1>3 DEF ReportJoins
  <2>2. NodeOf(p, TRUE).deleted = TRUE
    BY DEF NodeOf
  <2>3. QED
    BY <2>1, <2>2
<1>5. stage'[p].deleted
    BY <1>4
<1> QED
    BY <1>1, <1>2, <1>3, <1>5 DEF StagedAsDeleted

LEMMA InsertAllUnchanged ==
    ASSUME TypeInv, NEW ignored \in SUBSET Paths, InsertAll(ignored)
    PROVE  OnlyAsDeleted
<1>1. PICK r \in Statuses :
            ReportJoins(r, (r.new \union r.modified \union r.gone) \ ignored)
    BY InsertAllDoes
<1>2. PICK d \in Dirs \union {NoDir} :
            \E trusted : Report(r, {p \in Present : DirOf[p] # d}, trusted)
    BY StatusesSee
<1>3. PICK trusted : Report(r, {p \in Present : DirOf[p] # d}, trusted)
    BY <1>2
<1>4. ASSUME NEW p \in NewlyUnchanged
      PROVE  p \in Present /\ DirOf[p] = d /\ StagedAsDeleted(p)'
    BY <1>1, <1>3, ReportedUnchanged
<1>5. ASSUME NewlyUnchanged # {} PROVE d \in Dirs
  <2>1. PICK p \in NewlyUnchanged : TRUE
    BY <1>5
  <2>2. p \in Paths /\ DirOf[p] = d
    BY <1>4, <2>1 DEF Present
  <2> QED
    BY <2>2, RepoAssumption
<1>6. NewlyUnchanged \subseteq In(d)
    BY <1>4 DEF In
<1> QED
    BY <1>4, <1>5, <1>6 DEF OnlyAsDeleted

LEMMA InsertDirUnchanged ==
    ASSUME TypeInv, NEW d \in Dirs, InsertDir(d)
    PROVE  OnlyAsDeleted
<1>1. PICK r \in StatusesIn(d) : ReportJoins(r, r.new \union r.modified \union r.gone)
    BY InsertDirDoes
<1>2. PICK trusted : Report(r, In(d), trusted)
    BY StatusesReport
<1>3. \A p \in NewlyUnchanged : p \notin In(d) /\ StagedAsDeleted(p)'
    BY <1>1, <1>2, ReportedUnchanged
<1>4. NewlyUnchanged \cap In(d) = {}
    BY <1>3
<1> QED
    BY <1>3, <1>4 DEF OnlyAsDeleted

LEMMA StepUnchanged ==
    ASSUME TypeInv, [Next]_vars
    PROVE  OnlyAsDeleted
<1>1. ASSUME NewlyUnchanged = {} PROVE OnlyAsDeleted
    BY <1>1 DEF OnlyAsDeleted
<1>2. ASSUME NEW p \in Paths, InsertFile(p) PROVE NewlyUnchanged = {}
    BY <1>2, InsertFileDoes DEF Joined, NewlyUnchanged
<1>3. ASSUME DOMAIN stage' \subseteq DOMAIN stage PROVE NewlyUnchanged = {}
    BY <1>3 DEF NewlyUnchanged
<1>4. CASE Still \/ Removal
    BY <1>1, <1>3, <1>4 DEF Still, Removal
<1>5. CASE Writing
    BY <1>1, <1>3, <1>5 DEF Writing, Rewritten, Versions
<1>6. CASE Forgetting \/ Commit
    BY <1>1, <1>3, <1>6, NothingIs DEF Forgetting, Commit
<1>7. CASE \E ignored \in SUBSET Paths : InsertAll(ignored)
    BY <1>7, InsertAllUnchanged
<1>8. CASE \E d \in Dirs : InsertDir(d)
    BY <1>8, InsertDirUnchanged
<1>9. CASE \E p \in Paths : InsertFile(p)
    BY <1>1, <1>2, <1>9
<1> QED
    BY <1>4, <1>5, <1>6, <1>7, <1>8, <1>9, StepKinds DEF Inserting

\* A file that has not changed is staged only as deleted, and only where the
\* walk has not seen it: it is in the one directory that is left out, or
\* beside the directory insert was given (status.c:195).
THEOREM UnchangedAreDeletions == Spec => UnchangedOnlyAsDeleted
<1>1. TypeInv /\ [Next]_vars =>
        [LET unchanged == {p \in DOMAIN stage' \ DOMAIN stage : Unchanged(p)}
         IN  /\ \A p \in unchanged : StagedAsDeleted(p)'
             /\ unchanged # {} =>
                   \E d \in Dirs : \/ unchanged \subseteq In(d)
                                   \/ InsertDir(d) /\ unchanged \cap In(d) = {}]_vars
    BY StepUnchanged DEF OnlyAsDeleted, NewlyUnchanged
<1> QED
    BY <1>1, RepoTypes, PTL DEF Spec, UnchangedOnlyAsDeleted

-----------------------------------------------------------------------------
(* What commit records *)

LEMMA CommitIsWork ==
    ASSUME TypeInv, Commit, StageIsWork, head = Last
    PROVE  Snapshot(head)' = WorkSnapshot
<1> DEFINE n == Len(commits)
<1>1. PICK t \in Tree :
            /\ commits' = Append(commits, t)
            /\ DOMAIN t = DOMAIN stage \union Live(n)
            /\ \A p \in DOMAIN stage :
                IF stage[p].deleted /\ p \in Live(n)
                THEN t[p].deleted /\ t[p].content = Empty /\ t[p].stamp = "junk"
                ELSE /\ ~t[p].deleted /\ t[p].content = stage[p].content
                     /\ t[p].stamp = stage[p].stamp
            /\ \A p \in Live(n) \ DOMAIN stage :
                /\ ~t[p].deleted /\ t[p].stamp = "junk"
                /\ t[p].content = commits[n][p].content
    BY CommitDoes
<1>2. /\ commits \in Seq(Tree) /\ n \in Nat /\ stage \in Tree /\ Live(n) = HeadLive
      /\ head = n
    BY DEF TypeInv, HeadLive, Last
<1>3. head' = n + 1 /\ commits'[n + 1] = t /\ n + 1 # 0
    BY <1>1, <1>2 DEF Commit, Last
<1>4. Live(head)' = {p \in DOMAIN t : ~t[p].deleted}
    BY <1>3 DEF Live
<1>5. \A p \in DOMAIN t : p \in Paths /\ t[p].content # Absent
    BY EntryType, RepoAssumption DEF FileContent
<1>6. ASSUME NEW p \in Paths
      PROVE  /\ p \in Present <=> p \in DOMAIN t /\ ~t[p].deleted
             /\ p \in Present => t[p].content = work[p]
  <2>1. CASE p \in DOMAIN stage /\ stage[p].deleted
    <3>1. p \in Live(n) /\ work[p] = Absent
      BY <1>2, <2>1 DEF StageIsWork, StagedAsIs
    <3>2. t[p].deleted
      BY <1>1, <2>1, <3>1
    <3> QED
      BY <3>1, <3>2 DEF Present
  <2>2. CASE p \in DOMAIN stage /\ ~stage[p].deleted
    <3>1. work[p] = stage[p].content
      BY <2>2 DEF StageIsWork, StagedAsIs
    <3>2. ~t[p].deleted /\ t[p].content = work[p] /\ p \in DOMAIN t
      BY <1>1, <2>2, <3>1
    <3> QED
      BY <1>5, <3>2 DEF Present
  <2>3. CASE p \notin DOMAIN stage /\ p \in HeadLive
    <3>1. work[p] = commits[n][p].content
      BY <1>2, <2>3 DEF StageIsWork, StagedAsIs
    <3>2. ~t[p].deleted /\ t[p].content = work[p] /\ p \in DOMAIN t
      BY <1>1, <1>2, <2>3, <3>1
    <3> QED
      BY <1>5, <3>2 DEF Present
  <2>4. CASE p \notin DOMAIN stage /\ p \notin HeadLive
    <3>1. work[p] = Absent
      BY <2>4 DEF StageIsWork, StagedAsIs
    <3> QED
      BY <1>1, <1>2, <2>4, <3>1 DEF Present
  <2> QED
    BY <2>1, <2>2, <2>3, <2>4
<1>7. Present = Live(head)'
    BY <1>4, <1>5, <1>6 DEF Present
<1>8. Snapshot(head)' = [p \in Live(head)' |-> t[p].content]
    BY <1>3 DEF Snapshot
<1>9. \A p \in Present : t[p].content = work[p]
    BY <1>6 DEF Present
<1>10. [p \in Present |-> t[p].content] = [p \in Present |-> work[p]]
    BY <1>9
<1> QED
    BY <1>7, <1>8, <1>10 DEF WorkSnapshot

\* A commit of a stage that holds every change is the work tree, whatever the
\* history before it: nothing tracked is dropped, what was deleted is left
\* out (commit.c:463-569).
THEOREM CommitIsTheWorkTree == Spec => CommitRecordsWork
<1>1. TypeInv /\ [Next]_vars =>
        [(Commit /\ StageIsWork /\ head = Last /\ stage # Nothing)
            => Snapshot(head)' = WorkSnapshot]_vars
    BY CommitIsWork
<1> QED
    BY <1>1, RepoTypes, PTL DEF Spec, CommitRecordsWork

-----------------------------------------------------------------------------
(* What a checkout removes, and what it restores *)

LEMMA CheckOutAsks ==
    ASSUME TypeInv, StampInv, NEW target, NEW force,
           CheckOut(target, force), pc' = "cleaning", ~asked'
    PROVE  \E d \in Dirs \union {NoDir} : \A p \in Present :
                Unchanged(p) \/ p \in Doubtful \/ DirOf[p] = d
<1>1. PICK r \in Statuses : asked' = (r.new # {} \/ r.modified # {})
    BY DEF CheckOut
<1>2. PICK d \in Dirs \union {NoDir} :
            \E trusted : Report(r, {p \in Present : DirOf[p] # d}, trusted)
    BY StatusesSee
<1>3. PICK trusted : Report(r, {p \in Present : DirOf[p] # d}, trusted)
    BY <1>2
<1>4. r.new = {} /\ r.modified = {}
    BY <1>1
<1>5. ASSUME NEW p \in Present, DirOf[p] # d PROVE Unchanged(p) \/ p \in Doubtful
  <2>1. p \in {q \in Present : DirOf[q] # d} /\ p \notin r.new \union r.modified
    BY <1>4, <1>5
  <2> QED
    BY <1>3, <2>1, SeenAndUnreported
<1> QED
    BY <1>5

\* Only a checkout, or the head command, begins to clean the work tree.
LEMMA CleaningBegins ==
    ASSUME TypeInv, [Next]_vars, pc = "idle", pc' = "cleaning"
    PROVE  \E target, force : CheckOut(target, force)
<1>1. CASE Command
  <2>1. ASSUME NEW ignored, InsertAll(ignored) PROVE FALSE
    BY <2>1 DEF InsertAll, checking
  <2>2. ASSUME NEW d, InsertDir(d) PROVE FALSE
    BY <2>2 DEF InsertDir, checking
  <2>3. ASSUME NEW p, InsertFile(p) PROVE FALSE
    BY <2>3 DEF InsertFile, checking
  <2>4. ~Reset /\ ~Commit
    BY DEF Reset, Commit, checking
  <2>5. ASSUME NEW i, Tag(i) PROVE FALSE
    BY <2>5 DEF Tag, checking
  <2>6. ASSUME NEW p, NEW i, RevertFile(p, i) PROVE FALSE
    BY <2>6 DEF RevertFile, checking
  <2>7. ASSUME NEW d, NEW i, RevertDir(d, i) PROVE FALSE
    BY <2>7 DEF RevertDir
  <2> QED
    BY <1>1, <2>1, <2>2, <2>3, <2>4, <2>5, <2>6, <2>7
    DEF Command, HeadTo, HeadReset, CheckOutHead
<1>2. CASE CheckingOut
    BY <1>2 DEF CheckingOut, RemoveFile, WriteBack, CleanDone, WrittenBack
<1>3. ASSUME Kill \/ (\E p \in Paths : Edit(p)) \/ UNCHANGED vars PROVE FALSE
    BY <1>3 DEF Kill, Exit, Edit, checking, vars
<1> QED
    BY <1>1, <1>2, <1>3 DEF Next

\* The head command, checkout and revert clean the work tree unasked only of
\* files that the old HEAD has as they are, whose stamp in it lies or was never
\* written, or that are in the one directory status() has left out, whatever
\* was edited and killed before (checkout.c:73-95).
THEOREM NothingLostUnasked == Spec => NothingLostSilently
<1>1. TypeInv /\ StampInv /\ [Next]_vars =>
        [(pc = "idle" /\ pc' = "cleaning" /\ ~asked')
            => \E d \in Dirs \union {NoDir} : \A p \in Present :
                    Unchanged(p) \/ p \in Doubtful \/ DirOf[p] = d]_vars
    BY CleaningBegins, CheckOutAsks
<1> QED
    BY <1>1, RepoTypes, StampsAreHonest, PTL DEF Spec, NothingLostSilently

\* The content a path has once the commit's tree is checked out.
RestoredFrom(i, p) ==
    IF i # 0 /\ p \in DOMAIN commits[i] THEN commits[i][p].content ELSE Absent

\* While a checkout rewrites the work tree, a file that is not on its list
\* is as HEAD has it.
CheckOutInv ==
    pc = "rewriting" =>
        /\ source = head
        /\ \A p \in Paths : p \in todo \/ work[p] = RestoredFrom(head, p)

LEMMA CheckOutStep == TypeInv /\ CheckOutInv /\ [Next]_vars => CheckOutInv'
<1> SUFFICES ASSUME TypeInv, CheckOutInv, [Next]_vars, pc' = "rewriting" PROVE CheckOutInv'
    BY DEF CheckOutInv
<1>1. ASSUME pc = "idle" PROVE FALSE
  <2>1. ~Command
    <3>1. ASSUME NEW ignored, InsertAll(ignored) PROVE FALSE
      BY <1>1, <3>1 DEF InsertAll, checking
    <3>2. ASSUME NEW d, InsertDir(d) PROVE FALSE
      BY <1>1, <3>2 DEF InsertDir, checking
    <3>3. ASSUME NEW p, InsertFile(p) PROVE FALSE
      BY <1>1, <3>3 DEF InsertFile, checking
    <3>4. ~Reset /\ ~Commit
      BY <1>1 DEF Reset, Commit, checking
    <3>5. ASSUME NEW i, Tag(i) PROVE FALSE
      BY <1>1, <3>5 DEF Tag, checking
    <3>6. ASSUME NEW p, NEW i, RevertFile(p, i) PROVE FALSE
      BY <1>1, <3>6 DEF RevertFile, checking
    <3>7. ASSUME NEW d, NEW i, RevertDir(d, i) PROVE FALSE
      BY <1>1, <3>7 DEF RevertDir
    <3>8. ASSUME NEW i, NEW force, CheckOut(i, force) PROVE FALSE
      BY <1>1, <3>8 DEF CheckOut
    <3> QED
      BY <3>1, <3>2, <3>3, <3>4, <3>5, <3>6, <3>7, <3>8
      DEF Command, HeadTo, HeadReset, CheckOutHead
  <2>2. ~CheckingOut
    BY <1>1 DEF CheckingOut, RemoveFile, WriteBack, CleanDone, WrittenBack, Rewriting
  <2>3. ~Kill /\ ~(\E p \in Paths : Edit(p)) /\ ~UNCHANGED vars
    BY <1>1 DEF Kill, Edit, checking, vars
  <2> QED
    BY <2>1, <2>2, <2>3 DEF Next
<1>2. ~Command
  <2>1. Command => pc = "idle"
    BY DEF Command, InsertAll, InsertDir, InsertFile, Reset, Commit, Tag, HeadTo, HeadReset,
           CheckOutHead, CheckOut, RevertFile, RevertDir
  <2> QED
    BY <1>1, <2>1
<1>3. ~Kill /\ ~(\E p \in Paths : Edit(p))
    BY <1>1 DEF Kill, Exit, Edit
<1>4. CASE CleanDone
  <2>1. /\ Present = {} /\ work' = work /\ commits' = commits /\ head' = head
        /\ source' = head /\ todo' = (IF head = 0 THEN {} ELSE DOMAIN commits[head])
    BY <1>4 DEF CleanDone, repo
  <2>2. \A p \in Paths : work[p] = Absent
    BY <2>1 DEF Present
  <2>3. \A p \in Paths : p \in todo' \/ ~(head # 0 /\ p \in DOMAIN commits[head])
    BY <2>1
  <2> QED
    BY <2>1, <2>2, <2>3 DEF CheckOutInv, RestoredFrom
<1>5. ASSUME NEW p \in Paths, WriteBack(p) PROVE CheckOutInv'
  <2>1. /\ p \in todo /\ Rewritten(p, commits[source][p].content)
        /\ commits[source][p].content \in FileContent
    BY <1>5, WriteBackDoes
  <2>2. /\ pc = "rewriting" /\ head' = head /\ source' = source /\ todo' = todo \ {p}
    BY <1>5 DEF WriteBack
  <2>3. source = head /\ \A q \in Paths : q \in todo \/ work[q] = RestoredFrom(head, q)
    BY <2>2 DEF CheckOutInv
  <2>4. head \in 1 .. Len(commits) /\ p \in DOMAIN commits[head]
    BY <2>1, <2>2, <2>3, SourceContent DEF Rewriting
  <2>5. Versions(commits'[head], commits[head], p) /\ work \in [Paths -> FileContent \union {Absent}]
    BY <2>1, <2>4 DEF Rewritten, TypeInv
  <2>6. /\ DOMAIN commits'[head] = DOMAIN commits[head]
        /\ \A q \in DOMAIN commits[head] : commits'[head][q].content = commits[head][q].content
    BY <2>5 DEF Versions
  <2>7. work' = [work EXCEPT ![p] = commits[head][p].content]
    BY <2>1, <2>3 DEF Rewritten
  <2>8. \A q \in Paths : (IF head # 0 /\ q \in DOMAIN commits'[head]
                          THEN commits'[head][q].content ELSE Absent) = RestoredFrom(head, q)
    BY <2>6 DEF RestoredFrom
  <2>9. ASSUME NEW q \in Paths, q \notin todo' PROVE work'[q] = RestoredFrom(head, q)
    <3>1. CASE q = p
      BY <2>4, <2>5, <2>7, <3>1 DEF RestoredFrom
    <3>2. CASE q # p
      BY <2>2, <2>3, <2>5, <2>7, <2>9, <3>2
    <3> QED
      BY <3>1, <3>2
  <2> QED
    BY <2>2, <2>3, <2>8, <2>9 DEF CheckOutInv, RestoredFrom
<1>6. ASSUME NEW p \in Paths, RemoveFile(p) PROVE FALSE
    BY <1>6 DEF RemoveFile, checking
<1>7. ~WrittenBack
    BY DEF WrittenBack, Exit
<1>8. CASE UNCHANGED vars
  <2>1. /\ work' = work /\ commits' = commits /\ head' = head /\ source' = source
        /\ todo' = todo /\ pc' = pc
    BY <1>8 DEF vars, repo, checking
  <2> QED
    BY <2>1 DEF CheckOutInv, RestoredFrom
<1> QED
    BY <1>2, <1>3, <1>4, <1>5, <1>6, <1>7, <1>8 DEF Next, CheckingOut

\* A checkout that comes to its end leaves HEAD's files and no others, from
\* whatever the work tree was and however many commands were killed before.
THEOREM CheckoutRestoresHead == Spec => CheckOutRestores
<1>1. Init => CheckOutInv
    BY DEF Init, CheckOutInv
<1>2. Spec => []CheckOutInv
    BY <1>1, RepoTypes, CheckOutStep, PTL DEF Spec
<1>3. ASSUME TypeInv, CheckOutInv, WrittenBack, pc = "rewriting"
      PROVE  work' = Restored(head)
  <2>1. work' = work /\ todo = {}
    BY <1>3 DEF WrittenBack
  <2>2. \A p \in Paths : work[p] = RestoredFrom(head, p)
    BY <1>3, <2>1 DEF CheckOutInv
  <2>3. work = [p \in Paths |-> work[p]]
    BY <1>3 DEF TypeInv
  <2>4. [p \in Paths |-> work[p]] = [p \in Paths |-> RestoredFrom(head, p)]
    BY <2>2
  <2> QED
    BY <2>1, <2>3, <2>4 DEF Restored, RestoredFrom
<1>4. TypeInv /\ CheckOutInv /\ [Next]_vars =>
        [(WrittenBack /\ pc = "rewriting") => work' = Restored(head)]_vars
    BY <1>3
<1> QED
    BY <1>2, <1>4, RepoTypes, PTL DEF Spec, CheckOutRestores

-----------------------------------------------------------------------------
(* The commands implement the abstract store *)

\* What the abstract store keeps of a commit, and of the stage.
LiveOf(t) == {p \in DOMAIN t : ~t[p].deleted}
SnapOf(t) == [p \in LiveOf(t) |-> t[p].content]
Bare(t) == [p \in DOMAIN t |-> [content |-> t[p].content, deleted |-> t[p].deleted]]

History == [i \in DOMAIN commits |-> Snapshot(i)]
Staged == [p \in DOMAIN stage |-> [content |-> stage[p].content,
                                   deleted |-> stage[p].deleted]]

LEMMA HistoryIs ==
    ASSUME TypeInv
    PROVE  /\ History = [i \in 1 .. Len(commits) |-> SnapOf(commits[i])]
           /\ \A i \in 1 .. Len(commits) :
                Snapshot(i) = SnapOf(commits[i]) /\ Live(i) = LiveOf(commits[i])
           /\ Staged = Bare(stage)
<1>1. DOMAIN commits = 1 .. Len(commits) /\ Len(commits) \in Nat
    BY CommitTypes
<1>2. \A i \in 1 .. Len(commits) : i # 0
    BY <1>1
<1>3. \A i \in 1 .. Len(commits) :
            Snapshot(i) = SnapOf(commits[i]) /\ Live(i) = LiveOf(commits[i])
    BY <1>2 DEF Snapshot, Live, SnapOf, LiveOf
<1> QED
    BY <1>1, <1>3 DEF History, Staged, Bare

LEMMA HistoryIsNext ==
    ASSUME TypeInv'
    PROVE  /\ History' = [i \in 1 .. Len(commits') |-> SnapOf(commits'[i])]
           /\ Staged' = Bare(stage')
<1>1. commits' \in Seq(Tree)
    BY DEF TypeInv
<1>2. DOMAIN commits' = 1 .. Len(commits') /\ \A i \in 1 .. Len(commits') : i # 0
    BY <1>1
<1>3. \A i \in 1 .. Len(commits') : Snapshot(i)' = SnapOf(commits'[i])
    BY <1>2 DEF Snapshot, Live, SnapOf, LiveOf
<1>4. History' = [i \in 1 .. Len(commits') |-> SnapOf(commits'[i])]
    BY <1>2, <1>3 DEF History
<1>5. Staged' = Bare(stage')
    BY DEF Staged, Bare
<1> QED
    BY <1>4, <1>5

LEMMA VersionsShowNothing ==
    ASSUME NEW old, NEW new, NEW p, Versions(new, old, p)
    PROVE  SnapOf(new) = SnapOf(old) /\ Bare(new) = Bare(old)
<1>1. /\ DOMAIN new = DOMAIN old
      /\ \A q \in DOMAIN old : new[q].content = old[q].content /\ new[q].deleted = old[q].deleted
    BY DEF Versions
<1>2. LiveOf(new) = LiveOf(old)
    BY <1>1 DEF LiveOf
<1>3. \A q \in LiveOf(old) : new[q].content = old[q].content
    BY <1>1 DEF LiveOf
<1>4. SnapOf(new) = SnapOf(old)
    BY <1>2, <1>3 DEF SnapOf
<1>5. Bare(new) = Bare(old)
    BY <1>1 DEF Bare
<1> QED
    BY <1>4, <1>5

\* Writing a file changes stamps, which the abstract store does not keep.
LEMMA WritingShowsNothing ==
    ASSUME TypeInv, TypeInv', Writing
    PROVE  History' = History /\ Staged' = Staged
<1>1. PICK p \in Paths, c \in FileContent : Rewritten(p, c)
    BY DEF Writing
<1>2. /\ Len(commits') = Len(commits) /\ Versions(stage', stage, p)
      /\ \A i \in 1 .. Len(commits) : Versions(commits'[i], commits[i], p)
    BY <1>1 DEF Rewritten
<1>3. Bare(stage') = Bare(stage)
    BY <1>2, VersionsShowNothing
<1>4. \A i \in 1 .. Len(commits) : SnapOf(commits'[i]) = SnapOf(commits[i])
    BY <1>2, VersionsShowNothing
<1>5. History' = [i \in 1 .. Len(commits') |-> SnapOf(commits'[i])] /\ Staged' = Bare(stage')
    BY HistoryIsNext
<1>6. History = [i \in 1 .. Len(commits) |-> SnapOf(commits[i])] /\ Staged = Bare(stage)
    BY HistoryIs
<1> QED
    BY <1>2, <1>3, <1>4, <1>5, <1>6

LEMMA SameHistory ==
    ASSUME commits' = commits
    PROVE  History' = History
BY DEF History, Snapshot, Live

LEMMA InsertMaps ==
    ASSUME TypeInv, Growing
    PROVE  VS!Insert
<1>1. PICK paths \in SUBSET Paths : Joined(paths)
    BY DEF Growing
<1> DEFINE new == paths \ DOMAIN stage
<1>2. /\ stage' \in Tree /\ DOMAIN stage' = DOMAIN stage \union new
      /\ \A p \in DOMAIN stage : stage'[p] = stage[p]
    BY <1>1 DEF Joined
<1>3. DOMAIN Staged = DOMAIN stage
      /\ Staged' = [p \in DOMAIN stage' |-> [content |-> stage'[p].content,
                                             deleted |-> stage'[p].deleted]]
    BY DEF Staged
<1>4. \A p \in DOMAIN stage' :
            [content |-> stage'[p].content, deleted |-> stage'[p].deleted] \in VS!StageNodes
    BY <1>2, EntryType DEF VS!StageNodes, FileContent
<1>5. Staged' \in [DOMAIN Staged \union new -> VS!StageNodes]
    BY <1>2, <1>3, <1>4
<1>6. \A p \in DOMAIN Staged : Staged'[p] = Staged[p]
    BY <1>2, <1>3 DEF Staged
<1>7. new \in SUBSET (Paths \ DOMAIN Staged) /\ History' = History
    BY <1>3, SameHistory DEF Growing
<1> HIDE DEF new
<1> QED
    BY <1>5, <1>6, <1>7 DEF VS!Insert, Staged, History

LEMMA ResetMaps ==
    ASSUME Forgetting
    PROVE  VS!Reset
<1>1. Staged' = VS!Nothing
    BY NothingIs DEF Forgetting, Staged, VS!Nothing
<1> QED
    BY <1>1, SameHistory DEF Forgetting, VS!Reset, Staged, History

\* The snapshot a commit starts from.
LEMMA MasterIs ==
    ASSUME TypeInv
    PROVE  /\ VS!Master = Snapshot(Len(commits))
           /\ History \in Seq({Snapshot(i) : i \in 1 .. Len(commits)})
           /\ Len(History) = Len(commits)
<1> DEFINE n == Len(commits)
           S == {Snapshot(i) : i \in 1 .. n}
<1>1. n \in Nat /\ History = [i \in 1 .. n |-> Snapshot(i)]
    BY CommitTypes DEF History
<1>2. \A i \in 1 .. n : Snapshot(i) \in S
    OBVIOUS
<1> HIDE DEF S, n
<1>3. History \in Seq(S) /\ Len(History) = n
    BY <1>1, <1>2
<1>4. VS!Master = (IF History = <<>> THEN VS!Nothing ELSE History[Len(History)])
    BY DEF VS!Master, History
<1>5. CASE n = 0
  <2>1. Live(0) = {}
    BY DEF Live
  <2>2. Snapshot(0) = VS!Nothing
    BY <2>1 DEF Snapshot, VS!Nothing
  <2> QED
    BY <1>3, <1>4, <1>5, <2>2 DEF n, S
<1>6. CASE n # 0
  <2>1. History # <<>> /\ History[n] = Snapshot(n)
    BY <1>1, <1>3, <1>6
  <2> QED
    BY <1>3, <1>4, <2>1 DEF n, S
<1> QED
    BY <1>5, <1>6

LEMMA CommitMaps ==
    ASSUME TypeInv, TypeInv', Commit
    PROVE  VS!Commit
<1> DEFINE n == Len(commits)
           base == Snapshot(n)
<1>1. PICK t \in Tree :
            /\ commits' = Append(commits, t)
            /\ DOMAIN t = DOMAIN stage \union Live(n)
            /\ \A p \in DOMAIN stage :
                IF stage[p].deleted /\ p \in Live(n)
                THEN t[p].deleted /\ t[p].content = Empty /\ t[p].stamp = "junk"
                ELSE /\ ~t[p].deleted /\ t[p].content = stage[p].content
                     /\ t[p].stamp = stage[p].stamp
            /\ \A p \in Live(n) \ DOMAIN stage :
                /\ ~t[p].deleted /\ t[p].stamp = "junk"
                /\ t[p].content = commits[n][p].content
    BY CommitDoes
<1>2. n \in Nat /\ commits \in Seq(Tree) /\ stage \in Tree
    BY DEF TypeInv
<1>3. /\ DOMAIN base = Live(n) /\ \A p \in Live(n) : base[p] = commits[n][p].content
    BY DEF Snapshot
<1>4. DOMAIN Staged = DOMAIN stage
      /\ \A p \in DOMAIN stage : Staged[p].content = stage[p].content
                                 /\ Staged[p].deleted = stage[p].deleted
    BY DEF Staged
<1>5. VS!Apply(base) =
        [p \in (DOMAIN base \union DOMAIN Staged)
                    \ {q \in DOMAIN Staged : Staged[q].deleted /\ q \in DOMAIN base} |->
            IF p \in DOMAIN Staged THEN Staged[p].content ELSE base[p]]
    BY DEF VS!Apply, VS!Removed, Staged
<1> HIDE DEF base
<1> DEFINE kept == (DOMAIN base \union DOMAIN Staged)
                    \ {q \in DOMAIN Staged : Staged[q].deleted /\ q \in DOMAIN base}
<1>6. LiveOf(t) = kept
    BY <1>1, <1>3, <1>4 DEF LiveOf
<1>7. \A p \in kept : t[p].content = (IF p \in DOMAIN Staged THEN Staged[p].content ELSE base[p])
    BY <1>1, <1>3, <1>4
<1>8. SnapOf(t) = VS!Apply(base)
  <2> HIDE DEF kept
  <2>1. [p \in kept |-> t[p].content]
            = [p \in kept |-> IF p \in DOMAIN Staged THEN Staged[p].content ELSE base[p]]
    BY <1>7
  <2>2. VS!Apply(base)
            = [p \in kept |-> IF p \in DOMAIN Staged THEN Staged[p].content ELSE base[p]]
    BY <1>5 DEF kept
  <2> QED
    BY <1>6, <2>1, <2>2 DEF SnapOf
<1>9. /\ History \in Seq({Snapshot(i) : i \in 1 .. n}) /\ Len(History) = n
      /\ VS!Master = base
    BY MasterIs DEF base
<1>10. /\ Len(commits') = n + 1 /\ commits'[n + 1] = t
       /\ \A i \in 1 .. n : commits'[i] = commits[i]
    BY <1>1, <1>2
<1> DEFINE S == {Snapshot(i) : i \in 1 .. n}
           T == S \union {SnapOf(t)}
           longer == Append(History, SnapOf(t))
<1>11. History' = longer
  <2>1. longer \in Seq(T) /\ Len(longer) = n + 1
        /\ (\A i \in 1 .. n : longer[i] = History[i]) /\ longer[n + 1] = SnapOf(t)
    <3>1. History \in Seq(S) /\ n \in Nat /\ Len(History) = n
      BY <1>2, <1>9
    <3> HIDE DEF S, n
    <3> QED
      BY <3>1
  <2>2. History' = [i \in 1 .. n + 1 |-> SnapOf(commits'[i])]
    BY <1>10, HistoryIsNext
  <2>3. \A i \in 1 .. n : History[i] = SnapOf(commits[i])
    BY HistoryIs
  <2> HIDE DEF longer, T, n
  <2>4. longer = [i \in 1 .. n + 1 |-> longer[i]]
    <3>1. longer = [i \in 1 .. Len(longer) |-> longer[i]]
      BY <2>1
    <3> QED
      BY <2>1, <3>1
  <2>5. \A i \in 1 .. n + 1 : longer[i] = SnapOf(commits'[i])
    <3> SUFFICES ASSUME NEW i \in 1 .. n + 1 PROVE longer[i] = SnapOf(commits'[i])
      OBVIOUS
    <3>1. CASE i \in 1 .. n
      BY <1>10, <2>1, <2>3, <3>1
    <3>2. CASE i = n + 1
      BY <1>10, <2>1, <3>2
    <3> QED
      BY <1>2, <3>1, <3>2
  <2> QED
    BY <2>2, <2>4, <2>5
<1>12. Staged # VS!Nothing
  <2>1. DOMAIN stage # {}
    <3>1. stage # Nothing
      BY DEF Commit
    <3>2. stage = [p \in DOMAIN stage |-> stage[p]]
      BY <1>2, TreeIs
    <3> QED
      BY <3>1, <3>2 DEF Nothing
  <2>2. DOMAIN VS!Nothing = {}
    BY DEF VS!Nothing
  <2> QED
    BY <1>4, <2>1, <2>2
<1>13. Staged' = VS!Nothing
    BY NothingIs DEF Commit, Staged, VS!Nothing
<1>14. History' = Append(History, VS!Apply(VS!Master))
    BY <1>8, <1>9, <1>11
<1> QED
    BY <1>12, <1>13, <1>14 DEF VS!Commit, Staged, History

LEMMA StepMaps ==
    ASSUME TypeInv, TypeInv', [Next]_vars
    PROVE  [VS!Next]_(VS!vars)
<1>1. CASE Still \/ Removal
  <2>1. History' = History /\ Staged' = Staged
    BY <1>1, SameHistory DEF Still, Removal, Staged
  <2> QED
    BY <2>1 DEF VS!vars, History, Staged
<1>2. CASE Writing
  <2>1. History' = History /\ Staged' = Staged
    BY <1>2, WritingShowsNothing
  <2> QED
    BY <2>1 DEF VS!vars, History, Staged
<1> QED
    BY <1>1, <1>2, InsertMaps, ResetMaps, CommitMaps, StepShapes DEF VS!Next

LEMMA InitMaps == Init => VS!Init
<1> SUFFICES ASSUME Init PROVE VS!Init
    OBVIOUS
<1>1. commits = <<>> /\ stage = Nothing
    BY DEF Init
<1>2. History = <<>>
    BY <1>1 DEF History
<1>3. Staged = VS!Nothing
    BY <1>1, NothingIs DEF Staged, VS!Nothing
<1> QED
    BY <1>2, <1>3 DEF VS!Init, History, Staged

\* The commands, checkouts killed halfway and edits included, are steps of
\* the abstract store or change nothing of it; PegStoreProofs shows
\* the same of the files the commands write.
THEOREM CommandsRefineStore == Spec => ImplementsVersionStore
BY RepoTypes, InitMaps, StepMaps, PTL DEF Spec, ImplementsVersionStore, VS!Spec

=============================================================================

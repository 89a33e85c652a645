------------------------ MODULE PegStoreRefinement --------------------------
(***************************************************************************)
(* The files implement the abstract store.  Inserting takes effect when    *)
(* cache.idx is emptied for its new content, committing when commit.idx    *)
(* is, resetting when cache.idx is cleared; the other steps stutter.       *)
(***************************************************************************)
EXTENDS PegStore

LiveEntries(c) ==
    {RealIdx[j] : j \in {i \in c.index + 1 .. c.index + c.length :
                            RealIdx[i].flags # "DELETED"}}

\* The snapshot a commit reads back.
Snapshot(c) ==
    [p \in {e.path : e \in LiveEntries(c)} |->
        LET e == CHOOSE x \in LiveEntries(c) : x.path = p
        IN Slice(RealPack, e.start, e.len)]

History == [i \in DOMAIN RealCommits |-> Snapshot(RealCommits[i])]

Stage ==
    [p \in {RealCacheIdx[i].path : i \in DOMAIN RealCacheIdx} |->
        LET i == CHOOSE k \in DOMAIN RealCacheIdx : RealCacheIdx[k].path = p
            n == RealCacheIdx[i]
        IN [content |-> Slice(RealCachePack, n.start, n.len),
            deleted |-> n.deleted]]

VS == INSTANCE VersionStore
        WITH EmptyFile <- <<>>, history <- History, stage <- Stage

(***************************************************************************)
(* Every behaviour of the files, crashes at the allowed points included,   *)
(* is one of the abstract store: each commit reads back exactly the last   *)
(* snapshot overlaid with what was staged, forever after, and the stage is *)
(* emptied by the commit that took it.                                     *)
(***************************************************************************)
ImplementsVersionStore == VS!Spec
=============================================================================

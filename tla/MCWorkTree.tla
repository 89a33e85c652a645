---------------------------- MODULE MCWorkTree ------------------------------
(* A tree of five directories, three levels deep, and a file in each; two  *)
(* of the files may be links to nowhere.                                   *)
EXTENDS WorkTree

CONSTANTS d1, d2, d3, d4, f0, f1, f2, f3, f4

MCDirs == {Root, d1, d2, d3, d4}
MCFiles == {f0, f1, f2, f3, f4}

MCLinks == {f1, f4}
MCCommitted == {f0, f2, f3}

MCParent ==
    [e \in (MCDirs \union MCFiles) \ {Root} |->
        CASE e \in {f0, d1, d2} -> Root
          [] e \in {f1, d3}     -> d1
          [] e = f2             -> d2
          [] e \in {f3, d4}     -> d3
          [] e = f4             -> d4]

\* The entries n levels up from e, as far as there are any.
Up[e \in MCDirs \union MCFiles, n \in 0 .. 4] ==
    IF n = 0 THEN e
    ELSE IF Up[e, n - 1] = Root THEN Root ELSE MCParent[Up[e, n - 1]]

MCWithin ==
    {<<d, e>> \in MCDirs \X (MCDirs \union MCFiles) :
        \E n \in 0 .. 4 : Up[e, n] = d}
=============================================================================

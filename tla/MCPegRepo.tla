----------------------------- MODULE MCPegRepo ------------------------------
(* Constants for checking PegRepo with TLC. *)
EXTENDS PegRepo, TLC

CONSTANTS p1, p2, d1, d2

MCPaths == {p1, p2}

\* Both files in the root directory.
Flat == [p \in Paths |-> Root]

\* A file below a directory and one beside it: a walk may leave out the former.
Below == [p \in Paths |-> IF p = p1 THEN d1 ELSE Root]

\* A file in each of two directories: a walk may leave out either.
Apart == [p \in Paths |-> IF p = p1 THEN d1 ELSE d2]

\* The directories change places with their files.
Symmetry == {(p1 :> p2) @@ (p2 :> p1) @@ (d1 :> d2) @@ (d2 :> d1)}
=============================================================================

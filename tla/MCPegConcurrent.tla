-------------------------- MODULE MCPegConcurrent --------------------------
\* Two processes, which nothing tells apart.
EXTENDS PegConcurrent, TLC

CONSTANTS p1, p2

MCProc == {p1, p2}

Symmetry == Permutations(MCProc)

=============================================================================

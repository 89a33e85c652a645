------------------------------- MODULE Ascend -------------------------------
EXTENDS Naturals, FiniteSets

\* Numbers in ascending order: the k-th has k of them up to it.
Ascending(S) ==
    [k \in 1 .. Cardinality(S) |-> CHOOSE x \in S : Cardinality({y \in S : y <= x}) = k]

=============================================================================

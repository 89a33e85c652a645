----------------------------- MODULE MCPegStore -----------------------------
(* Constants for checking PegStore and PegStoreRefinement with TLC. *)
EXTENDS PegStoreRefinement, TLC

CONSTANTS a, b, p1, p2

MCPaths == {p1, p2}
OnePath == {p1}

\* No action or property tells one path from another.
Symmetry == Permutations(MCPaths)

\* Two contents of different lengths, so that offsets are not all alike.
TwoContents == {<<a>>, <<b, a>>}

\* With one content (two for a deletion) a file is still modified: on top of
\* a master that is ahead of HEAD, or where HEAD has it deleted.
OneContent == {<<b, a>>}

AllPoints == Points \ {"idle"}

\* Points where a crash does not show: nothing was being replaced.
QuietPoints == AllPoints \ (HistoryPoints \union StagePoints \union {"indexDone"})

=============================================================================

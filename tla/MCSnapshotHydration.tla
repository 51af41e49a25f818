------------------------ MODULE MCSnapshotHydration ------------------------
\* Instances of SnapshotHydration for TLC.
EXTENDS SnapshotClaims, TLC

CONSTANTS c1, c2, p1, p2

\* Clients are interchangeable, and so are processes.
Symmetry == Permutations(Clients) \union Permutations(Processes)
=============================================================================

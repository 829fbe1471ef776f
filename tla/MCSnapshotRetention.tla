------------------------- MODULE MCSnapshotRetention -------------------------
EXTENDS SnapshotRetention, TLC

CONSTANTS j1, j2, c1

Symmetry == Permutations(Jobs) \cup Permutations(Clones)

=============================================================================

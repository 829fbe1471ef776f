---------------------------- MODULE MCSnapshotBox ----------------------------
(* An instance of SnapshotBox for TLC. *)
EXTENDS SnapshotBox, TLC

Symmetry == Permutations(Goroutines) \cup Permutations(Clones) \cup Permutations(IDs)

=============================================================================

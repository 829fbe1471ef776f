--------------------------- MODULE MCCloneRecovery ---------------------------
EXTENDS CloneRecovery, TLC

CONSTANTS q1, q2, s1, s2, w1, w2, w3, c1, c2, h1, h2, i1, i2

\* Pools of the snapshots: both in one pool, or each in a pool of its own.
OnePool == [s \in Snapshots |-> q1]
TwoPools == [s \in {s1, s2} |-> IF s = s1 THEN q1 ELSE q2]

Symmetry == Permutations(Wrappers) \cup Permutations(Calls) \cup Permutations(IDs)

=============================================================================

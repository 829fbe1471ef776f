--------------------------- MODULE MCSerialSessions ---------------------------
EXTENDS SerialSessions, TLC

CONSTANTS q1, q2, s1, s2, s3, w1, w2, c1, c2

\* Pools of the snapshots: one pool, two pools, two pools of which one has two.
OnePool == [s \in {s1, s2} |-> q1]
TwoPools == [s \in {s1, s2} |-> IF s = s1 THEN q1 ELSE q2]
TwoPoolsThreeSnapshots == [s \in {s1, s2, s3} |-> IF s = s3 THEN q2 ELSE q1]

Symmetry == Permutations({w1, w2}) \cup Permutations({c1, c2})

=============================================================================

---------------------------- MODULE MCPoolRefresh ----------------------------
EXTENDS PoolRefresh

CONSTANTS q1, q2, t1, t2, c1

InOrder == <<q1, q2>>

=============================================================================

---------------------------- MODULE MCObservation ----------------------------
EXTENDS Observation

CONSTANTS m, u1

=============================================================================

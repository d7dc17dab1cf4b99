-------------------------- MODULE MCBridgeRecovery --------------------------
(* Small instances of BridgeRecovery.                                      *)
EXTENDS BridgeRecovery, TLC

CONSTANTS d1, d2, t1, t2, i1, i2

Interchangeable == Permutations(Doctors) \cup Permutations(Incidents)
=============================================================================

---------------------------- MODULE MCDaemonLock ----------------------------
(* Instances of DaemonLock for TLC: three daemon processes.                *)
EXTENDS DaemonLock, TLC

CONSTANTS d1, d2, d3
MCDaemon == {d1, d2, d3}
Symmetry == Permutations(MCDaemon)
=============================================================================

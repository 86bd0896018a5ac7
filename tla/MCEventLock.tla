---------------------------- MODULE MCEventLock ----------------------------
EXTENDS EventLock, TLC

\* Every action treats the pids alike.
PidSymmetry == Permutations(Pids)
=============================================================================

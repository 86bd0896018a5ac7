---------------------------- MODULE MCGardenLock ----------------------------
EXTENDS GardenLock, TLC

\* Every action treats the runs alike.
RunSymmetry == Permutations(Runs)
=============================================================================

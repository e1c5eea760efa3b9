----------------------------- MODULE MCCharDev -----------------------------
EXTENDS CharDev, TLC
ProcSymmetry == Permutations(Procs)
=============================================================================

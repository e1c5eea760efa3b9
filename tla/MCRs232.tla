------------------------------ MODULE MCRs232 ------------------------------
EXTENDS Rs232, TLC

ProcSymmetry == Permutations(Procs)
AllCalls == Ioctls \union {"read", "write"}
=============================================================================

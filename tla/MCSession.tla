------------------------------ MODULE MCSession ------------------------------
EXTENDS Session, TLC

CONSTANTS r1, r2, r3, r4, u1

MCSymmetry == Permutations(Ids)
=============================================================================

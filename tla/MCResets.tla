------------------------------ MODULE MCResets ------------------------------
EXTENDS Resets, TLC

CONSTANTS r1, r2, r3, r4, u1, u2

MCSymmetry == Permutations({r1, r2, r3, r4}) \union Permutations({u1, u2})
=============================================================================

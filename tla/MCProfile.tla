----------------------------- MODULE MCProfile ------------------------------
EXTENDS Profile, TLC

CONSTANTS r1, r2, r3, root, ann, name, phone, status, x, y

MCSymmetry == Permutations(Requests) \union Permutations(Columns) \union Permutations(Values)
=============================================================================

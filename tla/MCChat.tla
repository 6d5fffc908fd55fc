------------------------------- MODULE MCChat -------------------------------
EXTENDS Chat, TLC

CONSTANTS r1, r2, u1, u2, c1, c2, m1, t1, t2

MCSymmetry ==
  Permutations(Requests) \union Permutations(Users) \union Permutations(Chats)
    \union Permutations(Messages) \union Permutations(Texts)
=============================================================================

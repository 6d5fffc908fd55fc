----------------------------- MODULE MCCatalogue -----------------------------
EXTENDS Catalogue, TLC

CONSTANTS r1, r2, u1, u2, c1, c2, n1, n2, a1, a2

\* One user posts, the other one keeps favourites.
MCOwnerOf == [a \in Ads |-> u1]

MCSymmetry ==
  Permutations(Requests) \union Permutations(Cats) \union Permutations(Names)
    \union Permutations(Ads)
=============================================================================

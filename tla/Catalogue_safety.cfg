SPECIFICATION Spec
CONSTANTS
  r1 = r1
  r2 = r2
  u1 = u1
  u2 = u2
  c1 = c1
  c2 = c2
  n1 = n1
  n2 = n2
  a1 = a1
  a2 = a2
  Requests = {r1, r2}
  Users = {u1, u2}
  Cats = {c1, c2}
  Names = {n1, n2}
  Ads = {a1, a2}
  OwnerOf <- MCOwnerOf
  NoCat = NoCat
  NoName = NoName
  NoAd = NoAd
  NoUser = NoUser
  Kept = Kept
INVARIANTS TypeOK AdsHaveCategory NoLoops
PROPERTIES LeavesOnRequest Promise
SYMMETRY MCSymmetry

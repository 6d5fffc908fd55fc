SPECIFICATION Spec
CONSTANTS
  r1 = r1
  r2 = r2
  r3 = r3
  r4 = r4
  u1 = u1
  Ids = {r1, r2, r3, r4}
  NoId = NoId
  Users = {u1}
  NoUser = NoUser
  Lifetime = 2
  PlainDtoPasses = TRUE
  MaxTime = 5
INVARIANTS TypeOK EndedIsBlacklisted OnlineHasSession
PROPERTIES Promise
SYMMETRY MCSymmetry
CHECK_DEADLOCK FALSE

SPECIFICATION Spec
CONSTANTS
  r1 = r1
  r2 = r2
  r3 = r3
  r4 = r4
  u1 = u1
  u2 = u2
  Ids = {r1, r2, r3, r4}
  Users = {u1, u2}
  NoRow = NoRow
  Limit = 1
INVARIANTS TypeOK LetterWorks
PROPERTIES Promise
SYMMETRY MCSymmetry
CHECK_DEADLOCK FALSE

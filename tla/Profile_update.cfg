SPECIFICATION ProfileSpec
CONSTANTS
  r1 = r1
  r2 = r2
  r3 = r3
  root = root
  ann = ann
  name = name
  phone = phone
  status = status
  x = x
  y = y
  Requests = {r1, r2}
  Users = {root, ann}
  Admins = {root}
  Columns = {name, phone}
  OtherColumns = {status}
  Values = {x, y}
  None = None
PROPERTIES Promise GoneStaysGone
SYMMETRY MCSymmetry
CHECK_DEADLOCK FALSE

SPECIFICATION Spec
CONSTANTS
  r1 = r1
  r2 = r2
  u1 = u1
  u2 = u2
  c1 = c1
  c2 = c2
  m1 = m1
  t1 = t1
  t2 = t2
  Requests = {r1, r2}
  Users = {u1, u2}
  Chats = {c1, c2}
  Messages = {m1}
  Texts = {t1, t2}
  None = None
  KeysLoaded = TRUE
INVARIANTS TypeOK MessagesHaveTheirChat ChatsHaveTheirUsers ClientsAreTold
PROPERTIES GoneStaysGone AuthorsOnly KeepsPromise
SYMMETRY MCSymmetry
CHECK_DEADLOCK FALSE

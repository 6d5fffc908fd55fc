SPECIFICATION FairSpec
CONSTANTS
  l1 = l1
  m1 = m1
  m2 = m2
  Logins = {l1}
  Letters = {m1, m2}
  Nobody = Nobody
  Attempts = 3
  MaxStalls = 1
  MaxCrashes = 1
PROPERTIES Promise JobsEnd LoginIsMailed
CHECK_DEADLOCK FALSE

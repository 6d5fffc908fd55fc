SPECIFICATION Spec
CONSTANTS
  r1 = r1
  r2 = r2
  r3 = r3
  e1 = e1
  e2 = e2
  g1 = g1
  g2 = g2
  f1 = f1
  f2 = f2
  Ids = {r1, r2, r3}
  Emails = {e1}
  NoEmail = NoEmail
  Identities = {f1}
  ProviderOf <- MCProviderOf
  EmailOf <- MCEmailOf
  NoId = NoId
  TokensLimit = 2
  Expiration = 1
  PlainDtoPasses = FALSE
  MaxTime = 0
INVARIANTS ResendsWithinLimit
CHECK_DEADLOCK FALSE

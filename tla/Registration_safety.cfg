SPECIFICATION FairSpec
CONSTANTS
  r1 = r1
  r2 = r2
  r3 = r3
  e1 = e1
  e2 = e2
  g1 = g1
  g2 = g2
  f1 = f1
  f2 = f2
  Ids = {r1, r2, r3}
  Emails = {e1, e2}
  NoEmail = NoEmail
  Identities = {g1, g2, f1, f2}
  ProviderOf <- MCProviderOf
  EmailOf <- MCEmailOf
  NoId = NoId
  TokensLimit = 2
  Expiration = 1
  PlainDtoPasses = TRUE
  MaxTime = 1
INVARIANTS TypeOK PendingHasToken ActivatedOnce ActiveHasProvider
PROPERTIES Promise RequestsEnd
CHECK_DEADLOCK FALSE

SPECIFICATION FairSpec
CONSTANTS
  a1 = a1
  a2 = a2
  Null = Null
  null = null
  no = no
  Ads = {a1, a2}
  Words = {null}
  Lower <- MCLower
  LongWords = {null}
  NoAd = NoAd
  NullWord = null
  MaxStalls = 1
  MaxCrashes = 2
INVARIANTS VisibleRowHasJob OwnersAreMailed
PROPERTIES VerdictIsFinal JobsEnd

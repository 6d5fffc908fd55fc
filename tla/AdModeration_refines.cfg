SPECIFICATION Spec
CONSTANTS
  a1 = a1
  a2 = a2
  Null = Null
  null = null
  no = no
  Ads = {a1}
  Words = {null, Null, no}
  Lower <- MCLower
  LongWords = {null, Null}
  NoAd = NoAd
  NullWord = null
  MaxStalls = 1
  MaxCrashes = 1
INVARIANTS UndecidedHasFault
PROPERTIES Promise

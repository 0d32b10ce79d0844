CONSTANTS
  a = a
  b = b
  c = c
  Spellings <- MCSpellings
  Values <- MCValues
  MaxDefines = 3
SPECIFICATION FairSpec
CHECK_DEADLOCK FALSE
INVARIANTS
  TypeOK
  NothingReclaimedIsUsed
  InternedOnce
PROPERTIES
  ImplementsNames
  CallsReturn

CONSTANTS
  WordBits = 12
  ShortLength = 4
  LongLength = 5
  Texts <- ShortNestedAndMixed
SPECIFICATION MemorySpec
CHECK_DEADLOCK FALSE
INVARIANTS
  TypeOK
  ReadsGrammar
  NothingLost
  MemoryHoldsData
  DisplayReadsBack
PROPERTIES
  Ends

CONSTANTS
  WordBits = 12
  ShortLength = 2
  LongLength = 2
  Texts <- Unterminated
SPECIFICATION MemorySpec
CHECK_DEADLOCK FALSE
INVARIANTS
  ParseHasText

CONSTANTS
  c1 = c1
  c2 = c2
  c3 = c3
  c4 = c4
  handleHead = handleHead
  Cells <- MCCells
SPECIFICATION FairSpec
INVARIANTS
  TypeOK
  HandlesAreCurrent
  RingIsInOrder
PROPERTIES
  ScanEnds

CONSTANTS
  HeapSize <- MCHeapSize
  Sizes <- MCSizes
  PairUnits = 2
SPECIFICATION Spec
CHECK_DEADLOCK FALSE
INVARIANTS
  ObjectsApart
PROPERTIES
  ImplementsArena

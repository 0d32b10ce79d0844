CONSTANTS
  r1 = r1
  r2 = r2
  tbl = tbl
  fun1 = fun1
  HeapSize = 5
  RootSeq <- MCRootSeq
  InternTable = tbl
  Funs = {}
  Ids = {1, 2}
  Requests <- PairRequests
  NoFun = NoFun
  NoReq = NoReq
SPECIFICATION FairSpec
CHECK_DEADLOCK FALSE
INVARIANTS
  TypeOK
  ObjectsDisjoint
  NoDangling
  ExhaustedOnlyWhenFull
PROPERTIES
  ImplementsObjectGraph
  CollectionEnds

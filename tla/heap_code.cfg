CONSTANTS
  r1 = r1
  r2 = r2
  tbl = tbl
  fun1 = fun1
  HeapSize = 6
  RootSeq <- MCRootSeq
  InternTable = tbl
  Funs = {fun1}
  Ids = {1, 2, 3}
  Requests <- CodeRequests
  NoFun = NoFun
  NoReq = NoReq
SPECIFICATION Spec
CHECK_DEADLOCK FALSE
INVARIANTS
  ObjectsDisjoint
  NoDangling
PROPERTIES
  ImplementsObjectGraph

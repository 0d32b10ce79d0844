CONSTANTS
  Source <- MCSource
  Options <- MCOptions
  Executables <- CompiledExecutables
  StackLimit = 24
  HeapPairs = 5
  FixnumBits = 4
  Width = 4
  Fuel = 12
  kMapBytes = 2
SPECIFICATION FairSpec
INVARIANTS
  TypeOK
  FrameAsCompiled
  WalkIsExact
  TraceNamesPendingCalls
  NoStaleWord
  StackIsBounded
  AgreesWithMeaning
  TailCallsAreProper
PROPERTIES
  Ends

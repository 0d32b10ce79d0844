CONSTANTS
  Source <- UnbalancedSource
  Options <- MCOptions
  Executables <- CompiledExecutables
  StackLimit = 24
  HeapPairs = 5
  FixnumBits = 4
  Width = 4
  Fuel = 12
  kMapBytes = 2
SPECIFICATION Spec
INVARIANTS
  FrameAsCompiled

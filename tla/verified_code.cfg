CONSTANTS
  Source <- MCVerifiedSource
  Options <- MCOptions
  Executables <- CompiledExecutables
  StackLimit = 24
  HeapPairs = 4
  FixnumBits = 4
  Width = 4
  Fuel = 12
  kMapBytes = 2
SPECIFICATION Spec
INVARIANTS
  IInv

CONSTANTS
  global = global
  datum = datum
  none = none
  Length = 4
  Objects <- MCObjects
  GlobalVector = global
  NoObject = none
  FunctionBodies <- MCFunctionBodies
SPECIFICATION Spec
CHECK_DEADLOCK FALSE
INVARIANTS
  CodeIsCurrent

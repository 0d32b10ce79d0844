CONSTANTS
  global = global
  datum = datum
  none = none
  Length = 4
  Objects <- MCObjects
  GlobalVector = global
  NoObject = none
  FunctionBodies <- MCFunctionBodies
SPECIFICATION FairSpec
CHECK_DEADLOCK FALSE
PROPERTIES
  NoGCWhileCompiling

CONSTANTS
  ExitCodes = {0, 1, 255}
  MaxStops = 2
SPECIFICATION Spec
INVARIANTS
  TypeOK
  OneTool
  ChildGone
  SuccessIsExitZero
PROPERTIES
  KeepsChildPromise
  CallReturns
CHECK_DEADLOCK FALSE

CONSTANTS
  ExitCodes = {0, 1}
  MaxStops = 0
SPECIFICATION Spec
INVARIANT MksquashfsStatusChecked
CHECK_DEADLOCK FALSE

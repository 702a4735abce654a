CONSTANTS
  N = 2
  MaxTries = 2
  MaxCycles = 3
  MaxTimers = 3
SPECIFICATION Spec
PROPERTIES
  Reconnects
CHECK_DEADLOCK FALSE

SPECIFICATION BusSpec
CONSTANTS
  Extra = {}
  Restarts = TRUE
  MaxStarts = 1
  MaxErrors = 0
  MaxCalls = 0
  MaxWork = 1
INVARIANT
  ActiveHasProcess
CHECK_DEADLOCK FALSE

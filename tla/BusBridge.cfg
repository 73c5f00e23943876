SPECIFICATION BusSpec
CONSTANTS
  Extra = {"extra"}
  Restarts = TRUE
  MaxStarts = 2
  MaxErrors = 1
  MaxCalls = 2
  MaxWork = 2
INVARIANTS CallsInOrder
PROPERTIES NotRevived NameEndsTheWait SurfaceCatchesUp
CHECK_DEADLOCK FALSE

SPECIFICATION OneService
CONSTANTS
  a = a
  b = b
  c = c
  d = d
  e = e
  t = t
  g = g
  Units = {a, b, c, d, e}
  NoUnit = NoUnit
  Pids = {1, 2, 3}
  NoPid = NoPid
  Missing = {}
  Removable = {}
  Targets = {}
  Requires <- NoDeps
  Wants <- NoDeps
  Requisite <- NoDeps
  Conflicts <- NoDeps
  After <- NoDeps
  Before <- NoDeps
  OnFailure <- NoDeps
  Conditions <- Pass
  ServiceType <- OfEachType
  ExecCount <- StagesByType
  IgnoreFailure = {e}
  SpawnFails = {e}
  Restart <- RestartByType
  RemainAfterExit = {c}
  StartTimeouts = {a, b, d}
  StopTimeouts = {a, b, d}
  UseCgroup = TRUE
  StartLimit = 2
  Requests = {"start", "stop", "stop-irreversibly", "restart", "isolate", "reset-failed", "kill"}
  MaxRequests = 3
INVARIANTS TypeOK NoStuckUnit JobsFinish NoStalePid
PROPERTIES StopMeansStopped
CHECK_DEADLOCK FALSE
ACTION_CONSTRAINT Named

SPECIFICATION FairSpec
CONSTANTS
  a = a
  b = b
  c = c
  d = d
  e = e
  t = t
  g = g
  Units = {a, b}
  NoUnit = NoUnit
  Pids = {1, 2, 3}
  NoPid = NoPid
  Missing = {}
  Removable = {}
  Targets = {}
  Requires <- AB
  Wants <- NoDeps
  Requisite <- NoDeps
  Conflicts <- NoDeps
  After <- NoDeps
  Before <- NoDeps
  OnFailure <- NoDeps
  Conditions <- Pass
  ServiceType <- Simple
  ExecCount <- StartOnly
  IgnoreFailure = {}
  SpawnFails = {}
  Restart <- RestartNo
  RemainAfterExit = {}
  StartTimeouts = {}
  StopTimeouts = {a, b}
  UseCgroup = FALSE
  StartLimit = 2
  Requests = {"start", "shutdown"}
  MaxRequests = 3
INVARIANTS NothingLeftRunning
PROPERTIES JobsEnd ShutdownEnds NoStartInShutdown
CHECK_DEADLOCK FALSE

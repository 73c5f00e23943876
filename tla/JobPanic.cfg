SPECIFICATION Spec
CONSTANTS
  a = a
  b = b
  c = c
  d = d
  e = e
  t = t
  g = g
  Units = {a, b}
  NoUnit = NoUnit
  Pids = {1, 2}
  NoPid = NoPid
  Missing = {}
  Removable = {}
  Targets = {a}
  Requires <- BA
  Wants <- NoDeps
  Requisite <- NoDeps
  Conflicts <- NoDeps
  After <- NoDeps
  Before <- NoDeps
  OnFailure <- NoDeps
  Conditions <- Pass
  ServiceType <- Oneshot
  ExecCount <- StartStop
  IgnoreFailure = {}
  SpawnFails = {b}
  Restart <- RestartNo
  RemainAfterExit = {b}
  StartTimeouts = {}
  StopTimeouts = {}
  UseCgroup = FALSE
  StartLimit = 2
  Requests = {"start", "stop"}
  MaxRequests = 2
INVARIANTS JobLookups
CHECK_DEADLOCK FALSE

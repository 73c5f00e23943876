SPECIFICATION TwoSets
CONSTANTS
  a = a
  b = b
  c = c
  d = d
  e = e
  t = t
  g = g
  Units = {a, b, c, d, e, t, g}
  NoUnit = NoUnit
  Pids = {1, 2, 3}
  NoPid = NoPid
  Missing = {}
  Removable = {b}
  Targets = {t}
  Requires <- TwoSetsRequires
  Wants <- TwoSetsWants
  Requisite <- BC
  Conflicts <- CA
  After <- TwoSetsAfter
  Before <- CA
  OnFailure <- AC
  Conditions <- TwoSetsConditions
  ServiceType <- Notify
  ExecCount <- StartReload
  IgnoreFailure = {}
  SpawnFails = {a, b}
  Restart <- RestartNo
  RemainAfterExit = {}
  StartTimeouts = {}
  StopTimeouts = {}
  UseCgroup = FALSE
  StartLimit = 2
  Requests = {"start", "stop", "restart", "start-ignore-dependencies", "reload", "daemon-reload", "kill"}
  MaxRequests = 2
INVARIANTS JobIndex NoDanglingWait
PROPERTIES JobsLedger TargetOrderHeld ReadyIsOwn
CHECK_DEADLOCK FALSE
ACTION_CONSTRAINT OfOneSet

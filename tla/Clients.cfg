SPECIFICATION FairSpec
CONSTANTS
  a = a
  ghost = ghost
  c1 = c1
  c2 = c2
  Units = {a}
  Clients = {c1, c2}
  Menu <- ClientsMenu
  Impatient = {c1}
  MAX_CONCURRENT_CLIENTS = 1
  MAX_REQUEST = 3
  MAX_PENDING_RESPONSE = 3
  MaxPolls = 1
INVARIANTS ConnectionServed SuccessMeansDone
PROPERTIES CommandsEnd
CHECK_DEADLOCK FALSE

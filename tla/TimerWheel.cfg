SPECIFICATION FairSpec
CONSTANTS
  Services = {svc}
  Timers = {tmr}
  MaxPoll = 1
  MaxTime = 2
  MaxIds = 3
  None = None
INVARIANTS
  WheelConsistent
  NeverOverdue
  BatchDue
  NoServiceTimersInShutdown
PROPERTY DeadlinesServed

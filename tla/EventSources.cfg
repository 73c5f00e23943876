SPECIFICATION Spec
CONSTANTS
  BufferPieces = 2
  MaxLines = 2
  SegmentRecords = 2
  MaxSegments = 2
  MaxPieces = 5
  MaxSecs = 2
  Devs = {d1, d2}
  QueueMax = 2
  MaxHotplug = 4
  Sockets = {"s1", "s2"}
  Listen <- MCListen
  MaxBinds = 4
  MaxConns = 1
  Watch <- MCWatch
  MaxMtime = 3
  MaxMounts = 3
INVARIANTS OutputKept DevicesFollowed ListenersServed FiresOncePerChange MountedOnce
PROPERTIES ConnectionActivates ChangeIsSeen
CHECK_DEADLOCK FALSE

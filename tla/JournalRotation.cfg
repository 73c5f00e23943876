SPECIFICATION Spec
CONSTANTS
  BufferPieces = 6
  MaxLines = 2
  SegmentRecords = 1
  MaxSegments = 3
  MaxPieces = 6
  MaxSecs = 2
  Devs = {d1, d2}
  QueueMax = 2
  MaxHotplug = 4
  Sockets = {"s1", "s2"}
  Listen <- MCListen
  MaxBinds = 4
  MaxConns = 1
  Watch <- MCWatch
  MaxMtime = 3
  MaxMounts = 3
PROPERTIES
  OlderSegmentsShift
CHECK_DEADLOCK FALSE

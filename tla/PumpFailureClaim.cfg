CONSTANTS
  Segments <- MCAligned
  InitialSequence = 5
  Modulus = 64
  MaxPending = 2
  Capacity = 3
  MaxSegments = 6
  Views = {"search", "settings"}
  Adapters = {"a1"}
  MaxCalls = 2
  MaxLoads = 2
SPECIFICATION CaptureSpec
PROPERTY FailureSurfaces
CHECK_DEADLOCK FALSE

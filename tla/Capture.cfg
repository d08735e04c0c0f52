CONSTANTS
  Segments <- MCAligned
  InitialSequence = 5
  Modulus = 64
  MaxPending = 2
  Capacity = 3
  MaxSegments = 6
  Views = {"search", "settings"}
  Adapters = {"a1"}
  MaxCalls = 2
  MaxLoads = 2
SPECIFICATION MachineSpec
INVARIANTS TypesOK StreamIsSound NothingIsLost FieldsMatchWhatIsHeld
PROPERTIES FailureSurfacesWithRoom WindowKeepsUp
CHECK_DEADLOCK FALSE

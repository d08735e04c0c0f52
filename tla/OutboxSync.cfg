CONSTANTS
  Obs = {"o1", "o2"}
  RowKey = {"shape", "late"}
  ReqObs = {}
  ReqKey = {}
  NoObs = "none"
  Worker = {w1, w2}
  Answers = {"accepted", "rejected", "unreachable"}
  Expedited = {"late"}
  MaxAttempts = 1
  BatchSize = 2
  MaxId = 2
  MaxNow = 1
  Parsers <- MCParsers
  RowsOf <- MCRowsOf
  ShapeOf <- MCShapeOf
  TableOf <- MCTableOf
  CapturedAt <- MCCapturedAt
SPECIFICATION Spec
INVARIANTS TypeOK SentIsInCloud NothingLost RowHasSource
PROPERTIES PruneKeepsUndelivered ImplementsDelivery
SYMMETRY WorkerSymmetry
CHECK_DEADLOCK FALSE

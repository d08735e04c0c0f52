CONSTANTS
  Obs = {"o1", "o2"}
  RowKey = {"shape", "late"}
  ReqObs = {"r1"}
  ReqKey = {"req"}
  NoObs = "none"
  Worker = {w1, w2}
  Answers = {"accepted", "unreachable"}
  Expedited = {"late"}
  MaxAttempts = 2
  BatchSize = 1
  MaxId = 2
  MaxNow = 0
  Parsers <- MCParsers
  RowsOf <- MCRowsOf
  ShapeOf <- MCShapeOf
  TableOf <- MCTableOf
  CapturedAt <- MCCapturedAt
SPECIFICATION FairSpec
PROPERTY PendingIsDelivered
CHECK_DEADLOCK FALSE

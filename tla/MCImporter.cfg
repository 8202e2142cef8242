SPECIFICATION Spec
CONSTANTS
  MaxPendingTools = 3
  MaxSeenRequests = 3
  MaxPromptChain = 3
  MaxInterval = 9
  MaxReread = 100
  MaxRows = 3
  Kinds <- MCTalk
  Steps <- MCUnit
  Asks <- MCAsks
  VersionsOf <- MCNoVersion
  Voids <- MCReal
  CoarseTimes = FALSE
  MaxWire = 0
  MaxFailures = 1
  MaxRestarts = 1
  MaxMoves = 0
CHECK_DEADLOCK FALSE
INVARIANTS NoHole NothingTruncated
CONSTRAINTS OneTrouble RefusedRows

SPECIFICATION FairSpec
CONSTANTS
  MaxPendingTools = 3
  MaxSeenRequests = 3
  MaxPromptChain = 3
  MaxInterval = 9
  MaxReread = 100
  MaxRows = 2
  Kinds <- MCTalk
  Steps <- MCUnit
  Asks <- MCNoAsks
  VersionsOf <- MCNoVersion
  Voids <- MCReal
  CoarseTimes = TRUE
  MaxWire = 0
  MaxFailures = 1
  MaxRestarts = 1
  MaxMoves = 1
CHECK_DEADLOCK FALSE
PROPERTIES EverythingRecorded MarksDepart
CONSTRAINT OneTrouble

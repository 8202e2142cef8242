SPECIFICATION Growing
CONSTANTS
  MaxPendingTools = 3
  MaxSeenRequests = 2
  MaxPromptChain = 2
  MaxInterval = 2
  MaxReread = 100
  MaxRows = 4
  Kinds <- MCEveryKind
  Steps <- MCUnit
  Asks <- MCTools
  VersionsOf <- MCAlternating
  Voids <- MCAnyResponse
INVARIANT ResumesExactlyToo

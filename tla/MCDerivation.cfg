SPECIFICATION Growing
CONSTANTS
  MaxPendingTools = 10
  MaxSeenRequests = 2
  MaxPromptChain = 2
  MaxInterval = 2
  MaxReread = 100
  MaxRows = 5
  Kinds <- MCEveryKind
  Steps <- MCUnit
  Asks <- MCTools
  VersionsOf <- MCAlternating
  Voids <- MCAnyResponse
INVARIANTS MeasuresTruth ResumesAnywhere

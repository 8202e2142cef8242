SPECIFICATION FairSpec
CONSTANTS
  MaxRows = 24
  MaxAnnotations = 3
  DayHours = 6
  MinInstant <- Earliest64
  MaxInstant = 60
  MaxPoints = 4
  DefaultWindow = 4
  MinBucket = 2
  TargetBuckets = 3
  RollupBucket = 2
  MaxBody = 1
  Directories = {"data", "repo", "tmp"}
  Models = {"sonnet", "-m"}
  Hyphened = {"-m"}
  DataDir = "data"
  SCHEMA_VERSION = 1
  Scenes <- MCScenes
  Port = 7878
  AcceptLimit = 3
  TailLines = 2
  MaxLines = 3
  MaxBuild = 2
  Edited = {"/app.js"}
  IdleInterval = 3
  StaleFloor = 4
  MaxAge = 8
  WindowDays = 5
  Margin = 10
  CaseLimit = 90
  MinBudget = 15
  Costs = {15, 90}
  Step = 9
  MaxElapsed = 72
INVARIANTS
  CacheNeverStale
  ChartsAreWhole
  DaysTile
  BandIsTheNorm
  Oriented
  AskedIsRun
  ExplainsFailure
  OutlivesThePage
  SpendIsBounded
  CancelStopsSpending
  RoutesOnEqualTerms
PROPERTIES
  StatusTellsTheTruth
  ShutdownHonoured
CHECK_DEADLOCK FALSE

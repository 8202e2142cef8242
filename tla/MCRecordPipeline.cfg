SPECIFICATION FairSpec
CONSTANTS
  collector = collector
  Workers <- MCWorkers
  Background <- MCWorkers
  Emits <- MCEmits
  Capacity = 1
  MaxBatch = 2
  ReportEvery = 2
  MaxSends = 4
  MaxFaults = 1
CONSTRAINT Steady
INVARIANTS CleanStop PrefixDurable DropsExplained
PROPERTIES Implements Stops NothingIsStuck

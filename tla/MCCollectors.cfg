CONSTANTS
  p1 = p1
  p2 = p2
  Pids <- MCPids
  DiscoveryInterval = 3
  IdleInterval = 2
  MaxRestarts = 1
  MaxRemovals = 1
SPECIFICATION Spec
SYMMETRY Symmetry
INVARIANT LivingRates
INVARIANT SeenInTime
INVARIANT ProbesCompare

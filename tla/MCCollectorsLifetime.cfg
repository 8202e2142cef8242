CONSTANTS
  p1 = p1
  p2 = p2
  Pids <- MCPids
  DiscoveryInterval = 3
  IdleInterval = 2
  MaxRestarts = 0
  MaxRemovals = 0
SPECIFICATION Spec
INVARIANT NoLifetimeRate

SPECIFICATION FairSpec
CONSTANTS
    here = here
    other = other
    Machines = {here, other}
    Own = here
    Minute = 2
    ChunkSpan = 4
    Keep = 1
    Capacity = 2
    Start = 5
    MaxTime = 7
    MaxSamples = 1
    MaxDelay = 1
    MaxBack = 1
    MaxFaults = 1
    Left <- MCLeft
INVARIANTS Accounted WholeMinutes
PROPERTIES Summarised

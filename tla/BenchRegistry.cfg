\* A run and the one that takes its place, in a process whose clock moves between them.
SPECIFICATION FairSpec
CONSTANTS
    Runs = {r1, r2}
    MaxTime = 2
    MaxErrors = 1
    NoRun = NoRun
    NoCode = NoCode
    Never = Never
INVARIANTS OneAtATime FinishedTellsTheTruth NoneOutlives
PROPERTIES NothingHangs
CHECK_DEADLOCK FALSE

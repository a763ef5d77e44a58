CONSTANTS
    Actors = {x, y}
    MaxSpawns = 2
    MaxStarts = 1
    MaxRestarts = 1
    MaxFaults = 1
SPECIFICATION FairSpec
INVARIANTS TypeOK LiveIsTracked StoppedLeavesNone
PROPERTIES EndedIsForgotten
CHECK_DEADLOCK FALSE

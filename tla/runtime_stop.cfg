CONSTANTS
    Actors = {x}
    MaxSpawns = 1
    MaxStarts = 1
    MaxRestarts = 0
    MaxFaults = 0
SPECIFICATION FairSpec
PROPERTIES StopEnds
CHECK_DEADLOCK FALSE

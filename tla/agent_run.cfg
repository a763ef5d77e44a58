CONSTANTS
    Sessions = {s1, s2}
    Guarded = {g}
    Free = {f}
    MaxCalls = 2
    MaxRuns = 2
    MaxAsks = 1
SPECIFICATION FairSpec
INVARIANTS TypeOK EffectsArePermitted BusyIsAlive
PROPERTIES CancelledEnds
CHECK_DEADLOCK FALSE

CONSTANTS
    Sessions = {s1}
    Guarded = {g}
    Free = {f}
    MaxCalls = 1
    MaxRuns = 2
    MaxAsks = 1
SPECIFICATION Spec
INVARIANTS CancelReachesRun
CHECK_DEADLOCK FALSE

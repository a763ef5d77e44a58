CONSTANTS
    Procs = {p}
    Callers = {c, d}
    Ids = {s, t}
    Actors = {x}
    MaxRevisions = 2
    MaxFaults = 1
SYMMETRY Symmetry
SPECIFICATION Spec
INVARIANTS  JobsWereRecorded AcceptedStaysOnRecord AcceptedTicks 
CHECK_DEADLOCK FALSE

CONSTANTS
    Procs = {p1}
    a = a
    b = b
    outsider = outsider
    i1 = i1
    i2 = i2
    Unnamed = Unnamed
    Ids <- MCIds
    Voters <- MCVoters
    Requirements <- AllRequirements
    MaxEntries = 2
    MaxFaults = 0
SPECIFICATION Spec
INVARIANTS SequenceIsPosition
PROPERTIES ImplementsLog
CHECK_DEADLOCK FALSE

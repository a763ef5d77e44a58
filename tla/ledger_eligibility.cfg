CONSTANTS
    Procs = {p1}
    a = a
    b = b
    outsider = outsider
    i1 = i1
    i2 = i2
    Unnamed = Unnamed
    Ids <- OneId
    Voters <- AllVoters
    Requirements <- MCRequirements
    MaxEntries = 2
    MaxFaults = 0
SPECIFICATION Spec
INVARIANTS EligibleVotersDecide
CHECK_DEADLOCK FALSE

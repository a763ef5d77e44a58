CONSTANTS
    Procs = {p1, p2}
    a = a
    b = b
    outsider = outsider
    i1 = i1
    i2 = i2
    Unnamed = Unnamed
    Ids <- OneId
    Voters <- MCVoters
    Requirements <- MCRequirements
    MaxEntries = 2
    MaxFaults = 1
SPECIFICATION Spec
INVARIANTS TypeOK QuorumBacked AutoFinalizeDecides
 
CHECK_DEADLOCK FALSE

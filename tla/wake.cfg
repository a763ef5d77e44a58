CONSTANTS
    d = d
    e = e
    r = r
    Daemons = {d}
    Embedded = {e}
    Barred = {}
    Rows = {r}
    AgentOf <- MCAgentOf
    Unparsable = {}
    MaxLogged = 1
    MaxSignals = 3
    MaxPeriods = 1
    MaxSpawns = 1
    MaxProposals = 1
    MaxFaults = 1
SPECIFICATION FairSpec
INVARIANTS TypeOK  BroadcastsWereCommitted  PeriodsAccounted
PROPERTIES  WakeIsServed InterruptEnds
CHECK_DEADLOCK FALSE

\* Two prompts and a summary, alone or at once, with a cancellation or an end
\* of the process.
SPECIFICATION Spec
CONSTANTS
    MaxRuns = 2
    MaxSummaries = 1
    MaxMessages = 7
    MaxShared = 4
    MaxCharges = 2
    MaxFaults = 1
CHECK_DEADLOCK FALSE
INVARIANT RequestsArePaired
INVARIANT NothingIsForgotten
INVARIANT CostIsComplete

CONSTANTS
    v = v
    w = w
    n = n
    Lead = lead
    Screen = screen
    Workers = {v, w}
    Names = {n}
    NameOf <- MCNameOf
    Rows <- MCRows
    Kinds <- MCKinds
    Tasks = {t}
    Columns = {todo, doing}
    Handoffs = {h}
    MaxCalls = 3
SPECIFICATION FairSpec
INVARIANTS TypeOK AcknowledgedIsKept InboxInOrder  
 
CHECK_DEADLOCK FALSE

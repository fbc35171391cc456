CONSTANTS
    Name = {me, sara, reza}
    Known = {me, sara}
    Self = me
    NoName = none
    Lookup = {l1, l2}
    PollLimit = 1
    MaxTyped = 2
    MaxFaults = 2
SPECIFICATION FairSpec
INVARIANTS
    RecipientIsNamed
    
    CardIsPolled
    NoDoubleSend
PROPERTIES
    ResultIsLatest
    PollsEnd
CHECK_DEADLOCK FALSE

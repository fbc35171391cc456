CONSTANTS
    User = {u1, u2}
    Session = {s1, s2}
    Amount = {0, 1, 2}
    Opening = {0, 2}
    Threshold = 1
    MaxNow = 4
    Nobody = nobody
SPECIFICATION FairSpec
INVARIANTS
    BalanceIsLedgerTip
    LedgerIsChained
    RefusalIsTrue
    NoDeadlock
PROPERTIES
    ImplementsBook
    CallEnds
CHECK_DEADLOCK FALSE

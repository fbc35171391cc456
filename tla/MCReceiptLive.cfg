CONSTANTS
    Txn = {1, 2}
    Slot = {w1}
    Run = {r1}
    Attempts = 2
    MaxStalls = 1
    BatchSize = 1
    MaxFaults = 2
    NoSlot = noslot
SPECIFICATION FairSpec
PROPERTIES
    ReceiptsResolve
    RequestsSettle
CHECK_DEADLOCK FALSE

CONSTANTS
    Txn = {1}
    Slot = {w1}
    Run = {r1}
    Attempts = 1
    MaxStalls = 1
    BatchSize = 2
    MaxFaults = 2
    NoSlot = noslot
SPECIFICATION Spec
PROPERTIES
    RecoveryRevives
CHECK_DEADLOCK FALSE

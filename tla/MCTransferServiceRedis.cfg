CONSTANTS
    Txn = {1, 2}
    Slot = {w1}
    Attempts = 1
    MaxStalls = 1
    MaxFaults = 2
    NoSlot = noslot
SPECIFICATION ServiceSpec
PROPERTIES
    TransferAnswered
CHECK_DEADLOCK FALSE

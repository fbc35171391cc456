CONSTANTS
    Txn = {1, 2}
    Slot = {w1, w2}
    Run = {r1}
    Attempts = 2
    MaxStalls = 1
    BatchSize = 2
    MaxFaults = 3
    NoSlot = noslot
SPECIFICATION Spec
SYMMETRY SlotSymmetry
INVARIANTS
    GeneratedHasObject
    PendingIsCovered
PROPERTIES
    ImplementsLifecycle
CHECK_DEADLOCK FALSE

CONSTANTS
    Form = {f1, f2}
    MaxSteps = 5
    MaxMisses = 1
SPECIFICATION FairNavSpec
INVARIANTS
    PageSuitsSession
PROPERTIES
    NavigationSettles
CHECK_DEADLOCK FALSE

CONSTANTS
    Pages = 2
    Load = {l1, l2, l3}
    MaxActivity = 3
    MaxFaults = 1
SPECIFICATION FairSpec
INVARIANTS
    RefreshesAreBounded
    PendingIsRefreshed
    ClickedPageIsShown
PROPERTIES
    LinkAppears
CHECK_DEADLOCK FALSE

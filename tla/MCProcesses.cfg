CONSTANTS
    Conn = {c1, c2}
    Signal = {sigterm, sigint}
    PoolMax = 1
    MaxRequests = 3
    MaxOutages = 1
    Job = {j1, j2, j3}
    Slots = 2
    Run = {r1, r2}
SPECIFICATION MCSpec
INVARIANTS
    ResourcesOutliveRequests
PROPERTIES
    ApiStopsGracefully
    WorkerStopsGracefully
    ApiShutdownEnds
    WorkerShutdownEnds
CHECK_DEADLOCK FALSE

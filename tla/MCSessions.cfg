CONSTANTS
    User = {ali, sara}
    Lifetime = 2
    MaxTimer = 2
    MaxLogin = 2
    MaxNow = 3
    MaxEvents = 1
    MaxFaults = 1
    Request = {1, 2}
    Nobody = nobody
SPECIFICATION FairSpec
INVARIANTS
    ExpiredTokenHasNoSocket
    ToastsAreOwn
    LiveIsTrue
PROPERTIES
    
    ExpiredIsSignedOut
CHECK_DEADLOCK FALSE

SPECIFICATION FairSpec
CONSTANTS
    r = r
    w = w
    k = k
    Calls <- TheCalls
    Kind <- TheKinds
    Timed <- TheTimed
    NoCall = NoCall
    MaxTries = 2
    MaxFiles = 1
    Exclusive = TRUE
INVARIANTS
    ResultIsReal
    WaiterHasWaker
    TimeoutStillComes
PROPERTY
    CloseReleases
CHECK_DEADLOCK FALSE

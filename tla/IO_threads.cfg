SPECIFICATION FairSpec
CONSTANTS
    Workers = {w1}
    Caller = main
    UseCaller = TRUE
    Fibers = {f1, f2}
    NoFiber = NoFiber
    AnyThread = AnyThread
    PinsUsed = {AnyThread}
    SwitchInTime = FALSE
INVARIANT
    StopRunsTasks
PROPERTIES
    StopReturns
    TaskRuns

SPECIFICATION FairSpec
CONSTANTS
    Workers = {w1, w2}
    Clients = {main}
    Caller = main
    UseCaller = TRUE
    Fibers = {f1, f2, f3}
    NoFiber = NoFiber
    AnyThread = AnyThread
    Pinned = TRUE
    StartFirst = FALSE
INVARIANTS
    CountersExact
    NoFault
    OnePlace
PROPERTIES
    ImplementsTaskPool
    StoppingStable
    StopReturns
    TaskRuns

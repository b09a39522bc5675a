SPECIFICATION Spec
CONSTANTS
    Workers = {w1, w2}
    Clients = {main}
    Caller = main
    UseCaller = FALSE
    Fibers = {f1, f2}
    NoFiber = NoFiber
    AnyThread = AnyThread
    Pinned = FALSE
    StartFirst = FALSE
SYMMETRY Symmetry
INVARIANTS
    NoFault
CHECK_DEADLOCK FALSE

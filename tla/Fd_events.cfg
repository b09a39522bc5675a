SPECIFICATION FdSpec
CONSTANTS
    Fds = {fd1, fd2}
    Pollers = {w1, w2}
    Uses <- Mixed
    Exclusive = TRUE
SYMMETRY Symmetry
INVARIANTS
    PendingExact
    WaiterWatched
    ReadyIsSeen
CHECK_DEADLOCK FALSE

SPECIFICATION Spec
CONSTANTS
    Timers = {t1, t2}
    Threads = {w1, w2}
    Periods = {0, 1}
    Boot = 10
    MaxClock = 11
    Hour = 10
    Word = 1024
    IntHalf = 16
    MAX_TIMEOUT = 3
    Never = Never
    MaxOwed = 1
SYMMETRY Symmetry
INVARIANTS
    CancelIsExact
    Watched
PROPERTY
    NoEarlyFire
CHECK_DEADLOCK FALSE

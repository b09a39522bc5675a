CONSTANTS
    Loader = Loader
    Coder = Coder
    LogValues <- mc_LogValues
    DbValues <- mc_DbValues
    Loggers = {"root", "system"}
    Daemon = TRUE
    MaxEdits = 2
    MaxCalls = 3
    Nil = Nil
SPECIFICATION FairSpec
INVARIANT
    EditsApplied
PROPERTIES
    OldIsCurrent
    LoadReturns

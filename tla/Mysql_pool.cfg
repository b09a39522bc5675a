CONSTANTS
    Threads = {t1, t2}
    Fibers = {f1, f2, f3}
    Names = {n1}
    Passwords = {p1}
    maxconn = 1
    MaxInits = 2
    MaxCalls = 1
    Nil = Nil
SPECIFICATION Spec
INVARIANTS
    CountersExact
    LentOnce
PROPERTY
    WaiterServed

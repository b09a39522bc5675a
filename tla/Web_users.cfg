CONSTANTS
    Threads = {t1}
    Fibers = {f1, f2}
    n1 = n1
    q1 = q1
    p1 = p1
    p2 = p2
    Empty = Empty
    Names <- mc_Names
    Passwords <- mc_Passwords
    Requests <- mc_Requests
    Quoting = {q1}
    Spliced <- mc_Spliced
    Files = {"judge", "register", "log", "logError", "registerError", "welcome", "jpg"}
    Keepalive = FALSE
    MaxRequests = 4
    maxconn = 2
    MaxInits = 1
    Nil = Nil
SPECIFICATION FairSpec
INVARIANTS
    AnswersAreEarned
    LoginExpires
PROPERTY
    EveryRequestAnswered

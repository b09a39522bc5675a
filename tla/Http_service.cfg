CONSTANTS
    Conns <- mc_Conns
    Socks <- mc_Socks
    m_isKeepalive = TRUE
    OneVector = TRUE
    MaxStarts = 1
    MaxStops = 1
    PoolCallers = {"p", "q"}
    DirectCallers = {"d"}
    Target = {1}
    m_maxRequest = 2
    m_maxAliveTime = 1
    Now = 2
    MaxRequests = 2
    Closes <- mc_Closes
SPECIFICATION FairSpec
INVARIANTS
    ResponseIsMine
    PoolExact
    BindAllOrNothing
PROPERTY
    NothingLeft

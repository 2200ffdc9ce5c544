\* Expected violation: the client's wait for the echo.
SPECIFICATION FairSpec
CONSTANTS
    c1 = c1
    c2 = c2
    p1 = p1
    p2 = p2
    Clients <- OneClient
    Id <- OneId
    Configs <- OnePort
    HsTimeout = 2
    InboxCap = 1
CHECK_DEADLOCK FALSE
PROPERTY
    HandshakeEnds

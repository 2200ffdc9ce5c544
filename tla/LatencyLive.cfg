\* Two clients that share a data port, under fair scheduling.
SPECIFICATION FairSpec
CONSTANTS
    c1 = c1
    c2 = c2
    p1 = p1
    p2 = p2
    Clients <- TwoClients
    Id <- DistinctIds
    Configs <- OnePort
    HsTimeout = 2
    InboxCap = 1
CHECK_DEADLOCK FALSE
PROPERTIES
    
    Served

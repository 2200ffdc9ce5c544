\* Two clients with every pair of configurations.
SPECIFICATION Spec
CONSTANTS
    c1 = c1
    c2 = c2
    p1 = p1
    p2 = p2
    Clients <- TwoClients
    Id <- DistinctIds
    Configs <- AllConfigs
    HsTimeout = 2
    InboxCap = 1
CHECK_DEADLOCK FALSE
INVARIANTS
    TypeOK
    PeerKnown
    PeerIsClient
    ReadyTogether

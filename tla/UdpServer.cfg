\* Two clients and two task sockets, under fair scheduling.
SPECIFICATION FairSpec
CONSTANTS
    Clients = {a, b}
    Socks = {s1, s2}
    QueueCap = 2
    MaxAsk = 3
    MaxClose = 1
CHECK_DEADLOCK FALSE
INVARIANT
    StrayOnlyInWindow
PROPERTIES
    KeepsEcho
    SocketReleased

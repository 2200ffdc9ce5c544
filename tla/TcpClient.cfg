\* Four pings, or pings without end, over a connection that holds two frames
\* and a channel that holds one result.
SPECIFICATION FairSpec
CONSTANTS
    Counts = {{}, {4}}
    ToFile = TRUE
    ChanCap = 1
    BufCap = 2
    NsPerMs = 2
    MaxClock = 1
    MaxSend = 4
    Window = 2
INVARIANT
    InOrder
PROPERTIES
    KeepsPromise
    SentIsLogged

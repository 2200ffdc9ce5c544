\* Three pings with a header counter that wraps at two, among the packets of
\* other processes; every class of --len.
SPECIFICATION FairSpec
CONSTANTS
    Counts = {{3}}
    ToFile = TRUE
    ChanCap = 1
    BufCap = 1
    NsPerMs = 2
    MaxClock = 1
    MaxSend = 3
    Lens = {7, 23, 39, 40}
    SeqMod = 2
    RxCap = 1
    MaxDup = 1
INVARIANTS
    TypeOK
    CounterIsUnique
PROPERTIES
    KeepsPromise
    Terminates

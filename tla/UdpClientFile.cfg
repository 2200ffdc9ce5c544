\* Expected violation: what the file holds when the client exits.
SPECIFICATION Spec
CONSTANTS
    Counts = {{2}}
    ToFile = TRUE
    ChanCap = 1
    BufCap = 1
    NsPerMs = 2
    MaxClock = 1
    MaxSend = 3
    RxCap = 1
    MaxDup = 0
INVARIANT
    FileComplete

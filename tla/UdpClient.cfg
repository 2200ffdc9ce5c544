\* Three pings over a network that loses, duplicates, reorders and refuses.
SPECIFICATION FairSpec
CONSTANTS
    Counts = {{3}}
    ToFile = TRUE
    ChanCap = 1
    BufCap = 1
    NsPerMs = 2
    MaxClock = 2
    MaxSend = 3
    RxCap = 1
    MaxDup = 1
INVARIANTS
    PiatDefined
    RttDefined
    PiatSamples
    CompleteOnCleanExit
    FileLosesOnlyTail
PROPERTIES
    KeepsPromise
    Terminates

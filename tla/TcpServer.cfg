\* Two connections, under fair scheduling.
SPECIFICATION FairSpec
CONSTANTS
    Conns = {a, b}
    Window = 2
    Milli = 2
    MaxFrames = 3
    MaxClock = 3
CHECK_DEADLOCK FALSE
INVARIANTS
    EchoInOrder
    StatsOfGaps
PROPERTIES
    KeepsEcho
    Served

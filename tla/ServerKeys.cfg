\* Three servers in one directory, killed and started again at any step.
SPECIFICATION KeysSpec
CONSTANTS
    Servers = {a, b, c}
    MaxPairs = 3
    Absent = Absent
    Torn = Torn
CHECK_DEADLOCK FALSE
INVARIANTS
    ServedPairMatches
    PairIsKept
    FailsOnlyByTornKey

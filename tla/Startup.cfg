\* Three processes with every choice of command lines.
SPECIFICATION Spec
CONSTANTS
    Procs = {p1, p2, p3}
    Configs <- MCConfigs
    Files <- MCFiles
CHECK_DEADLOCK FALSE
INVARIANTS
    PortExclusive
    TaskSocketFits
    FileNeedsConnection

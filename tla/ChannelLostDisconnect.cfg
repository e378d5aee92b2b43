CONSTANTS
    MaxChunks = 1
    Faults = {"targetEnds"}
SPECIFICATION ChanFairSpec
PROPERTY TargetCloseReachesApp
CHECK_DEADLOCK FALSE

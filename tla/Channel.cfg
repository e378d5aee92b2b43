CONSTANTS
    MaxChunks = 2
    Faults = {"timeout", "wsLost", "cancel", "appGone", "targetEnds", "refused"}
SPECIFICATION ChanFairSpec
INVARIANTS DisconnectIsLast
PROPERTIES ImplementsStream AppCloseReachesTarget ServerDropsTargets ClosedIsForgotten
CHECK_DEADLOCK FALSE

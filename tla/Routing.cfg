CONSTANTS
    Clients = {c1, c2}
    Connectors = {k1, k2}
    Channels = {ch1, ch2}
    Reverse = r
    HighWater = 1
    MaxData <- DataOnFirst
    MaxLosses = 1
    None = None
    k1 = k1
    k2 = k2
    ch1 = ch1
    ch2 = ch2
    Owner <- OneEach
SPECIFICATION RoutingFairSpec
INVARIANTS RoundRobin
PROPERTIES ImplementsRoute ConnectIsAnswered
CHECK_DEADLOCK FALSE

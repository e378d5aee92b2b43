CONSTANTS
    RevTokens = {r1}
    ConnTokens = {k1}
    FwdTokens = {}
    Instances = {}
    Conns = {c1, c2}
    Tasks = {s1, s2}
    Ports = {1}
    Pool = {1}
    Kinds = {"plain", "manage"}
    WaitClient = FALSE
    SocketErrors = {"bind", "accept"}
    None = None
SPECIFICATION RegFairSpec
PROPERTIES ClosedIsForgotten WaitingIsAnswered RemovedServerEnds

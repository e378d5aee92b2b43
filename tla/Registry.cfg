CONSTANTS
    RevTokens = {r1, r2}
    ConnTokens = {k1}
    FwdTokens = {f1}
    Instances = {i1}
    Conns = {c1, c2}
    Tasks = {s1, s2}
    Ports = {1, 2}
    Pool = {1}
    Kinds = {"plain", "manage"}
    WaitClient = TRUE
    SocketErrors = {}
    None = None
SYMMETRY Symmetric
SPECIFICATION RegSpec
INVARIANTS PortsAreOwned ServersAreOwned GoneIsForgotten UnlistedIsClosing
    ConnectorTargetExists InternalIsOwned
PROPERTIES RemovalClosesOwnClients ServerRunsBeforeConfirm

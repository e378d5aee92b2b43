CONSTANTS
    RevTokens = {r1}
    ConnTokens = {}
    FwdTokens = {}
    Instances = {}
    Conns = {c1}
    Tasks = {s1, s2}
    Ports = {1}
    Pool = {1}
    Kinds = {"plain"}
    WaitClient = TRUE
    SocketErrors = {"bind", "accept"}
    None = None
    Socks = {o1, o2, o3}
    Timers = {t1, t2}
    Grace = 1
SPECIFICATION ServerSpec
INVARIANT EndedServersHoldNothing

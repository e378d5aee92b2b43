CONSTANTS
    RevTokens = {r1, r2}
    ConnTokens = {}
    FwdTokens = {}
    Instances = {}
    Conns = {c1}
    Tasks = {s1, s2}
    Ports = {1}
    Pool = {1}
    Kinds = {"plain"}
    WaitClient = FALSE
    SocketErrors = {"bind"}
    None = None
    Socks = {o1, o2}
    Timers = {t1, t2}
    Grace = 1
SPECIFICATION ServerFairSpec
INVARIANTS EndedServersHoldNothing AcceptorsListen
PROPERTY RemovedPortCloses

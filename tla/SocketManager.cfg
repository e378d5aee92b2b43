CONSTANTS
    Ports = {p1, p2}
    Users = {u1, u2, u3}
    Socks = {s1, s2, s3}
    Timers = {t1, t2, t3}
    Grace = 1
    None = None
SPECIFICATION SMFairSpec
INVARIANTS RefsMatchHolders NoUseAfterClose NoSocketLeak
PROPERTIES ImplementsLease IdleEventuallyClosed

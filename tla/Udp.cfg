CONSTANTS
    Sockets = {p1, p2}
    Targets = {t1}
    MaxUp = 2
    MaxDown = 3
    None = None
SPECIFICATION UdpFairSpec
INVARIANTS DatagramsKeepOrder
PROPERTIES EndsTogether AssociationForgotten
CHECK_DEADLOCK FALSE

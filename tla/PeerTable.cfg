SPECIFICATION Spec
CONSTANTS
    Peers = {p1, p2}
    Keys = {k1}
    Addrs = {a1, a2}
    Versions = {"current"}
    NInterfaces = 4
    AcceptBeacons = TRUE
    PingAfter = 1
    UnresponsiveAfter = 1
    ForgetAfter = 2
    PingSkip = 2
SYMMETRY Symmetry
INVARIANTS PathLeadsToPeer DownIsUnresponsive PathfinderIsCurrent
CHECK_DEADLOCK FALSE

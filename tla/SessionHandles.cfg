SPECIFICATION Spec
CONSTANTS
    Half = 1
    Keep = 1
    Keys = {k1, k2, k3}
    NoKey = NoKey
    None = None
    Peers = {A, B}
    LowPeer = A
    FirstHandles = {4, 5}
    NonceLimit = 7
    SetupReset = 1
    ResetAfter = 1
    MaxNonce = 8
    MaxPackets = 4
    MaxSessions = 2
    MaxRefused = 0
CONSTRAINT Bounded
SYMMETRY KeySymmetry
INVARIANTS HandlesAgree TrafficFindsItsSession
CHECK_DEADLOCK FALSE

SPECIFICATION Spec
CONSTANTS
    Half = 1
    Keep = 1
    Keys = {k1, k2, k3, k4}
    NoKey = NoKey
    None = None
    Peers = {A, B}
    LowPeer = A
    Users <- ServerUsers
    RequireAuth = {B}
    Credentials <- AllCredentials
    MaxRefused = 1
    NonceLimit = 7
    SetupReset = 1
    ResetAfter = 1
    MaxNonce = 9
    P1 = P1
    P2 = P2
    P3 = P3
    L1 = L1
    L2 = L2
    Elsewhere = Elsewhere
    Server = B
    MaxPackets = 6
    MaxOthers = 3
CONSTRAINT Bounded
SYMMETRY KeySymmetry
INVARIANTS TypeOK StateAgrees SecretAgrees RolesDiffer NonceIsFresh NoReplay AcceptedFromPeer
    AuthEnforced
PROPERTY IsSecureChannel
CHECK_DEADLOCK FALSE

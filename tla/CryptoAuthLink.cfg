SPECIFICATION Spec
CONSTANTS
    Half = 1
    Keep = 1
    Keys = {1, 2, 3, 4, 5, 6, 7, 8}
    NoKey = 0
    None = None
    Peers = {A, B}
    LowPeer = A
    NonceLimit = 12
    PingAfter = 1
    SetupReset = 3
    ResetAfter = 8
    UnresponsiveAfter = 5
    ForgetAfter = 10
    PingSkip = 2
    EarlySkip = 3
    Capacity = 2
    MaxFaults = 1
PROPERTY AlwaysLinksAgain

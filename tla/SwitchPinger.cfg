SPECIFICATION Spec
CONSTANTS
    Pings = {i1, i2, i3}
    L1 = L1
    L2 = L2
    Labels = {L1, L2}
    VersionOf <- Versions
    MaxConcurrent = 1
INVARIANTS AnsweredOnce CountMatches VersionOfPinged
PROPERTY EveryPingEnds
CHECK_DEADLOCK FALSE

SPECIFICATION Spec
CONSTANTS
    Pings = {i1, i2}
    L1 = L1
    L2 = L2
    Labels = {L1, L2}
    VersionOf <- Versions
    MaxConcurrent = 1
INVARIANT CancelIsFinal
CHECK_DEADLOCK FALSE

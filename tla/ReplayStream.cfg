SPECIFICATION StreamSpec
CONSTANTS
    Half = 2
    Keep = 3
    MaxNonce = 11
    MaxRefused = 2
INVARIANTS AcceptedOnce LateNonceAccepted LostIsExact
CHECK_DEADLOCK FALSE

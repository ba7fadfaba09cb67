SPECIFICATION Spec
CONSTANTS
    Addresses = {a1, a2}
    Labels = {l1, l2}
    NoLabel = NoLabel
    FirstHandle = 4
    MaxBuffered = 1
    BufferTimeout = 1
    SetupReset = 1
    ResetAfter = 2
    IdleAfter = 1
    SearchAfter = 2
    SessionTimeout = 1
    MaxHandles = 2
CONSTRAINT Bounded
SYMMETRY Symmetry
INVARIANTS HandleFindsSession PathfinderToldOfSessions SentWithPath NothingLingers
CHECK_DEADLOCK FALSE

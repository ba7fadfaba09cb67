SPECIFICATION Spec
CONSTANTS
    Width = 64
    Ends <- RowEnds
    Peer <- RowPeer
    Numbers = {0, 32, 256}
    Foreign <- ZeroForEver
    MaxHops = 6
    MaxChanges = 1
INVARIANTS AnswerReturns ErrorNamesPath FitsUnlessLong
PROPERTY ExtensionsSplice
CHECK_DEADLOCK FALSE

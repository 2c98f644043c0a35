CONSTANTS
    MinDelay = 2
    MaxJitter = 1
    MaxImports = 2
    MaxReads = 1
    Nothing = Nothing
    MaxMoves = 4
SPECIFICATION Spec
INVARIANTS TypeOK RejectedIsNotUsed RecoveryIsOffered
PROPERTIES RequestsAreSpaced
CHECK_DEADLOCK FALSE

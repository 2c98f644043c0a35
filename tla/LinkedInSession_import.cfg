CONSTANTS
    MinDelay = 1
    MaxJitter = 0
    MaxImports = 2
    MaxReads = 1
    Nothing = Nothing
    MaxMoves = 4
SPECIFICATION Spec
INVARIANTS FailedImportKeepsSession
CHECK_DEADLOCK FALSE

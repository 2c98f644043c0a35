CONSTANTS
    Workflows = {w1, w2}
    None = None
    Candidates = {0, 3}
    BatchSize = 2
    Reporting = {w1}
    MaxProgress = 3
    MaxRestarts = 1
    Faults = TRUE
SPECIFICATION FairSpec
INVARIANTS
    TypeOK
    SlotIsExclusive
    StopsWithinBatch
    WithinTotal
    SuccessCoversCandidates
PROPERTIES
    EndIsLast
    SlotSpec
    RequestEnds
CHECK_DEADLOCK FALSE

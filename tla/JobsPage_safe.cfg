CONSTANTS
    Workflows = {w1, w2}
    None = None
    Candidates = {0}
    BatchSize = 1
    Reporting = {}
    MaxProgress = 0
    MaxRestarts = 0
    Faults = TRUE
    Mine = {w1}
    MaxPolls = 2
    MaxReloads = 1
    MaxLosses = 1
    Connected = TRUE
SPECIFICATION PageSpec
INVARIANTS
    PageTypeOK
    NothingIsLeftOver
CHECK_DEADLOCK FALSE

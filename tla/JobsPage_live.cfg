CONSTANTS
    Workflows = {w1, w2}
    None = None
    Candidates = {0}
    BatchSize = 1
    Reporting = {w1}
    MaxProgress = 0
    MaxRestarts = 0
    Faults = FALSE
    Mine = {w1}
    MaxPolls = 2
    MaxReloads = 1
    MaxLosses = 1
    Connected = FALSE
SPECIFICATION PageFairSpec
PROPERTY TrackingEnds
CHECK_DEADLOCK FALSE

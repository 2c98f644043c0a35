CONSTANTS
    Runs = {r1}
    Jobs = {j1, j2}
    Tasks = {t1, t2}
    None = None
    MaxCandidateCount = 0
    FallbackPerItemCap = 0
    AiDecisions = {"Accepted"}
    MaxRestarts = 0
    Faults = FALSE
SPECIFICATION FairSpec
PROPERTY ExecutionEnds

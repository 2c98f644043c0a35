CONSTANTS
    Runs = {r1}
    Jobs = {j1, j2}
    Tasks = {t1, t2}
    None = None
    MaxCandidateCount = 0
    FallbackPerItemCap = 1
    AiDecisions = {"Accepted"}
    MaxRestarts = 1
    Faults = TRUE
SPECIFICATION Spec
SYMMETRY Symmetry
INVARIANTS
    TypeOK
    DecisionsRecorded
    CheckpointInSnapshot
    SoleExecutorIsExact
PROPERTY DecisionsFinal

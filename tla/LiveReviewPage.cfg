CONSTANTS
    Runs = {r1, r2}
    None = None
    Earlier = r1
    Candidates = 1
    MaxPolls = 1
    MaxPushes = 1
    MaxMoves = 2
SPECIFICATION Spec
INVARIANTS TypeOK TimerFollowsRun ShownIsTrue
CHECK_DEADLOCK FALSE

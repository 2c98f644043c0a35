CONSTANTS
    Runs = {r1, r2}
    None = None
    Earlier = r1
    Candidates = 2
    MaxPolls = 2
    MaxPushes = 2
    MaxMoves = 1
SPECIFICATION FairSpec
PROPERTIES EndIsReached LoadingEnds
CHECK_DEADLOCK FALSE

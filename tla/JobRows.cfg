CONSTANTS
    Jobs = {j1, j2, j3}
    PageSize = 1
    Present = 2
    Requests = {q1, q2}
    Nothing = Nothing
    MaxMoves = 3
SPECIFICATION Spec
SYMMETRY Symmetry
INVARIANTS TypeOK ButtonsAreTrue FiguresAreTrue RowsAreTheFirst
PROPERTY ScoreKept
CHECK_DEADLOCK FALSE

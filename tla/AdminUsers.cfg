CONSTANTS
    Tabs = {t1, t2}
    Logins = {l1, l2, l3}
    Names = {n1, n2}
    Days = {1}
    PageSize = 1
    Present = 2
    MaxUsers = 3
    MaxMoves = 4
SPECIFICATION Spec
SYMMETRY Symmetry
INVARIANTS TypeOK ShownIsStored PageInRange DeletedOnce
CHECK_DEADLOCK FALSE

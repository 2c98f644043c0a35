CONSTANTS
    Tabs = {t1, t2}
    Texts = {x1, x2}
    Short = short
    None = None
    MaxMoves = 7
    MaxLookups = 2
SPECIFICATION Spec
SYMMETRY Symmetry
INVARIANTS TypeOK PlaceIsNamed CachedKeyIsStored
PROPERTIES NoLostUpdate SuggestionsAdvance
CHECK_DEADLOCK FALSE

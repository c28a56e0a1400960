CONSTANTS
    ORDER = 4
    v1 = v1
    v2 = v2
    Keys = {1, 2, 3, 4, 5, 6, 7, 8, 9, 10, 11, 12}
    Values = {v1, v2}
    Scenes <- Shrinking
    MaxSizes = {1}

SPECIFICATION MCSpec

INVARIANTS
    RowsLinked
    HalfFull
    AssertsHold

PROPERTIES
    RefinesMap
    CallsReturn

\* the history is over after the scene's calls
CHECK_DEADLOCK FALSE

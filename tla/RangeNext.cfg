CONSTANTS
    ORDER = 4
    v1 = v1
    v2 = v2
    Keys = {0, 1, 2, 3, 4, 5, 6, 7, 8, 9, 10, 11, 12, 13}
    Values = {v1, v2}
    Scenes <- Ranges
    MaxSizes = {1, 3, 4, 20}

SPECIFICATION MCSpec

INVARIANTS
    NextMarked

\* the history is over after the scene's calls
CHECK_DEADLOCK FALSE

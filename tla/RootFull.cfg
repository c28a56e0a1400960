CONSTANTS
    ORDER = 4
    v1 = v1
    v2 = v2
    Keys = {1, 2, 3, 4, 5, 6, 7, 8, 9, 10, 11, 12, 13, 14, 15, 16, 17, 18, 19, 20}
    Values = {v1, v2}
    Scenes <- Overfull
    MaxSizes = {1}

SPECIFICATION MCSpec

INVARIANT WritesInside

\* the history is over after the scene's calls
CHECK_DEADLOCK FALSE

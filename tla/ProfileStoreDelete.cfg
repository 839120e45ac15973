SPECIFICATION ProfileSpec
CONSTANTS
    p1 = p1
    p2 = p2
    Ids <- MCIds
    Legacy = p1
    NoId = NoId
    MaxMishaps = 0
    MaxRuns = 1
CHECK_DEADLOCK FALSE
INVARIANTS
    DeletedTakesPassword

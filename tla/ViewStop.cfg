SPECIFICATION ViewSpec
CONSTANTS
    run1 = run1
    run2 = run2
    Runs <- TheRuns
    Scripts <- TheScripts
    MaxMoves = 1
    MaxAhead = 1
    Nowhere = nowhere
INVARIANT StopEndsTheRun
CHECK_DEADLOCK FALSE

SPECIFICATION ChatSpec
CONSTANTS
    Capacity = 2
    MaxFrames = 4
    MayDisconnect = TRUE
    DbFails = TRUE
    MayAge = TRUE
    MaxCrashes = 1
    MaxBoots = 1
    run1 = run1
    run2 = run2
    Runs <- TheRuns
    Scripts <- TheScripts
    MaxMoves = 2
    MaxAhead = 1
    Nowhere = nowhere
INVARIANTS
    StreamInv
    RecordedOutcome
    ViewInv
PROPERTIES
    RunIsClosed
    ClientSeesTheEnd
    OldOrphanIsReaped
CHECK_DEADLOCK FALSE

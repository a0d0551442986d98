SPECIFICATION Spec
CONSTANTS
    Capacity = 2
    MaxFrames = 4
    MayDisconnect = TRUE
    DbFails = FALSE
    MayAge = FALSE
    MaxCrashes = 0
    MaxBoots = 0
INVARIANT CutIsNotSuccess
CHECK_DEADLOCK FALSE

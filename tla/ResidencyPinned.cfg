SPECIFICATION Spec
CONSTANTS
    primary = primary
    longctx = longctx
    vision = vision
    visionSmall = visionSmall
    fast = fast
    utility = utility
    t1 = t1
    t2 = t2
    Tasks <- One
    Models <- FourModels
    Weights <- MCWeights
    Backend <- MCBackend
    Size <- MCSize
    Pinned <- MCPinned
    SmallSize = 40
    MaxResident = 140
    AllowSwap = TRUE
    MaxSyncs = 0
    MayIdle = FALSE
    MayFail = FALSE
    NoTask = nobody
INVARIANT PinnedStaysLoaded
CHECK_DEADLOCK FALSE

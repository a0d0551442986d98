SPECIFICATION FairSpec
CONSTANTS
    primary = primary
    longctx = longctx
    vision = vision
    visionSmall = visionSmall
    fast = fast
    utility = utility
    t1 = t1
    t2 = t2
    Tasks <- Two
    Models <- OnePerWeights
    Weights <- MCWeights
    Backend <- MCBackend
    Size <- MCSize
    Pinned <- MCPinned
    SmallSize = 40
    MaxResident = 140
    AllowSwap = TRUE
    MaxSyncs = 1
    MayIdle = TRUE
    MayFail = TRUE
    NoTask = nobody
INVARIANTS
    ResidencyInv
    OneActivation
PROPERTY
    AcquireReturns
    SyncCorrects
CHECK_DEADLOCK FALSE

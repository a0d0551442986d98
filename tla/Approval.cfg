SPECIFICATION FairSpec
CONSTANTS
    alice = alice
    bob = bob
    carol = carol
    c1 = c1
    c2 = c2
    Users <- MCUsers3
    Requester = alice
    Calls <- TwoCalls
    Run = run
    Sweeper = sweeper
    NoUser = nobody
    SweepScheduled = TRUE
    MayDisconnect = TRUE
    MayCrash = TRUE
INVARIANT
    GateInv
    NamesWhoSignedOff
    OneDocumentUnlessOverwritten
    RefusalIsFinal
PROPERTY
    ImplementsSignOff
    EveryCallReturns
    ApprovedIsCarriedOut
ACTION_CONSTRAINT InOrder
CHECK_DEADLOCK FALSE

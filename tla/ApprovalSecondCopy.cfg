SPECIFICATION Spec
CONSTANTS
    alice = alice
    bob = bob
    carol = carol
    c1 = c1
    c2 = c2
    Users <- MCUsers3
    Requester = alice
    Calls <- TwoCalls
    Run = run
    Sweeper = sweeper
    NoUser = nobody
    SweepScheduled = FALSE
    MayDisconnect = FALSE
    MayCrash = FALSE
INVARIANT OneDocument
CHECK_DEADLOCK FALSE

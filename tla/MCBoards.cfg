SPECIFICATION BoardsSpec
CONSTANTS
    c1 = c1
    sa = sa
    Node = {1, 2}
    EPS = 4
    InitPhase <- Pair
    Jitter <- Noisy
    Addressed = {1}
    MaxEvents = 1
    MayExpire = TRUE
    Client = {b1}
    Chan = {c1}
    NoChan = none
    Session = {sa, sb}
    Boots <- SameIds
    MaxSubs = 2
    MaxRemote = 1
    MaxPer = 2
    MaxCrash = 1
    MaxNet = 8
INVARIANTS OnSessionClock NoSwap
PROPERTIES NoBackwardJump WinnerElected StandingSubscription EntryFed

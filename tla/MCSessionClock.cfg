SPECIFICATION RegimeSpec
CONSTANTS
    Node = {1, 2, 3}
    EPS = 4
    InitPhase <- Three
    Jitter <- Exact
    Addressed = {1, 2, 3}
    MaxEvents = 0
    MayExpire = FALSE
INVARIANTS OnSessionClock

SPECIFICATION GhostSpec
CONSTANTS
    W = 4
    Intercept = {0}
    MaxCall = 3
    MaxHost = 10
INVARIANTS HostReadCoherent
CHECK_DEADLOCK FALSE

SPECIFICATION TicksSpec
CONSTANTS
    Self = self
    Remote = {r1, r2, r3}
    r1 = r1
    NoId = none
    MaxPeers = 2
    TTL = 2
    Grace = 1
    Bcast = 3
    MinGap = 2
    Heard <- Datagrams
    MaxNow = 4
    Byte = {"CLOCK", "START", "STOP", "OTHER_RT", "DATA"}
    Mode = {"OFF", "OBSERVE", "FOLLOWER"}
    MaxUs = 3
    MaxBytes = 3
    ByteCycles = 3
    PulseCycles = 5
    Depth = 2
    MaxPulses = 3
    MaxData = 4
    Ppqn = {0}
    MaxEdges = 2
    MaxModes = 2
    Value <- SmallValues
    MaxLen = 4
INVARIANTS UniqueIds RtLatency DataComplete InBounds MedianCorrect
PROPERTIES NoEarlyEviction ChangeAnnounced StartSent TransportFollowed TempoCatchesUp PlayCatchesUp Returns

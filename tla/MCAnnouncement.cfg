SPECIFICATION TlvSpec
CONSTANTS
    Names <- FourPorts
    PeerNameLen = 8
    NameMax = 32
    MaxDiscovery = 512
    MaxAudio = 1200
    BodyAt = 20
    AddrSpace = 4096
INVARIANTS MessageFits
CHECK_DEADLOCK FALSE

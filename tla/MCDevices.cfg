SPECIFICATION DevicesSpec
CONSTANTS
    c1 = c1
    c2 = c2
    k3 = k3
    Conn = {k1, k2, k3}
    HttpRequest <- Requests
    BufMax = 4
    Heap = 2
    SndBuf = 40
    RespHeader = 4
    Arg = {"", "120", "box", "0 1 id"}
    ValidTempo = {"120"}
    RespSize = 10
    StatusHead = 2
    StatusMargin = 5
    StatusEntry = 2
    ChannelId = {"0 1 id"}
    ChannelsHead = 1
    ChannelsMargin = 5
    ChannelEntry = 2
    TableSize = 3
    PageLen = 20
    Short = 1
    TxSlots = 2
    RxSlots = 2
    Big = {2}
    MaxFrame = 4
    Datagram <- Datagrams
    MaxLen = 4
    MagicLen = 2
    Pcbs = 4
    Ram = 3
    Pool = 2
    ArpEntries = 2
    MaxSends = 3
    Names <- NamesOfTwo
    PeerNameLen = 3
    NameMax = 3
    MaxDiscovery = 512
    MaxAudio = 1200
    BodyAt = 20
    AddrSpace = 1024
    Client = {b1, b2}
    Chan = {c1, c2}
    NoChan = none
    Session = {sa}
    Boots <- TwoBoots
    MaxSubs = 1
    MaxRemote = 1
    MaxPer = 2
    MaxCrash = 0
    MaxNet = 3
    W = 4
    Intercept <- Intercepts
    MaxCall = 3
    MaxHost = 10
    Reset = 5
    PulseWidth = 2
    CntWrap = 8
    MaxLoads = 3
    Sample = {0, 1, 2}
    Zero = 0
    LEN = 4
    Wrap = 8
    MaxFrames = 3
    Channels = 2
    Word <- Words
    PerFrame = {1, 3}
    FrameWrap = 4
    Period = {1, 2, 4}
    Width = 2
INVARIANTS AnsweredExactly ServedAsWritten BodyClosed StateOwned SlotsKept NothingLeaks DecodedAsSent NoDoubleDelivery PulseSpacing HandledOnce
PROPERTIES RefinesFifo OneIntercept
CHECK_DEADLOCK FALSE

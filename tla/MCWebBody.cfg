SPECIFICATION HttpSpec
CONSTANTS
    Conn = {k1}
    HttpRequest <- GetPage
    BufMax = 4096
    Heap = 1
    SndBuf = 1072
    RespHeader = 150
    Arg = {""}
    ValidTempo = {}
    ChannelId = {}
    RespSize = 4096
    StatusHead = 330
    ChannelsHead = 13
    StatusMargin = 256
    ChannelsMargin = 192
    StatusEntry = 123
    ChannelEntry = 92
    TableSize = 1
    PageLen = 4216
    Short = 11
INVARIANTS BodyDelivered
CHECK_DEADLOCK FALSE

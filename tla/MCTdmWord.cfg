SPECIFICATION TdmSpec
CONSTANTS
    Width = 2
    Channels = 1
    Word <- Words
    PerFrame = {1}
    FrameWrap = 4
INVARIANTS WordGoesOut
CHECK_DEADLOCK FALSE

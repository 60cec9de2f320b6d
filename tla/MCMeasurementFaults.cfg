SPECIFICATION PromptSpec
CONSTANTS
    sa = sa
    sb = sb
    Interval = 1
    MaxRtt = 1
    Session = {sa, sb}
    Offset <- TwoOffsets
    MaxPings = 2
    Threshold = 1
    MaxSamples = 3
    MaxStarts = 2
    MaxDup = 1
    MaxNow = 5
INVARIANTS RttSamplesAccurate
PROPERTIES RefinesService Terminates
CHECK_DEADLOCK FALSE

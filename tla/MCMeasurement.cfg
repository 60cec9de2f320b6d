SPECIFICATION Spec
CONSTANTS
    sa = sa
    sb = sb
    Interval = 2
    MaxRtt = 2
    Session = {sa, sb}
    Offset <- TwoOffsets
    MaxPings = 3
    Threshold = 4
    MaxSamples = 6
    MaxStarts = 2
    MaxDup = 0
    MaxNow = 6
INVARIANTS PrevSamplesAccurate InterceptAccurate
CHECK_DEADLOCK FALSE

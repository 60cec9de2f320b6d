SPECIFICATION PulseFairSpec
CONSTANTS
    Period = {1, 2, 4}
    Reset = 5
    PulseWidth = 2
    CntWrap = 8
    MaxLoads = 3
PROPERTIES BeatGoesOn

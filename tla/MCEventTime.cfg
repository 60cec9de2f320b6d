SPECIFICATION RxSpec
CONSTANTS
    Byte = {"CLOCK", "START", "STOP", "OTHER_RT", "DATA"}
    Mode = {"OFF", "OBSERVE", "FOLLOWER"}
    MaxUs = 3
    MaxBytes = 3
INVARIANTS EventTimed
CHECK_DEADLOCK FALSE

CONSTANTS
    Pins = {"p1"}
    PinOrder <- OnePin
    Blocks = {b1, b2}
    NoBlock = NoBlock
    Frames <- Pulses
    Configs <- LowOrHigh
    Classes = {0}
    MaxBusy = 1
    MaxInterval = 2
    MaxLate = 0
SPECIFICATION BoardSpec
INVARIANT FreedOnce
CHECK_DEADLOCK FALSE

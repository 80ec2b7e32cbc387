CONSTANTS
    Shutters = {s1, s2}
    Checks = TRUE
    Commands <- AnyOpenness
    Full = 4
    UnitTicks = 1
    ExtraTicks = 1
    StartupTicks = 1
    MinDiff = 2
    MaxLatency = 1
    Pins = {"p1", "p2", "p3"}
    PinOrder <- ThreePins
    Blocks = {b1, b2}
    NoBlock = NoBlock
    Frames <- SomeFrames
    Configs <- SomeConfigs
    Classes = {0, 1}
    MaxBusy = 1
    MaxInterval = 2
    MaxLate = 1
SPECIFICATION ActuatorsSpec
INVARIANTS
    ActuatorsTypeOK
    OneStepAhead DrivenOnlySettled PowerSettledInHandler PositionDrift
    PulsesOwned PulseNotLate RetriggerSucceeds
PROPERTIES
    NoReversal MoveInTime
    PulseNotShort PulseStays FreedTwiceAfterEnd
CHECK_DEADLOCK FALSE

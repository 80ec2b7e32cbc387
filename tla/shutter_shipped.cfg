CONSTANTS
    Shutters = {s1, s2}
    Checks = FALSE
    Commands = {0, 2}
    Full = 1
    UnitTicks = 1
    ExtraTicks = 1
    StartupTicks = 1
    MinDiff = 1
    MaxLatency = 0
SPECIFICATION FairSpec
INVARIANTS PowerTracked
PROPERTY EveryMoveEnds

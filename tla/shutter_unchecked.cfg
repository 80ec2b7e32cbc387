CONSTANTS
    Shutters = {s1}
    Checks = FALSE
    Commands <- AnyOpenness
    Full = 4
    UnitTicks = 1
    ExtraTicks = 1
    StartupTicks = 1
    MinDiff = 2
    MaxLatency = 1
SPECIFICATION FairSpec
INVARIANTS PowerSettledInHandler

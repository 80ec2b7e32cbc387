CONSTANTS
    Heaters = {h1}
    Commands <- AnyCommands
    ActiveTicks1 = 1
    ActiveTicks2 = 2
    PeriodTicks = 5
    MaxLatency = 1
SPECIFICATION Spec
INVARIANT NeverStalls

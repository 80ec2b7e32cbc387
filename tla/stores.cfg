CONSTANTS
    Reasons = {"UNKNOWN", "POWER_ON", "WATCHDOG"}
    Torn = Torn
    Slots = 3
    Modulus = 3
    MaxUptime = 1
    MaxResets = 3
    Count = 2
    Attributes = {"a", "b"}
    Values = {"x", "y"}
    Defaults <- TwoDefaults
    Damaged = Damaged
    MaxCuts = 2
    GpioPins = {"g1"}
    ExtPins = {"e1", "e2"}
    Buffered = TRUE
    MaxFailures = 1
    Offloaded = TRUE
    Capacity = 3
    CounterModulus = 16
    MaxEdges = 15
    FreqExpected = 2
    FreqTolerance = 1
SPECIFICATION StoresSpec
INVARIANTS
    StoresTypeOK
    StoreHasEnd BootRecorded 
    SettingsSound PinsSound ShellWakes PowerSound
PROPERTY ImplementsLog

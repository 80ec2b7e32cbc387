CONSTANTS
    GpioPins = {"g1"}
    ExtPins = {"e1", "e2"}
    Buffered = TRUE
    MaxFailures = 0
SPECIFICATION PinsSpec
INVARIANT InputsReleased

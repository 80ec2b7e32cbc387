CONSTANTS
    Heaters = {h1}
    Commands <- ValidCommands
    ActiveTicks1 = 1
    ActiveTicks2 = 2
    PeriodTicks = 5
    MaxLatency = 1
    Size = 3
    OtherSid = 7
    RxBuffers = 2
    MaxFrames = 3
    MaxTriggers = 1
    MaxRxErrors = 1
    Search <- ThreeSensors
    Registered <- TwoPlaces
    NoSensor = "none"
    MaxErrors = 1
    ErrorModulus = 4
    Periodicity = 2
    MaxFaults = 2
    MaxStops = 1
SPECIFICATION DevicesSpec
INVARIANTS
    DevicesTypeOK
    NeverStalls
    MeasurementsSound
PROPERTIES
    DutyCycle KeepsPulsing ImplementsPilotWire
    ImplementsMailbox FramesSettle SensorsServed

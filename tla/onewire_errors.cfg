CONSTANTS
    Search <- TwoSensors
    Registered <- TwoSensors
    NoSensor = "none"
    MaxErrors = 4
    ErrorModulus = 16
    Periodicity = 5
    MaxFaults = 1
    MaxStops = 0
SPECIFICATION OwSpec
INVARIANT ErrorsBounded

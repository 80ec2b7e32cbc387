CONSTANTS
    SysCommands <- SomeCommands
    Unreadable = Unreadable
    RxBuffers = 2
    TxSize = 1
    Delayed = {d1}
    MaxDelay = 1
    MaxErrors = 2
    MaxInterval = 2
    ErrorSleep = 1
    ResetDelay = 3
    WdtTimeout = 5
    MaxLatency = 1
    MaxInputs = 2
SPECIFICATION NodeSpec
INVARIANTS NodeTypeOK SleepsDrained WatchdogPatient NothingStranded
PROPERTIES AckBeforeReset ResetComes ResetInTime

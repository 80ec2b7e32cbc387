CONSTANTS
    Size = 2
    OtherSid = 7
    RxBuffers = 2
    MaxFrames = 2
    MaxTriggers = 0
    MaxRxErrors = 0
SPECIFICATION MultiSpec
PROPERTY LeavesDrained

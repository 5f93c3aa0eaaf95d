SPECIFICATION ClosingSpec
CONSTANTS
    MaxOpens = 1
    MaxFrames = 3
    MaxAcks = 0
    MaxFaults = 0
    MaxConfigs = 0
    MaxEvents = 4
    QueueSize = 2
    MaxPriority = 2
PROPERTIES
    CloseReturns
CHECK_DEADLOCK FALSE

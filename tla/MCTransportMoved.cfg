SPECIFICATION Spec
CONSTANTS
    MaxOpens = 1
    MaxFrames = 1
    MaxAcks = 0
    MaxFaults = 1
    MaxConfigs = 0
    MaxEvents = 2
    QueueSize = 2
    MaxPriority = 1
PROPERTIES
    PortRecoversAnywhere
CHECK_DEADLOCK FALSE

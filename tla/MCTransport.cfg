SPECIFICATION Spec
CONSTANTS
    MaxOpens = 1
    MaxFrames = 3
    MaxAcks = 1
    MaxFaults = 1
    MaxConfigs = 1
    MaxEvents = 5
    QueueSize = 2
    MaxPriority = 1
INVARIANTS
    PriorityOvertakesTelemetry
    GateHasOwner
PROPERTIES
    ImplementsChannel
    PortRecovers
CHECK_DEADLOCK FALSE

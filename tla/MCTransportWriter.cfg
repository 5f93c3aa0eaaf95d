SPECIFICATION Spec
CONSTANTS
    MaxOpens = 2
    MaxFrames = 1
    MaxAcks = 0
    MaxFaults = 0
    MaxConfigs = 0
    MaxEvents = 3
    QueueSize = 2
    MaxPriority = 2
INVARIANTS
    WriterRunsWhileOpen
CHECK_DEADLOCK FALSE

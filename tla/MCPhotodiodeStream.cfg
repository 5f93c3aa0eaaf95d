SPECIFICATION Spec
CONSTANTS
    MaxSamples = 5
    MaxSessions = 2
    BatchSize = 2
    QueueSize = 2
    SeqSize = 4
INVARIANTS
    NoSampleDropped
    SentAsRecorded
PROPERTIES
    EachSampleOnce
    SamplesAreSent

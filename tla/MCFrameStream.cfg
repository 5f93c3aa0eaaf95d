SPECIFICATION FrameSpec
CONSTANTS
    client = client
    radio = radio
    Sources = {client, radio}
    Frames <- SomeFrames
    Unknown = {radio}
    Sync = 9
    Header = 2
    Trailer = 1
    Noise = {0, 2, 9}
    Modulus = 2
    MaxDamage = 1
INVARIANTS OnlyWhatWasSent DropsAreReported
PROPERTIES LostOnlyToRefusal QuietStreamArrives
CHECK_DEADLOCK FALSE

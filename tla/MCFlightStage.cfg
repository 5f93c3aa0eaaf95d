SPECIFICATION Spec
CONSTANTS
    Alts <- MCAlts
    Settings <- MCSettings
    Gaps = {1}
    Horizon = 4
    Sensors = {"mavlink", "gps", "rw_connected"}
    Require = {"mavlink", "gps"}
    Debounce = 1
    RwTimeout = 1
    Lockout = 3
    BurstWindow = 1
    Band = 0
INVARIANTS
    FlagsMatchStage
    CutdownBelowApogee
PROPERTIES
    ImplementsSequence
    PointingOneShot
    LockoutDelaysVerdictOnly

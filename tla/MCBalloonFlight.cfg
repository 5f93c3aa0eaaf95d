SPECIFICATION FlightSpec
CONSTANTS
    Alts <- MCAlts
    Settings <- MCSettings
    Gaps = {1}
    Horizon = 6
    Sensors = {"mavlink", "gps", "rw_connected"}
    Require = {"mavlink", "gps"}
    Debounce = 2
    RwTimeout = 2
    Lockout = 4
    BurstWindow = 2
    Band = 0
    Ground = 1
    MinBurst = 5
    MaxHeight = 6
    MaxReboots = 1
PROPERTIES
    FloaterIsCutDown
    FlightEndsInRecovery

SPECIFICATION Spec
CONSTANTS
    Default <- MCDefault
    Limits <- MCLimits
    Requests <- MCRequests
    MaxCommands = 2
    MaxLostWrites = 1
    MaxLostReads = 1
INVARIANTS
    WatchdogGuards
    PublishedIsModem
    OneSwitchAfterArming
PROPERTIES
    SilenceRestoresDefaults

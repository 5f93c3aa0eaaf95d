SPECIFICATION Spec
CONSTANTS
    Default <- MCDefault
    Limits <- MCLimits
    Requests <- MCRequests
    MaxCommands = 2
    MaxLostWrites = 1
    MaxLostReads = 0
PROPERTIES
    RollsBack

SPECIFICATION Spec
CONSTANTS
    Targets = {0, 1}
    Configured = {1, 9}
    NoTarget = 9
    MaxCode = 2
    MaxStep = 1
    Brightness = 2
    Retries = 3
    MaxFaults = 3
    MaxCommands = 2
INVARIANT OutputsAreCommanded
PROPERTIES CurrentlessSwitching NoCurrentJump StopDarkens

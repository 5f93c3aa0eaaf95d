SPECIFICATION Spec
CONSTANTS
    Top = 2
    Rest = 1
    Spinup = 1
    SpinupFor = 1
    SettleFor = 2
    SaturatedFor = 1
    DesaturateFor = 1
    GiveUp = 3
    Window = 2
    Rates = {"low", "middle", "high"}
    Quiet = {"low", "middle"}
    Unruly = {"middle", "high"}
    Horizon = 4
    MaxLosses = 2
INVARIANTS NoSpeedLeftBehind OneLateCycle
PROPERTIES PointsAfterQuiet SaturationEnds
CHECK_DEADLOCK FALSE

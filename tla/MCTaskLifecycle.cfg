SPECIFICATION Spec
CONSTANTS
    Order <- MCOrder
    Critical = {"flight_stage"}
    StageTask = "flight_stage"
    MotorOrder <- MCMotors
    BackoffMax = 2
    MaxHung = 1
INVARIANTS
    SessionsAreClosed
    NoFalseAlarm
PROPERTIES
    ShutdownCompletes
CHECK_DEADLOCK FALSE

SPECIFICATION Spec
CONSTANTS
    sergeant = sergeant
    soldier = soldier
    backup = backup
    Readouts <- BothReadouts
    BackupCs = {backup}
    MaxFaults = 2
INVARIANT AdcsStayEnabled
CHECK_DEADLOCK FALSE

SPECIFICATION Spec
CONSTANTS
    sergeant = sergeant
    soldier = soldier
    backup = backup
    Readouts <- BothReadouts
    BackupCs = {backup}
    MaxFaults = 2
INVARIANTS LinesAreReleased SafeAtRest SamplesAreOfTheDiode
CHECK_DEADLOCK FALSE

SPECIFICATION CommandSpec
CONSTANTS
    MaxSent = 2
    MaxCopies = 2
    SeqMod = 3
    AutoAdvance = FALSE
INVARIANTS
    RejectedHasNoEffect

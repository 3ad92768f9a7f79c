\* An indication handler sends a command and waits for it on the receive thread.
CONSTANTS
    Blocks <- MCBlocks
    QMax = 2
    MaxBlocks = 3
    AllocFails = FALSE
    IndSends = TRUE
SPECIFICATION Spec
CHECK_DEADLOCK FALSE
INVARIANTS NotCrashed

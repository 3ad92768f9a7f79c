\* Windows that cross the wrap of the sequence numbers; reord_init_sta may fail.
CONSTANTS
    Modulus = 24
    WSize = 4
    Pool = 4
    MaxFrame = 31
    Starts <- MCStarts
    AllocFails = TRUE
SPECIFICATION FairSpec
CHECK_DEADLOCK FALSE
INVARIANTS BufferInv HeldHasTimer
PROPERTIES ImplementsUnwrapped HeldIsReleased

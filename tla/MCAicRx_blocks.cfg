\* Interleavings of the handler and the thread; memory and the queue may run out.
CONSTANTS
    Blocks <- MCBlocks
    QMax = 3
    MaxBlocks = 8
    AllocFails = TRUE
    IndSends = TRUE
SPECIFICATION FairSpec
CHECK_DEADLOCK FALSE
INVARIANTS CountInv NoLostWakeup
PROPERTIES AppAnswered

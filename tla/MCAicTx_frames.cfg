\* Two senders, two priorities, commands, refusals and the stop of the bus.
CONSTANTS
    Senders = {s1, s2}
    NumPrio = 2
    QMax = 2
    Thresh = 1
    AggrMax = 2
    FwMax = 3
    MaxFrames = 3
    MaxCmds = 2
    FcMsgFails = TRUE
    FullMsg = FALSE
    WithStop = TRUE
SPECIFICATION FairSpec
CHECK_DEADLOCK FALSE
INVARIANTS CountInv NoStranding InOrder
PROPERTIES FwNotOverrun Drained

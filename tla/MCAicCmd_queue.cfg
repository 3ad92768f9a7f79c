\* Every kind of confirmed message, timeouts, losses, removal: the safety properties.
CONSTANTS
    Callers = {c1, c2}
    Kinds = {"cfm", "plain", "traffic"}
    NSlots = 5
    MaxQueued = 2
    BusFaults = TRUE
    FwLoss = TRUE
    WithRemove = TRUE
SPECIFICATION Spec
SYMMETRY CallerSymmetry
CONSTRAINTS TriggerBound RemoveBound
CHECK_DEADLOCK FALSE
INVARIANTS SlotInv MessagesNotOverwritten CfmMatches CfmBufferLive
PROPERTIES ImplementsLine

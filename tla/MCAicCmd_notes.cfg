\* Messages without confirmation share the command buffer with the queue.
CONSTANTS
    Callers = {c1, c2}
    Kinds = {"plain", "note"}
    NSlots = 5
    MaxQueued = 2
    BusFaults = FALSE
    FwLoss = FALSE
    WithRemove = FALSE
SPECIFICATION Spec
SYMMETRY CallerSymmetry
CONSTRAINT TriggerBound
CHECK_DEADLOCK FALSE
INVARIANTS MessagesNotOverwritten

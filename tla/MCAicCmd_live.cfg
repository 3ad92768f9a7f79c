\* Progress: commands deferred behind others or alone are pushed, waits end.
CONSTANTS
    Callers = {c1, c2}
    Kinds = {"plain", "traffic"}
    NSlots = 5
    MaxQueued = 2
    BusFaults = TRUE
    FwLoss = TRUE
    WithRemove = FALSE
SPECIFICATION FairSpec
CONSTRAINT TrafficByOne
CHECK_DEADLOCK FALSE
PROPERTIES DeferredPushed WaiterReturns

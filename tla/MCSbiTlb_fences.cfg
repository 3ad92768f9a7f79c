\* Fences of all kinds, merged, filling FIFOs of one entry, to others and to oneself.
CONSTANTS
    Harts = {0, 1, 2}
    FifoSize = 1
    Space = 5
    Limit = 2
    Asids = {1, 2}
    Requests <- MCRequests
    Targets <- MCTargets
    MaxReqs = 3
SPECIFICATION FairSpec
CONSTRAINT ThirdHartBound
CHECK_DEADLOCK FALSE
INVARIANTS SyncInv FenceComplete NoLostIpi
PROPERTIES RequestReturns

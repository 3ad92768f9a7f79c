\* Engines that fail, signals, two openers, one suspend anywhere.
SPECIFICATION FairSpec
CONSTANTS
    Jobs <- AllJobs
    MaxOpen = 2
    MaxClk = 2
    MaxSleeps = 1
    Faulty = TRUE
    MaxSignals = 1
INVARIANTS BusInv NoFalseSuccess PmuComplete HealthySucceeds
PROPERTIES RunEnds

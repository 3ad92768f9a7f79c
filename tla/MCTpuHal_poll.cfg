SPECIFICATION Spec
CONSTANTS
    Jobs <- LongJobs
    MaxOpen = 1
    MaxClk = 1
    MaxSleeps = 1
    Faulty = FALSE
    MaxSignals = 0
PROPERTIES
    PollSeesInterrupt

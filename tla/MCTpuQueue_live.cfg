SPECIFICATION FairSpec
CONSTANTS
    t1 = t1
    t2 = t2
    Threads <- TwoProcesses
    Leaders <- TwoProcesses
    SubmitPaths <- BufferPath
    SeqNos = {1}
    MaxNodes = 2
    TASK_LIST_MAX = 0
    DONE_LIST_MAX = 1
    CopyFaults = FALSE
    BadBuffers = FALSE
PROPERTIES
    JobFinishes
    WaitReturns
    SubmitReturns
    RemoveReturns

SPECIFICATION Spec
CONSTANTS
    t1 = t1
    t2 = t2
    Threads <- TwoProcesses
    Leaders <- OneLeader
    SubmitPaths <- AllPaths
    SeqNos = {0, 1}
    MaxNodes = 3
    TASK_LIST_MAX = 0
    DONE_LIST_MAX = 2
    CopyFaults = TRUE
    BadBuffers = TRUE
CHECK_DEADLOCK FALSE
CONSTRAINT ThirdNodePlain
INVARIANTS MemoryInv TaskListBounded NodeOwnership ClockBalance HardwareExclusive FifoOrder DeliveredResult
PROPERTIES ResultNotLost

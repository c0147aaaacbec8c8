SPECIFICATION FairBatchSpec
CONSTANTS
    Jobs = {j1, j2, j3, j4}
    MaxJobs = 4
    JobBatchMinSize = 3
    MaxTime = 2
    HandlerThrows = TRUE
INVARIANTS HandedOnceInOrder TimerMeasuresOldest
PROPERTIES QueueEmpties CloseDrainsQueue ImplementsContract
CHECK_DEADLOCK FALSE

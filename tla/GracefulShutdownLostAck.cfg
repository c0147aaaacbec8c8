SPECIFICATION ShutdownSpec
CONSTANTS
    Commands = {j1, j2}
    Jobs = {j1, j2}
    RetryOptions = {TRUE}
    MaxRetriesOptions = {0}
    StatusDropped = FALSE
    Cap = 2
    Workers = {w1, w2}
    NoWorker = NoWorker
    Endings = {"complete"}
INVARIANT AcknowledgedMeansSent
CHECK_DEADLOCK FALSE

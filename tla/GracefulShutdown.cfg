SPECIFICATION BoundedSpec
CONSTANTS
    Commands = {j1, j2, f1}
    Jobs = {j1, j2}
    RetryOptions = {TRUE, FALSE}
    MaxRetriesOptions = {0}
    StatusDropped = FALSE
    Cap = 1
    Workers = {w1, w2}
    NoWorker = NoWorker
    Endings = {"complete", "fail", "forward", "throw"}
INVARIANTS NoJobLeft AwaitedSettled SentWithoutRetry
PROPERTIES ClientCloses CommandsSettle
CHECK_DEADLOCK FALSE

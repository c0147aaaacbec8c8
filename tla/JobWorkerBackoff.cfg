SPECIFICATION Spec
CONSTANTS
    Tasks = {t1, t2}
    Streams = {s1, s2}
    NoStream = NoStream
    MaxJobs = 2
    HandlerActions = {"complete"}
    Rejections = {}
    FailProcessOnException = FALSE
    LateServer = FALSE
    Overloads = TRUE
    MalformedJobs = FALSE
    MaxBackoffs = 1
    MaxUnderflow = 0
PROPERTY BackoffHonoured
CHECK_DEADLOCK FALSE

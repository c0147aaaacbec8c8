SPECIFICATION FairSpec
CONSTANTS
    Tasks = {t1, t2}
    Streams = {s1, s2}
    NoStream = NoStream
    MaxJobs = 2
    HandlerActions = {"complete", "cancelWorkflow"}
    Rejections = {}
    FailProcessOnException = FALSE
    LateServer = FALSE
    Overloads = FALSE
    MalformedJobs = FALSE
    MaxBackoffs = 1
    MaxUnderflow = 0
PROPERTY CloseResolves
CHECK_DEADLOCK FALSE

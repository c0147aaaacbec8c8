SPECIFICATION Spec
CONSTANTS
    Tasks = {t1, t2, t3}
    Streams = {s1, s2}
    NoStream = NoStream
    MaxJobs = 4
    HandlerActions = {"complete", "fail"}
    Rejections = {"fail"}
    FailProcessOnException = FALSE
    LateServer = FALSE
    Overloads = FALSE
    MalformedJobs = FALSE
    MaxBackoffs = 1
    MaxUnderflow = 1
INVARIANT DrainedBeforeResolved
CHECK_DEADLOCK FALSE

SPECIFICATION FairSpec
CONSTANTS
    Tasks = {t1, t2, t3, t4, t5}
    Streams = {s1, s2}
    NoStream = NoStream
    MaxJobs = 4
    HandlerActions = {"complete", "throw"}
    Rejections = {}
    FailProcessOnException = TRUE
    LateServer = FALSE
    Overloads = FALSE
    MalformedJobs = FALSE
    MaxBackoffs = 1
    MaxUnderflow = 0
INVARIANTS ConcurrencyBounded OneRequestOutstanding CapacityAccounted DrainedBeforeResolved
PROPERTIES ImplementsContract CloseResolves PollingGoesOn
CHECK_DEADLOCK FALSE

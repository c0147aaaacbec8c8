SPECIFICATION Spec
CONSTANTS
    Tasks = {t1, t2}
    Streams = {s1, s2}
    NoStream = NoStream
    MaxJobs = 2
    HandlerActions = {"fail", "forward", "again", "throwLate", "cancelWorkflow", "ignore"}
    Rejections = {"fail", "cancelWorkflow"}
    FailProcessOnException = FALSE
    LateServer = TRUE
    Overloads = TRUE
    MalformedJobs = TRUE
    MaxBackoffs = 1
    MaxUnderflow = 1
SYMMETRY Symmetry
INVARIANTS CounterSound NoStaleStream
PROPERTY NoWorkAfterClose
CHECK_DEADLOCK FALSE

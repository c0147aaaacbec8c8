SPECIFICATION BoundedSpec
CONSTANTS
    Commands = {c1}
    RetryOptions = {TRUE}
    MaxRetriesOptions = {1}
    StatusDropped = FALSE
    Cap = 3
    MaxEdits = 0
    Methods = {"modifyProcessInstance"}
    Activations = {a1}
    MaxResponses = 1
INVARIANT EncodedOnce
CHECK_DEADLOCK FALSE

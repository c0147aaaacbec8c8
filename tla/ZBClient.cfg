SPECIFICATION BoundedSpec
CONSTANTS
    Commands = {c1, c2}
    RetryOptions = {TRUE, FALSE}
    MaxRetriesOptions = {0, 1}
    StatusDropped = FALSE
    Cap = 3
    MaxEdits = 1
    Methods = {"completeJob", "deployResource", "setVariables", "publishMessage", "publishStartMessage"}
    Activations = {a1}
    MaxResponses = 2
SYMMETRY Interchangeable
INVARIANTS
    EncodedOnce AttemptsAlike PublishedOnce EffectsExplained
    AttemptsBounded ResolvedMeansExecuted RejectedHoldsNothing
    AudienceMatchesGateway TokensOverTLS
CHECK_DEADLOCK FALSE

SPECIFICATION MCTokenSpec
CONSTANTS
    Providers = {p1, p2}
    Second = 1
    Lifetimes = {1, 2}
    MaxDelay = 8
    UseFileCache = TRUE
    FailureOptions = {TRUE, FALSE}
INVARIANTS TokensFresh EvictionPending
PROPERTIES BackoffKept RequestsPosted
CHECK_DEADLOCK FALSE

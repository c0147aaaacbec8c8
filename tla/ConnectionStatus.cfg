SPECIFICATION FairLogSpec
CONSTANTS
    Tolerance = 3
    Window = 6
    IsWorker = TRUE
    Signals = {"streamOpened", "streamFails", "syncSucceeds", "syncRefused", "syncUnavailable", "waitForReady"}
    LogLevels = {"ERROR", "INFO", "DEBUG"}
    MaxMessages = 3
INVARIANTS NotificationsAlternate QuietAgreement MessagesSurface
PROPERTIES ReadyDebounced OutageReported
CHECK_DEADLOCK FALSE

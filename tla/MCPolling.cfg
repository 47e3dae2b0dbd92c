SPECIFICATION PollingSpec
CONSTANTS
    Statuses = {"Processing", "Complete", "Failed", "DeProvisioned"}
    SuccessState = "Complete"
    FailureStates = {"Failed"}
    DeprovisionedState = "DeProvisioned"
    FailureRetries = 1
    FetchRetries = 1
    PollInterval = 1
    FailurePollInterval = 2
    Timeout = 3
    CallTimeout = 1
    Resources <- MCResources
    Window = 60
    RetryBaseDelay = 1
    RetryMaxDelay = 8
    HttpTimeout = 0
    GoneRules = {400}
    HttpStatuses = {200, 400, 403, 404, 429, 500}
    Durations = {0, 5, 60}
INVARIANTS
    SuccessWasReal
    FailureWasPersistent
    FetchErrorsTolerated
    ReturnsInTime
    CancelStopsPolling
    StopsInTime
    AnswerIsEarned
PROPERTIES
    PollingEnds
\* A wait or a read that returned does nothing more.
CHECK_DEADLOCK FALSE

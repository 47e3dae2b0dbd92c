SPECIFICATION Spec
CONSTANTS
    Statuses = {"Processing", "Complete", "Failed", "Blocked", "WaitingForApproval", "DeprovisionFailed", "DeProvisioned"}
    SuccessState <- LoadedSuccessState
    FailureStates <- LoadedFailureStates
    DeprovisionedState = "DeProvisioned"
    FailureRetries <- LoadedFailureRetries
    FetchRetries <- LoadedFetchRetries
    PollInterval = 1
    FailurePollInterval = 0
    Timeout = 6
    CallTimeout = 1
    Resources <- MCResources
INVARIANTS
    DefaultFetchTolerance
CHECK_DEADLOCK FALSE

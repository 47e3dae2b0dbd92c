SPECIFICATION FairSpec
CONSTANTS
    Statuses = {"Processing", "Complete", "Failed", "DeprovisionInitiated", "DeProvisioning", "DeProvisioned", "DeprovisionFailed", "Deleting"}
    SuccessState = "Complete"
    FailureStates = {"Failed", "DeprovisionFailed"}
    DeprovisionedState = "DeProvisioned"
    Ids = {o1, o2, o3}
    NoId = none
    Values = {v1, v2}
    Specs <- PathSpecs
    MaxFaults = 1
    MaxEdits = 2
PROPERTIES
    Settles
\* With nothing tracked and nothing wanted there is nothing to apply.
CHECK_DEADLOCK FALSE

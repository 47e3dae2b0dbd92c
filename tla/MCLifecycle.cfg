SPECIFICATION Spec
CONSTANTS
    Statuses = {"Processing", "Complete", "Failed", "DeprovisionInitiated", "DeProvisioning", "DeProvisioned", "DeprovisionFailed", "Deleting"}
    SuccessState = "Complete"
    FailureStates = {"Failed", "DeprovisionFailed"}
    DeprovisionedState = "DeProvisioned"
    Ids = {o1, o2, o3}
    NoId = none
    Values = {v1, v2}
    Specs <- AllowedSpecs
    MaxFaults = 2
    MaxEdits = 2
SYMMETRY Symmetry
INVARIANTS
    SecretNeverOlder
    DeletesOnlyTornDown
    AcknowledgedIsRecorded
PROPERTIES
    ImportedIsNotReplaced
    OwnershipKept
\* With nothing tracked and nothing wanted there is nothing to apply.
CHECK_DEADLOCK FALSE

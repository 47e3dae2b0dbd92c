SPECIFICATION ImportSpec

CONSTANTS
    Scopes = {1, 2}
    MaxFaults = 1
    MaxEdits = 2

INVARIANTS
    ConsistentResult

CHECK_DEADLOCK FALSE

SPECIFICATION UpdatesSpec
CONSTANTS
    N = 3
    Values = {v1, v2}
    v1 = v1
    v2 = v2
    InBody = {1}
    MaxFaults = 2
    MaxEdits = 2
    Empty = empty
    Names = {"labels"}
    Path <- MCPath
    PlannedValues <- MCPlannedValues
    OwnedPaths <- MCOwnedPaths
    OwnedValues = {"u", "v"}
    SecretPath <- MCSecretPath
    Secrets = {s1, s2}
    s1 = s1
    s2 = s2
    Masked = masked
    None = none
    Specs <- MCSpecs
    MaxVersion = 2
    MaxBreaks = 1
    MaxTurns = 2
PROPERTIES
    SecretSentOnlyOnBump

SPECIFICATION Spec
CONSTANTS
    Null = Null
    Unknown = Unknown
    Empty = Empty
    Masked = Masked
    NoDefault = NoDefault
    v1 = v1
    w1 = w1
    v2 = v2
    b1 = b1
    b2 = b2
    Values = {v1, w1, v2}
    Form <- FormDef
    Resolved <- ResolvedDef
    Bs = {b1, b2}
    RuleB = b1
    Cases <- Pinned
    Filled = v2
    Derived <- DerivedDef
    MaxEdits = 1
    MaxFaults = 1
INVARIANT ForcedReplacement

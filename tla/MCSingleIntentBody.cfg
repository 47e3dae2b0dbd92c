SPECIFICATION Spec
CONSTANTS
    N = 2
    Values = {v1, v2}
    v1 = v1
    v2 = v2
    InBody = {1, 2}
    MaxFaults = 1
    MaxEdits = 2
SYMMETRY Symmetry
PROPERTIES
    OneIntentPerCall

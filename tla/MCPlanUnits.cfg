SPECIFICATION Spec
CONSTANTS
    MaxEdits = 2
    MaxDcSamples = 16
    Lower <- MCLower
INVARIANTS
    EdgesKeepUnits
CHECK_DEADLOCK FALSE

SPECIFICATION Spec
CONSTANTS
    MaxEdits = 1
    MaxDcSamples = 16
    Lower <- MCLower
INVARIANTS
    NothingFromTheDeck
CHECK_DEADLOCK FALSE

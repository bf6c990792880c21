CONSTANTS
    Calls = {c1, c2}
    Nobody = nobody
    MaxEdits = 1
    Caller = {c1, c2}
    MaxChanges = 1
SYMMETRY CallSymmetry
SPECIFICATION EitherSpec
INVARIANTS
    ConcludesAboutTheDeck
    VerdictFitsEvidence
    AloneConcludesFromOwn
    SimulatedAsVetted

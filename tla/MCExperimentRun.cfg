CONSTANTS
    ac = ac
    op = op
    vt = vt
    d = d
    None = none
    Calls = {c1, c2}
    Analyses = {ac, op}
    Observed = {ac}
    Measurements = {vt}
    AnalysisOf <- MCAnalysisOf
    Derivations = {d}
    ParentsOf <- MCParentsOf
    MaxEdits = 1
    MaxFlaws = 1
SYMMETRY CallSymmetry
SPECIFICATION Spec
INVARIANTS
    PassIsGenuine
    EvidenceStood
    OneRunPerDirectory

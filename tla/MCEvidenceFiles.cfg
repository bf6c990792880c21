CONSTANTS
    Publishers = {compile, run, template}
    Templates = {template}
    Files = {f1, f2}
    Outsider = outsider
    Call = {c1, c2}
    Tool = {"lint", "test", "check", "map", "timing", "drc", "lvs", "xyce", "netlist",
            "review", "compare"}
    MaxChanges = 1
    MaxTampering = 2
SPECIFICATION OneSpec
SYMMETRY CallSymmetry
INVARIANTS
    TargetIsWhole
    OutcomeIsTrue
    ConcludedFromRecorded
    OwnEvidence
    NoLeftovers
    JudgedIsKept
    VerifiedStood
PROPERTIES
    NothingIsOverwritten

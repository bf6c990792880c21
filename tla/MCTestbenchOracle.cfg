CONSTANTS
    A = A
    B = B
    C = C
    D = D
    p1 = p1
    p2 = p2
    p3 = p3
    p4 = p4
    p5 = p5
    p6 = p6
    r1 = r1
    r2 = r2
    r3 = r3
    r4 = r4
    b1 = b1
    b2 = b2
    b3 = b3
    m1 = m1
    m3 = m3
    v2 = v2
    v4 = v4
    g = g
    tt = tt
    ss = ss
    ff = ff
    Stages = {A, B, C, D}
    DependsOn <- MCDependsOn
    Position <- MCPosition
    Points = {p1, p2, p3, p4, p5, p6}
    StageOf <- MCStageOf
    Corners = {tt, ss, ff}
    CornerOf <- MCCornerOf
    Grid <- MCGrid
    BoundGrid = {p2}
    Uncompilable = {}
    Unsettled = {p4}
    Rules = {r1, r2, r3, r4}
    PointOf <- MCPointOf
    Reduced = {D}
    Bindings = {b1, b2, b3}
    From <- MCFrom
    To <- MCTo
    FromReduction = {}
    Observables = {m1, m3, v2, v4}
    Source <- MCSource
    Duts = {dut, other}
    Pinned = dut
    NoDut = nodut
    None = none
    MaxConditions = 6
    Rows <- MCRows
    LineageRequired = TRUE
    TopCorner = top
SPECIFICATION ScoreSpec
INVARIANTS
    EvidenceIsWhole
    ScoredOnSoundGround
    PassIsEarned

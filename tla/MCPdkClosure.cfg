CONSTANTS
    top = top
    cells = cells
    spare = spare
    osdi = osdi
    tag = tag
    tt = tt
    ff = ff
    m = m
    NoName = NoName
    Absent = Absent
    File <- MCFile
    Name <- MCName
    Versions <- MCVersions
    Entries <- MCEntries
    Modules <- MCModules
    Identity = tag
    MaxFiles = 5
    MaxEdges = 7
    MaxDepth = 3
    MaxEdits = 2
SPECIFICATION Spec
INVARIANTS
    ClosureIsExact
    SnapshotIsSelfContained
    CyclesAreExact

SPECIFICATION Spec
CONSTANTS
    lib = lib
    manifest = manifest
    stray = stray
    pdk = pdk
    root = root
    Path = {lib, manifest, stray}
    Manifest = manifest
    Order <- MCOrder
    Dirs <- MCDirs
    DirOf <- MCDirOf
    Disturbed <- MCDisturbed
    MaxRuns = 2
    MaxEdits = 3
INVARIANTS
    FinalIsWhole
    Reclaimed
PROPERTIES
    ReportIsOfTheCapture

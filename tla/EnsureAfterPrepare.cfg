CONSTANTS
    VolumeSectors = 9
    SectorSize = 2
    Layouts <- OneLayout
    Values = {0, 1}
    Blank = 0
    MaxRequest = 1
    MaxCrashes = 0
    EnsureAfterPrepare = TRUE
SPECIFICATION Spec
INVARIANT WritersAgree

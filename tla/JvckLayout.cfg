CONSTANTS
    VolumeSectors = 6
    SectorSize = 2
    Layouts <- FourLayouts
    Values = {0, 1}
    Blank = 0
    MaxRequest = 2
    MaxCrashes = 1
    EnsureAfterPrepare = FALSE
SPECIFICATION Spec
INVARIANTS TypeOK FilesIntact VendorIntact ReservedIsKept WritersAgree FileSystemFits

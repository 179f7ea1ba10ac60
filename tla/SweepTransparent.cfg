CONSTANTS
    a = a
    b = b
    Garbled = Garbled
    N = 3
    BatchSectors = 2
    R = 2
    UseHeader = 0
    Values <- TwoValues
    Faults <- WriteFaults
    MaxCrashes = 0
    MaxFailures = 0
SPECIFICATION Spec
INVARIANTS TypeOK Transparent
PROPERTY RefinesPlainVolume

CONSTANTS
    a = a
    b = b
    Garbled = Garbled
    N = 3
    BatchSectors = 1
    R = 2
    UseHeader = 0
    Values <- OneValue
    Faults <- MetaFaults
    MaxCrashes = 0
    MaxFailures = 1
SPECIFICATION Spec
INVARIANT Transparent

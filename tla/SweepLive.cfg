CONSTANTS
    a = a
    b = b
    Garbled = Garbled
    N = 3
    BatchSectors = 1
    R = 2
    UseHeader = 0
    Values <- OneValue
    Faults <- DeviceFaults
    MaxCrashes = 0
    MaxFailures = 2
SPECIFICATION FairSpec
INVARIANT OneBatchPerIncident
PROPERTY SweepComesToRest

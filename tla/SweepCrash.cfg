CONSTANTS
    a = a
    b = b
    Garbled = Garbled
    N = 4
    BatchSectors = 2
    R = 2
    UseHeader = 1
    Values <- OneValue
    Faults <- PowerFaults
    MaxCrashes = 2
    MaxFailures = 0
SPECIFICATION Spec
INVARIANTS RebootSafe OneBatchPerIncident
CHECK_DEADLOCK FALSE

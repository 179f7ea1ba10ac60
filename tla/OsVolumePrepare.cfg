CONSTANTS
    VolumeSectors = 18
    ClusterSectors = 3
    Reserved = 4
    FileCount = 2
    Layouts <- TwoFiles
    ChunkClusters = 3
    MaxAttempts = 2
    MaxChanges = 2
    Paths = {"letter", "guid"}
    ReplicaSectors = 2
    MaxRuns = 3
    MaxCrashes = 2
SPECIFICATION Spec
INVARIANTS TypeOK AlwaysBoots TailIsFree SweptKeyIsKept
PROPERTIES GivesUpOnlyWhenStuck ShrinkReturns
CHECK_DEADLOCK FALSE

CONSTANTS
    i1 = i1
    i2 = i2
    i3 = i3
    Irps <- ThreeIrps
    MaxBurst = 2
    CreateMayFail = TRUE
    DelayIsEnough = TRUE
SPECIFICATION FairSpec
INVARIANTS TypeOK NothingLeftBehind ObjectOutlivesThread
PROPERTIES QueuedIrpCompletes SweepNotStarved StopReturns

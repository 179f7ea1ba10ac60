CONSTANTS
    i1 = i1
    i2 = i2
    i3 = i3
    Irps <- TwoIrps
    MaxBurst = 2
    CreateMayFail = FALSE
    DelayIsEnough = TRUE
SPECIFICATION Spec
INVARIANT NoRawIoWhileBound

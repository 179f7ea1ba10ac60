CONSTANTS
    Sys = Sys
    Seen = Seen
    Late = Late
    NoVolume = NoVolume
    Volumes <- ThreeVolumes
    OsVolume = Sys
    AddDeviceVolumes <- SeenVolumes
    AttachMayFail <- DataVols
    LockMayFail <- None
    N = 2
    Incarnations = {1, 2}
SPECIFICATION Spec
INVARIANT FoundFilterIsLive

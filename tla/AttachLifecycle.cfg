CONSTANTS
    Sys = Sys
    Seen = Seen
    Late = Late
    NoVolume = NoVolume
    Volumes <- TwoVolumes
    OsVolume = Sys
    AddDeviceVolumes <- OnlySys
    AttachMayFail <- TwoVolumes
    LockMayFail <- TwoVolumes
    N = 2
    Incarnations = {1, 2}
SPECIFICATION Spec
INVARIANTS TypeOK RegistryMatchesFilters ResolveFindsBound BindsOnlyUnbound
PROPERTIES EncryptedStaysServed 

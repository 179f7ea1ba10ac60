CONSTANTS
    a = a
    b = b
    Garbled = Garbled
    N = 3
    Replicas = 3
    Values <- TwoValues
    MaxCrashes = 2
    MaxFailures = 2
SPECIFICATION Spec
INVARIANTS TypeOK BootTransparent DiskMatchesMetadata OneSectorPerCrash
PROPERTIES LoaderDriverAgree EncryptedBoots

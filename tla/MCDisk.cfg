SPECIFICATION AllSpec
CONSTANTS
    Tear = Tear
    None = None
    MaxSequence = 3
    MaxFile = 12
    Disks <- FourDisks
INVARIANTS
    StoreOpens
    FilesTrue
    LogTrue
PROPERTIES
    ImplementsDurableMap
CHECK_DEADLOCK FALSE

SPECIFICATION Spec
CONSTANTS
    Keys = {1, 2}
    Depth = 2
    MaxPush = 1
    MaxSeq = 3
    StopWrites = 2
    Snapshots = TRUE
    Deletions = {TRUE, FALSE}
    Manual = TRUE
    Tear = FALSE
INVARIANTS
    LevelsTrue
PROPERTIES
    ImplementsMap

SPECIFICATION Spec
CONSTANTS
    Keys = {1}
    Depth = 3
    MaxPush = 2
    MaxSeq = 3
    StopWrites = 2
    Snapshots = TRUE
    Deletions = {TRUE, FALSE}
    Manual = FALSE
    Tear = TRUE
INVARIANT NewerAbove

SPECIFICATION FairSpec
CONSTANTS
    Writers = {w1, w2, w3}
    Sync = {w2, w3}
    Compactors = {c1}
    None = None
    BatchSize = 2
    BufferSize = 2
    Trigger = 1
    Slowdown = 1
    Stop = 2
    Faults = TRUE
INVARIANTS
    QueueTrue
PROPERTIES
    ImplementsAtomicWrites
    CallsReturn
CHECK_DEADLOCK FALSE

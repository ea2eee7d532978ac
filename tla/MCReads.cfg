SPECIFICATION AllSpec
CONSTANTS
    UserKeys = {1, 2}
    MaxSequence = 4
    Sequence = 3
    Children = {1, 2}
    MaxKey = 3
    MaxHeight = 3
    Readers = {"r1"}
    Threads = {t1, t2}
    None = None
    Numbers = {k1, k2, k3}
    Large = k3
    Charge <- Charges
    Capacity = 2
    Handles = {1, 2, 3, 4, 5, 6}
INVARIANTS
    ListsTrue
    SeesInserted
    CursorTrue
    TablesTrue
    CacheTrue
PROPERTIES
    ReadsEnd

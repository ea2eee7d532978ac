SPECIFICATION AllSpec
CONSTANTS
    Scanners = {v1, v2}
    Sessions = {s1, s2, s3}
    None = None
    MaxStarts = 2
    MaxBarcodes = 2
    Cards = {c1, c2, c3}
    Blank = {c3}
    Asks = {a1, a2}
    Below = 2
SYMMETRY Symmetry
INVARIANTS
    CameraOff
    OneCardPerVisit
    ScannerReads
    ScannerConsistent
    CopiesTrue
    ReminderTrue
PROPERTIES
    OffStaysQuiet

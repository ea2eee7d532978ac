SPECIFICATION Spec
CONSTANTS
    Uids = {u1, u2}
    Versions = {1}
    Gens = {g1, g2}
    None = None
    MaxLoads = 1
    MaxDownloads = 3
SYMMETRY Symmetry
VIEW View
INVARIANTS
    OwnPicture
    CellsTrue
    HomeConsistent

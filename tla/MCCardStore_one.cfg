SPECIFICATION Spec
CONSTANTS
    alice = alice
    bob = bob
    u1 = u1
    u2 = u2
    d1 = d1
    d2 = d2
    x1 = x1
    x2 = x2
    None = None
    EmptyUid = EmptyUid
    note = note
    Accounts <- Alice
    Uids <- OneUid
    Contents <- TwoContents
    Notes <- OneNote
    Urls <- TwoUrls
    MaxLoads = 2
SYMMETRY Symmetry
INVARIANTS
    TypeOK
    NoTornEdit
    ReplacedImageOnly
PROPERTIES
    DeletedStaysDeleted

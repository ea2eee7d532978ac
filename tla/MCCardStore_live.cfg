SPECIFICATION FairSpec
CONSTANTS
    alice = alice
    bob = bob
    u1 = u1
    u2 = u2
    d1 = d1
    d2 = d2
    x1 = x1
    x2 = x2
    None = None
    EmptyUid = EmptyUid
    note = note
    Accounts <- Alice
    Uids <- OneUid
    Contents <- OneContent
    Notes <- OneNote
    Urls <- OneUrl
    MaxLoads = 2
PROPERTIES
    RemovedLeavesList
    ListLoads

SPECIFICATION Spec
CONSTANTS
    alice = alice
    bob = bob
    l1 = l1
    l2 = l2
    l3 = l3
    r1 = r1
    r2 = r2
    None = None
    Accounts <- TwoAccounts
    Logins <- ThreeLogins
    Attempts <- TwoAttempts
SYMMETRY Symmetry
INVARIANTS
    LoginTrue
    OneSignInAtATime
PROPERTIES
    SessionKept

SPECIFICATION Spec
CONSTANTS
    g1 = g1
    g2 = g2
    Tab = {t1}
    NoTab = noTab
    User = {admin, bob}
    NoUser = noUser
    Generation = {g1, g2}
    Admin = {admin}
    Legacy = {old}
    MaxSwitches = 1
    MaxVisits = 2
    MaxFaults = 1
    Overlapping = FALSE
SYMMETRY Symmetry
INVARIANTS
    TypeOK
    AccountsApart
    NothingLost
    ViewMatchesServer

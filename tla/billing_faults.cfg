SPECIFICATION Spec
CONSTANTS
    Session = {s1, s2}
    InitQuota = 4
    InitRemain = 4
    TokenUnlimited = FALSE
    TrustQuota = 0
    SubTotal = 3
    SubActive = TRUE
    Preferences = {"subscription_first", "wallet_first"}
    PreQuotas = {2}
    ActualQuotas = {1, 3}
    ReserveTargets = {}
    Playground = {FALSE}
    ForcePreConsume = {FALSE}
    FeeQuotas = {0, 1}
    LateFailure = TRUE
    MaxFaults = 1
    MaxCrashes = 1
SYMMETRY Symmetry
INVARIANTS
    BooksAgree
    NeverOverRefunded
    SettledPaysActual
PROPERTIES
    ImplementsWalletLedger

SPECIFICATION Spec
CONSTANTS
    Session = {s1, s2}
    InitQuota = 5
    InitRemain = 6
    TokenUnlimited = FALSE
    TrustQuota = 4
    SubTotal = 5
    SubActive = TRUE
    Preferences = {"subscription_first", "subscription_only"}
    PreQuotas = {2}
    ActualQuotas = {1}
    ReserveTargets = {}
    Playground = {FALSE}
    ForcePreConsume = {FALSE}
    FeeQuotas = {0}
    LateFailure = FALSE
    MaxFaults = 1
    MaxCrashes = 0
SYMMETRY Symmetry
INVARIANTS
    SubscriptionRefundIdempotent

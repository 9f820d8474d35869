SPECIFICATION FairSpec
CONSTANTS
    Session = {s1, s2}
    InitQuota = 3
    InitRemain = 5
    TokenUnlimited = FALSE
    TrustQuota = 2
    SubTotal = 3
    SubActive = TRUE
    Preferences = {"subscription_first", "wallet_first"}
    PreQuotas = {2}
    ActualQuotas = {3}
    ReserveTargets = {}
    Playground = {FALSE}
    ForcePreConsume = {TRUE, FALSE}
    FeeQuotas = {0, 1}
    LateFailure = FALSE
    MaxFaults = 0
    MaxCrashes = 0
PROPERTIES
    RequestsEnd
    RefundDelivered

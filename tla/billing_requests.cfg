SPECIFICATION Spec
CONSTANTS
    Session = {s1, s2}
    InitQuota = 3
    InitRemain = 5
    TokenUnlimited = FALSE
    TrustQuota = 2
    SubTotal = 3
    SubActive = TRUE
    Preferences = {"subscription_first", "wallet_first", "subscription_only", "wallet_only"}
    PreQuotas = {0, 2}
    ActualQuotas = {1, 3}
    ReserveTargets = {1, 3}
    Playground = {TRUE, FALSE}
    ForcePreConsume = {FALSE}
    FeeQuotas = {0, 1}
    LateFailure = FALSE
    MaxFaults = 0
    MaxCrashes = 0
SYMMETRY Symmetry
INVARIANTS
    TypeOK
    WalletNeverNegative
    FundingFollowsPreference
    SubscriptionBooksBalance
    RefundReturnsAll

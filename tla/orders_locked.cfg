SPECIFICATION Spec
CONSTANTS
    w1 = w1
    w2 = w2
    o1 = o1
    o2 = o2
    vip = vip
    svip = svip
    Worker = {w1, w2}
    Task = task
    NodeOf <- OneNode
    Order = {o1, o2}
    NoOrder = noOrder
    Plan = {vip, svip}
    PlanOf <- OrdersOfVip
    UpgradeGroup <- Groups2
    MaxPurchase <- Limits
    Duration <- Durations
    BaseGroup = "default"
    Isolation = "readCommitted"
    MaxSubs = 2
    MaxTime = 1
SYMMETRY Symmetry
INVARIANTS
    OrderFulfilledOnce
    SuccessMeansSubscription
PROPERTIES
    OrderIsFinal

SPECIFICATION FairSpec
CONSTANTS
    n1 = n1
    Handler = {h1, h2, h3}
    Node <- MCNode
    NodeOf <- MCNodeOf
    Order = {o1}
    Mutex = {x1, x2}
    None = None
    MaxFaults = 1
INVARIANTS
    TypeOK
    CreditedOnce
    StatusMatchesCredit
PROPERTIES
    HandlersReturn

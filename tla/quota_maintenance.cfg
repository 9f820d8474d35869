SPECIFICATION FairSpec
CONSTANTS
    r1 = r1
    r2 = r2
    s1 = s1
    s2 = s2
    Request = {r1}
    Sub = {s1, s2}
    Task = task
    Total <- Totals
    Start = 0
    End <- Ends
    Rank <- Ranks
    Period = 1
    Aligned = TRUE
    Amounts = {1, 2}
    BatchSize = 2
    LockModes = {TRUE, FALSE}
    MaxTime = 2
    MaxFaults = 1
INVARIANTS
    TypeOK
    
PROPERTIES
    ExpiresForGood
    MaintenanceEnds
    DueIsReset

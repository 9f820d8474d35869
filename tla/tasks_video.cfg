SPECIFICATION Spec
CONSTANTS
    p1 = p1
    p2 = p2
    Task = {t1}
    NoTask = noTask
    Suno = {}
    Realtime = {}
    Poller = {p1, p2}
    Fetcher = {}
    Quotas = {1, 2}
    ChannelCanVanish = FALSE
    MaxFetches = 0
    MaxFaults = 1
    MaxCrashes = 1
SYMMETRY Symmetry
INVARIANTS
    TypeOK
    BilledOnce
    FailedIsRefunded

SPECIFICATION FairSpec
CONSTANTS
    p1 = p1
    p2 = p2
    Task = {t1, t2}
    NoTask = noTask
    Suno = {t2}
    Realtime = {t1}
    Poller = {p1}
    Fetcher = {f1}
    Quotas = {1}
    ChannelCanVanish = TRUE
    MaxFetches = 1
    MaxFaults = 1
    MaxCrashes = 0
PROPERTIES
    TasksEnd

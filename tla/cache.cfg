SPECIFICATION FairSpec
CONSTANTS
    b1 = b1
    cron = cron
    c1 = c1
    None = None
    Buckets = {b1}
    Callers = {cron, c1}
    Cron <- MCCron
    Tasks = {t1, t2}
    TTL = 2
    MaxVersion = 2
    MaxFaults = 3
INVARIANTS TypeOK RefreshHonest HitAfterInvalidate
PROPERTIES NeverRunsBack Converges

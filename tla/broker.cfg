SPECIFICATION FairSpec
CONSTANTS
    k1 = k1
    k2 = k2
    t1 = t1
    r1 = r1
    r2 = r2
    w1 = w1
    Keys = {k1, k2}
    Tabs = {t1}
    TabOf <- OneTab
    Readers = {r1, r2}
    Writers = {w1}
    FreshTtl = 1
    StaleTtl = 2
    MaxAttempts = 2

CHECK_DEADLOCK FALSE

INVARIANTS TypeOK SingleFlight SeesWrites

PROPERTIES CacheNeverRegresses ImplementsReadYourWrites EveryReadEnds

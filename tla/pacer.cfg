CONSTANTS
    r1 = r1
    r2 = r2
    r3 = r3
    Waiters = {r1, r2, r3}
    BurstLimit = 2
    Interval = 2
    MayClose = TRUE
SPECIFICATION FairSpec
CHECK_DEADLOCK FALSE
INVARIANTS TypeOK BurstBounded NobodyForgotten
PROPERTIES Paced NormalServed

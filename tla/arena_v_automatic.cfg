SPECIFICATION FairSpec
CONSTANTS
    m1 = m1
    m2 = m2
    p1 = p1
    t1 = t1
    NRounds = 1
    Matches = {m1, m2}
    RoundOf <- AtOnce
    Players = {}
    MatchesOf <- BothOfP1
    Sides = {"a"}
    Tabs = {t1}
    Window = 1
    RoundLength = 1
    MaxTime = 2
    MaxFailures = 0
    MaxRevisions = 0
CHECK_DEADLOCK FALSE
PROPERTIES FinalizesAutomatically

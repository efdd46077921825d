SPECIFICATION FairSpec
CONSTANTS
    m1 = m1
    m2 = m2
    p1 = p1
    t1 = t1
    NRounds = 2
    Matches = {m1, m2}
    RoundOf <- InTurn
    Players = {p1}
    MatchesOf <- BothOfP1
    Sides = {"a"}
    Tabs = {t1}
    Window = 1
    RoundLength = 1
    MaxTime = 2
    MaxFailures = 1
    MaxRevisions = 1
CHECK_DEADLOCK FALSE
INVARIANTS TypeOK DrawnFromResults
PROPERTIES KeepsResultBook SettledAfterRestart

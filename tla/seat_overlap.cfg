CONSTANTS
    c1 = c1
    c2 = c2
    u1 = u1
    u2 = u2
    k1 = k1
    k2 = k2
    Clans = {c1}
    Recruits = {u1}
    Commands = {k1, k2}
    Ops <- HoldOps
    LostReplies = TRUE
    MaxActive = 2
    MaxCommands = 2
    MaxEdits = 0
    MinSeats = 1
    MaxSeats = 1
    MaxDay = 1
    MaxFaults = 1
    MaxCrashes = 1
SPECIFICATION Spec
INVARIANTS TypeOK CountAgrees
PROPERTIES SecondHoldUnseen EarlyExpiryUnseen KeepsHoldBook
SYMMETRY Symmetry

CONSTANTS
    c1 = c1
    c2 = c2
    u1 = u1
    u2 = u2
    k1 = k1
    k2 = k2
    Clans = {c1}
    Recruits = {u1, u2}
    Commands = {k1}
    Ops <- LedgerOps
    LostReplies = FALSE
    MaxActive = 1
    MaxCommands = 2
    MaxEdits = 0
    MinSeats = 1
    MaxSeats = 2
    MaxDay = 1
    MaxFaults = 0
    MaxCrashes = 0
SPECIFICATION Spec
INVARIANTS EffectiveSeats
SYMMETRY Symmetry

CONSTANTS
    c1 = c1
    c2 = c2
    u1 = u1
    u2 = u2
    k1 = k1
    k2 = k2
    Clans = {c1}
    Recruits = {u1}
    Commands = {k1}
    Ops <- LiveOps
    LostReplies = TRUE
    MaxActive = 3
    MaxCommands = 1
    MaxEdits = 1
    MinSeats = 1
    MaxSeats = 1
    MaxDay = 2
    MaxFaults = 1
    MaxCrashes = 1
SPECIFICATION FairSpec
PROPERTIES HoldsEnd

SPECIFICATION FairSpec
CONSTANTS
    NRows = 2
    First <- MCFirst
    Cycle <- MCCycle
    Lead <- MCLead
    RetryDelay = 1
    ReloadDelay = 1
    MaxTime = 8
    MaxOcc = 3
    MaxFaults = 3
    None = None
INVARIANTS TypeOK RepeatsPaidFor PostedInTime
PROPERTIES KeepsAnnouncements NeverSkipsOpen StaysArmed CatchesUp

SPECIFICATION Spec
CONSTANTS
    h1 = h1
    h2 = h2
    Clans = {"A", "B"}
    Handlers = {h1, h2}
    MaxEvents = 3
    MaxFaults = 0
INVARIANTS PlacedMeansSettled
SYMMETRY Symmetry
CHECK_DEADLOCK FALSE

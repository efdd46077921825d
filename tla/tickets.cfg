SPECIFICATION Spec
CONSTANTS
    h1 = h1
    h2 = h2
    Clans = {"A", "B"}
    Handlers = {h1, h2}
    MaxEvents = 3
    MaxFaults = 2
INVARIANTS TypeOK SeatsPaidFor RecordedFirst StartedIsFinished
PROPERTIES DoneIsFinal
SYMMETRY Symmetry
CHECK_DEADLOCK FALSE

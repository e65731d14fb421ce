\* Three clients of one path with a limit of two, a table that holds two.
SPECIFICATION Spec
CONSTANTS
    Paths = {"quest", "ready", "other"}
    Route <- MCRoute
    Limit <- MCLimit
    Addresses = {a1, a2, a3}
    Wrong <- MCWrong
    Minute = 2
    MaxWindows = 2
    MaxClock = 4
SYMMETRY Symmetry
INVARIANTS
    SlidingLimit
PROPERTY
    ImplementsAdmissionBook
CHECK_DEADLOCK FALSE

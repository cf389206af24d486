SPECIFICATION Spec
CONSTANTS
    Pid = {p1, p2}
    Agent = {a1, a2}
    Harness = {h1, h2}
    MaxBirths = 2
    MaxRevision = 2
    MaxActivity = 2
SYMMETRY Symmetry
INVARIANTS
    OneSessionPerSeat
    LiveOwnerKeepsSeat
    GuardsHold
    NobodyLockedIn
PROPERTIES
    LeasesMoveForward
    ImplementsRegister
CHECK_DEADLOCK FALSE

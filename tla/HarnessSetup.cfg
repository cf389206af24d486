SPECIFICATION Spec
CONSTANTS
    s1 = s1
    s2 = s2
    Setup <- TwoCommands
    Harness <- AllHarnesses
    MaxBuild = 3
    MaxCommand = 2
    MaxEdit = 1
    MaxTrouble = 2
SYMMETRY Symmetric
CHECK_DEADLOCK FALSE
INVARIANTS
    FailureLeavesNoTrace
    TypeOK
    NoOrphans
    JobsMatchPlists
PROPERTIES
    UserEntriesStay

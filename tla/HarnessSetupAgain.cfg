SPECIFICATION Spec
CONSTANTS
    s1 = s1
    s2 = s2
    Setup <- TwoCommands
    Harness <- CodexOnly
    MaxBuild = 1
    MaxCommand = 2
    MaxEdit = 0
    MaxTrouble = 1
CHECK_DEADLOCK FALSE
INVARIANTS
    ApplyIsRepeatable

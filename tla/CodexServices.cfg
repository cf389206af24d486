SPECIFICATION LiveSpec
CONSTANTS
    c1 = c1
    c2 = c2
    Launcher <- TwoLaunchers
    ProjectsFile = {f}
    Attempts = 3
    MaxChange = 2
    MaxLaunch = 2
    MaxTrouble = 2
CHECK_DEADLOCK FALSE
INVARIANTS
    MarkerUntilLoaded
PROPERTIES
    NobodyCutOff
    ClaimOnCurrentService
    RepairKeepsOwnership
    Recovers

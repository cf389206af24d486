SPECIFICATION FairSpec
CONSTANTS
    Hook = {h1, h2}
    Thread = {x, y, z}
    Unfit = {z}
    MaxLease = 1
    MaxEvent = 3
    MaxCommand = 0
    MaxFault = 0
    MaxRestart = 1
INVARIANTS
    QueueFollowsIntent
PROPERTIES
    SessionIsBound
    NobodyWaits
CHECK_DEADLOCK FALSE

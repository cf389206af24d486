SPECIFICATION FairSpec
CONSTANTS
    Hook = {h1, h2}
    Thread = {x, y}
    Unfit = {y}
    MaxLease = 1
    MaxEvent = 2
    MaxCommand = 1
    MaxFault = 0
    MaxRestart = 0
PROPERTIES
    BoundIsRouted

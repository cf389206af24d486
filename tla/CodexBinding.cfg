SPECIFICATION Spec
CONSTANTS
    Hook = {h1, h2}
    Thread = {x, y}
    Unfit = {}
    MaxLease = 2
    MaxEvent = 3
    MaxCommand = 1
    MaxFault = 1
    MaxRestart = 1
SYMMETRY Symmetry
INVARIANTS
    WakesNoReplacedThread
PROPERTIES
    BindsInOrder
    OtherThreadStays

SPECIFICATION FairSpec
CONSTANTS
    Thread = {x, y}
    Fresh = {y}
    Mail = {m}
    Ask = {q}
    Limit = 2
    Window = 1
    MaxTurn = 3
    MaxEvent = 2
INVARIANTS
    TypeOK
    BindingStands
    WakeOfBinding
    BreakerHolds
    LatchHolds
PROPERTIES
    RequestLatches
    MailIsServed

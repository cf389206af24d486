SPECIFICATION Spec
CONSTANTS
    Thread = {x, y}
    Fresh = {y}
    Mail = {m}
    Ask = {q}
    Limit = 2
    Window = 1
    MaxTurn = 2
    MaxEvent = 2
INVARIANTS
    NoWakePastLatch

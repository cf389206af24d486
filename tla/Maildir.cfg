SPECIFICATION Spec
CONSTANTS
    Pid = {p1, p2}
    Reader = {b}
    Sender = {a}
    Stamp = {s1}
    MaxFile = 3
    MaxCrash = 1
SYMMETRY Symmetry
INVARIANTS
    SentMailSurvives
    OnlyWholeMessages
PROPERTIES
    NeverOverwritten
    AckEmptiesNew
    ImplementsMailbox

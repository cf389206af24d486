SPECIFICATION FairSpec
CONSTANTS
    Pid = {p1}
    Reader = {b}
    Sender = {a, c}
    Stamp = {s1}
    MaxFile = 3
    MaxCrash = 0
INVARIANTS
    ArchivedWasAcked
PROPERTIES
    CommandsEnd

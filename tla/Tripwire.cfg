SPECIFICATION FairSpec
CONSTANTS
    Watcher = {p, q}
    Mail = {m}
    MaxLease = 2
    MaxEvent = 2
INVARIANTS
    FewWakes
    OnePoller
PROPERTIES
    SuccessorStays
    MailWakes
CHECK_DEADLOCK FALSE

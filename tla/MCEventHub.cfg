SPECIFICATION FairSpec
CONSTANTS
    Client = {c1, c2}
    Off <- NoPlace
    QueueSize = 1
    EventSize = 1
    SendSizes = {1, 2}
    Limits = {1, 2}
    Severity = {}
    MaxEvents = 3
CHECK_DEADLOCK FALSE
INVARIANTS
    TypeOK
    NobodyForgotten
    PanicNeedsStop
PROPERTIES
    ImplementsFeed
    HandlersEnd

SPECIFICATION FairSpec
CONSTANTS
    Caller = {w1, w2}
    Config <- SettingsMove
    MaxTime = 4
    MaxBoots = 2
INVARIANTS
    TypeOK
    WindowBound
    EvenPace
    SleepBounded
PROPERTIES
    OneSleep
    StopFreesWaiters
CHECK_DEADLOCK FALSE

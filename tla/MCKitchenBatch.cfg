SPECIFICATION Spec
CONSTANTS
    b1 = b1
    b2 = b2
    r1 = r1
    r2 = r2
    Batch = {b1}
    DryBatch = {}
    Run = {r1}
    RunOf <- Single
    Instances = 2
    MaxItems = 2
    ListLimit = 3
    MaxBoots = 2
    NoRun = NoRun
    NoBatch = NoBatch
    NoKey = NoKey
CHECK_DEADLOCK FALSE
INVARIANTS
    TypeOK
    NoStrandedBatch
    MapIsExact
    CompletedIsSettled
    

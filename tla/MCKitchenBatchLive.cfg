SPECIFICATION FairSpec
CONSTANTS
    b1 = b1
    b2 = b2
    r1 = r1
    r2 = r2
    Batch = {b1, b2}
    DryBatch = {b2}
    Run = {r1, r2}
    RunOf <- OneEach
    Instances = 1
    MaxItems = 1
    ListLimit = 1
    MaxBoots = 2
    NoRun = NoRun
    NoBatch = NoBatch
    NoKey = NoKey
CHECK_DEADLOCK FALSE
PROPERTIES
    KeepsLifecycle
    

SPECIFICATION FairSpec
CONSTANTS
    o1 = o1
    o2 = o2
    Org = {o1, o2}
    OrgSets <- Unchanging
    Requests = {"rescan"}
    Concurrency = 1
    NoOrg = NoOrg
PROPERTIES
    
    ShutdownEnds

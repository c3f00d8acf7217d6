SPECIFICATION Spec
CONSTANTS
    o1 = o1
    o2 = o2
    Org = {o1, o2}
    OrgSets <- ComeAndGo
    Requests = {"rescan", "saved"}
    Concurrency = 1
    NoOrg = NoOrg
SYMMETRY OrgSymmetry
INVARIANTS
    TypeOK
    OneCollectionAtATime
    RunningRowsAreCollected
PROPERTIES
    KeepsLedger

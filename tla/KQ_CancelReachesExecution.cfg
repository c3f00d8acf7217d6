SPECIFICATION Spec
CONSTANTS
    MaxItems = 2
    Key = {k1, k2}
    GitKey = {k1, k2}
    Priority <- TwoPriorities
    Worker = {w1, w2}
    PoolSize <- OneOrTwo
    MaxBoots = 2
    NoKey = NoKey
SYMMETRY WorkerSymmetry
INVARIANTS
    CancelReachesExecution

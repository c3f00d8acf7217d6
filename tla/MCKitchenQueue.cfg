SPECIFICATION Spec
CONSTANTS
    MaxItems = 2
    Key = {k1, k2}
    GitKey = {k1}
    Priority <- TwoPriorities
    Worker = {w1, w2}
    PoolSize <- ZeroToTwo
    MaxBoots = 2
    NoKey = NoKey
SYMMETRY WorkerSymmetry
INVARIANTS
    TypeOK
    OneHolder
    HeldRowOnlyCancelled
    RunningHasWorker
    OneActiveRowPerKey
    OverlapOnlyAfterCancel
    RetryLineage
    PoolAccounted
PROPERTIES
    ImplementsLedger

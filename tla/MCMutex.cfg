SPECIFICATION FairSpec
CONSTANTS
    Users = {t1, t2, t3}
    NoOne = NoOne
    Archs <- AllArchs
    TryArchs <- ExclusiveArchs
INVARIANTS
    MutualExclusion
    SleeperHasWaker
PROPERTIES
    ImplementsLock
    Progress

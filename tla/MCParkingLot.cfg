SPECIFICATION MCSpec
CONSTANTS
    t1 = t1
    t2 = t2
    t3 = t3
    Threads <- MCThreads
    NoThread = NoThread
    Parkers = {t1, t2}
    Unparkers = {t3}
    Walkers = {t3}
    Timeouts = {t1}
    Addresses <- MCAddresses
    Hash <- MCHash
    MaxLoadFactor = 1
    GrowthFactor = 1
    MaxBuckets = 3
INVARIANTS UnparkIsExact ResizeIsSafe
PROPERTY ImplementsQueues

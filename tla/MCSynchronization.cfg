SPECIFICATION MCSpec
CONSTANTS
    Threads = {t1, t2, t3}
    NoThread = NoThread
    SpinLimit = 0
    AssumingZero = FALSE
    CountModulus = 3
    ByteModulus = 2
    Collisions = FALSE
    WordThreads = {"t1", "t2", "t3", "t4"}
    WordSpins = 1
    NoHolder = NoHolder
    Consumers = {"c1", "c2"}
    Producers = {"p1", "p2"}
    Sleepers = {"c1"}
    Items = 2
    Readers = {"r1", "r2", "r3"}
    Writers = {"w1", "w2"}
    Workers = 3
    Tasks = 5
    Null = 0
    HelperThreads = 2
    Clients = {3, 4}
    NoClient = 0
    MaxTasks = 2
INVARIANTS AssertionsHold NoLostWakeUp ValidatedReadIsClean WordLockQueueIsSound WaitersAreNotified PoolsAreQuiet
PROPERTIES LocksExclude
CHECK_DEADLOCK FALSE

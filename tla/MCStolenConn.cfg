SPECIFICATION Spec
CONSTANTS
    Requests <- MCRequests
    Calls = {"stopIfNecessary", "collectAsync", "collectNowAsync", "collectSync", "releaseAccess", "preventCollection", "lastChanceToFinalize"}
    ConcurrentGC = TRUE
    ThreadsAvailable = TRUE
    CollectContinuously = FALSE
    MaxTickets = 2
    MaxReloops = 1
INVARIANT NeverCrashes

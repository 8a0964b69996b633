SPECIFICATION MCSpec
CONSTANTS
    Requests <- MCRequests
    Calls = {"stopIfNecessary", "collectNowAsync", "collectSync", "releaseAccess", "preventCollection", "lastChanceToFinalize"}
    ConcurrentGC = FALSE
    ThreadsAvailable = FALSE
    CollectContinuously = FALSE
    MaxTickets = 3
    MaxReloops = 1
INVARIANT CollectsAlone
PROPERTIES TicketsAreServed CallersReturn FinalizersComeToRun

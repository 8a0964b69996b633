SPECIFICATION Spec
CONSTANTS
    Requests <- MCRequests
    Calls = {"stopIfNecessary", "releaseAccess", "preventCollection"}
    ConcurrentGC = TRUE
    ThreadsAvailable = TRUE
    CollectContinuously = TRUE
    MaxTickets = 2
    MaxReloops = 1
INVARIANT PreventedMeansNoCollection

SPECIFICATION Spec
CONSTANTS
    Requests <- MCRequests
    Calls = {"stopIfNecessary", "collectAsync", "collectNowAsync", "collectSync", "releaseAccess", "lastChanceToFinalize"}
    ConcurrentGC = TRUE
    ThreadsAvailable = TRUE
    CollectContinuously = TRUE
    MaxTickets = 2
    MaxReloops = 1
INVARIANT CrashOnlyByRace
INVARIANT OneConductor
INVARIANT WorldStopIsReal
INVARIANT FinalizedBeforeNextCycle
INVARIANT ServesItsRequest
INVARIANT ParkedMutatorIsExpected
PROPERTY ImplementsService

SPECIFICATION MCSpec
CONSTANTS
    Collector = "collector"
    Mutator = "mutator"
    Helpers = {"h1", "h2"}
    MaxCells = 3
    MaxTimeouts = 2
    InitialSizes = {0, 4, 5}
    MaxOperations = 3
    MaxSize = 9
    MaxStops = 2
    MaxFrames = 5
INVARIANTS TerminationIsReal ObjectIsScanned BelieversAreRight DeferralIsKept
PROPERTIES VisitorsReturn
CHECK_DEADLOCK FALSE

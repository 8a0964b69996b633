SPECIFICATION MCSpec
CONSTANTS
    Sources <- MCSources
    Malformed = {"garbled"}
    Throwing = {"throws"}
    Bytecode <- MCBytecode
    BadStrings <- MCBadStrings
    Addresses = {1, 2, 3, 4}
    t1 = t1
    t2 = t2
    none = none
    sweeper = sweeper
    collector = collector
    stopper = stopper
INVARIANTS InsideMeansReady TimersAreSound ResultsStayReadable
PROPERTIES RegrabIsLIFO BytecodeRunsItsProgram

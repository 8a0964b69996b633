SPECIFICATION Spec
CONSTANTS
    Sources <- MCSources
    Malformed = {"garbled"}
    Throwing = {"throws"}
    Bytecode <- MCBytecode
    BadStrings <- MCBadStrings
    Addresses = {1, 2, 3, 4}
INVARIANT ResultIsReadable

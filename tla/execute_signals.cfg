SPECIFICATION Spec
CONSTANTS
    ExitCodes <- MCExitCodes
    Signals <- MCSignals
    BrokenPipe = 13
    Interruptible = TRUE
    SigchldIgnored = TRUE
INVARIANTS
    IInv
    ReturnsClean
PROPERTIES
    CallReturns

SPECIFICATION Spec
CONSTANTS
    ExitCodes <- MCExitCodes
    Signals <- MCSignals
    BrokenPipe = 13
    Interruptible = FALSE
    SigchldIgnored = TRUE
INVARIANTS
    ErrorMeansNothingRan

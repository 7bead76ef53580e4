SPECIFICATION Spec
CONSTANTS
    ExitCodes <- MCExitCodes
    Signals <- MCSignals
    BrokenPipe = 13
    Interruptible = FALSE
    SigchldIgnored = FALSE
INVARIANTS
    ProgramHoldsNoPipe
    FailureIsReported
    ErrorMeansNothingRan
    ZeroMeansSuccess
PROPERTIES
    ImplementsProgramRun

SPECIFICATION Spec
CONSTANTS
    d1 = d1
    d2 = d2
    Dirs = {d1, d2}
    Home = d1
    NoHome = NoHome
    Nowhere = nowhere
    Empty = empty
    Catalogs <- MCCatalogs
    Broken = broken
    Absent = absent
    InitialFiles <- MCFiles
    Replies <- MCReplies
    Argument = notgiven
    Environment = model
    DefaultModel = built
    NotGiven = notgiven
    ConfirmRisky = TRUE
    ExitCodes = {0, 1}
    Signals = {9}
    Lines <- MCLines
    MaxLines = 3
    MaxEdits = 0
INVARIANTS
    BuiltinsNeverReachModel

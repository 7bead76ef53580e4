SPECIFICATION Spec
CONSTANTS
    Clients = {c1, c2}
    NoPrompt = none
    Prompts = {none, laptop}
    Tools = {t1, t2}
    Models = {m1, m2}
    NoModel = NoModel
    Replies <- MCReplies
    Capacity = 4
SYMMETRY Symmetry
INVARIANTS
    TypeOK
    MirrorSound
    OwnAnswers
    WholeReplies
    AllOrNothing
PROPERTIES
    ImplementsIndependentTurns

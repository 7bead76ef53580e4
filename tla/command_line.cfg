SPECIFICATION Spec
CONSTANTS
    Characters <- MCCharacters
    Commands <- MCCommands
    TypedLines <- MCTyped
INVARIANTS
    TypeOK
    ReadsAsAShell
    ShownIsRun
    TrimIsHarmless

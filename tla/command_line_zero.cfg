SPECIFICATION Spec
CONSTANTS
    Characters <- MCCharacters
    Commands <- MCCommands
    TypedLines <- MCTyped
INVARIANTS
    ConfirmedIsRun

SPECIFICATION Spec
CONSTANTS
    MaxWritten = 7
    MaxInput = 4
INVARIANTS
    TypeOK
    OnceInOrder
    NothingHeldBack
    AnnouncedFirst
    EachReadOnce

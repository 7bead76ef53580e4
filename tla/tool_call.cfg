SPECIFICATION Spec
CONSTANTS
    Documents <- MCDocuments
    Calls <- MCCalls
    Int64Max <- MCInt64Max
INVARIANTS
    TypeOK
    FirstBadEntryRejects
    SpecsAreSound
    SchemaAndArgvAgree
    OneEntryPerValue

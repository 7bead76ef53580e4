SPECIFICATION SchemaSpec
CONSTANTS
    MaxFree = 12
    Catalogs <- MCCatalogs
INVARIANTS
    TypeOK
    TracksNesting
    WritesJson
    SchemaIsWhole

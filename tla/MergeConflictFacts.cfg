SPECIFICATION MCSpec
CONSTANTS
    Bases <- MCTables
    Titles <- MCTitle
    Definitions <- MCNoDefinition
    SchemaFacets <- MCNone
    FieldFacets <- MCNone
    EntityFacets <- MCNone
    Values <- MCNoValues
    NewSchemas <- MCNone
    NewFields <- MCColumns
    NewEntities <- MCNone
    MaxEdits = 2
INVARIANTS
    FactsMatchKind

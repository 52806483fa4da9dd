SPECIFICATION MCSpec
CONSTANTS
    Bases <- MCBases
    Titles <- MCTitles
    Definitions <- MCDefinitions
    SchemaFacets <- MCSchemaFacets
    FieldFacets <- MCFieldFacets
    EntityFacets <- MCEntityFacets
    Values <- MCValues
    NewSchemas <- MCNewSchemas
    NewFields <- MCNewFields
    NewEntities <- MCNewEntities
    MaxEdits = 5
INVARIANTS
    MergeFollowsTheSides
    ConflictsAreReal
    OneSidedMergeIsThatSide
    V2RetainsV1
    ComparisonsTellAll
    MovedColumnsStayMoved

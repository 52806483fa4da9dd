SPECIFICATION Spec
CONSTANTS
    Bases <- MCBases
    Titles <- MCTitles
    Definitions <- MCDefinitions
    SchemaFacets <- MCSchemaFacets
    FieldFacets <- MCFieldFacets
    EntityFacets <- MCEntityFacets
    Values <- MCValues
    NewSchemas <- MCNewSchemas
    NewFields <- MCNewFields
    NewEntities <- MCBlankRows
    Candidates <- MCCandidates
    ValidOnly = TRUE
    MaxGeneration <- MCFewGenerations
    Authorities <- MCAuthorities
    Analyses <- MCAnalyses
    MaxNarrowing = 3
    MaxPredicates = 2
    MaxResults = 3
    MaxCollection = 2
    MaxGroups = 2
    MaxAmbiguous = 2
    LargestNumber = 8
INVARIANT PublishedValuesAreRecomputed
CHECK_DEADLOCK FALSE

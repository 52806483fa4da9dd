SPECIFICATION Spec
CONSTANTS
    Bases <- MCBases
    Titles <- MCTitles
    Definitions <- MCDefinitions
    SchemaFacets <- MCSchemaFacets
    FieldFacets <- MCFieldFacets
    EntityFacets <- MCEntityFacets
    Values <- MCValues
    NewSchemas <- MCNewSchemas
    NewFields <- MCNewFields
    NewEntities <- MCNewEntities
    Candidates <- MCCandidates
    ValidOnly = FALSE
    MaxGeneration <- MCMaxGeneration
    Authorities <- MCAuthorities
    Analyses <- MCAnalyses
    MaxNarrowing = 3
    MaxPredicates = 2
    MaxResults = 3
    MaxCollection = 2
    MaxGroups = 2
    MaxAmbiguous = 2
    LargestNumber = 8
INVARIANTS
    DerivedStateIsRebuilt
PROPERTIES
    QueriesAgree
    EveryChangeIsNamed
    AnswersKeepToTheirGrant
    ScenariosForetellPublications
CHECK_DEADLOCK FALSE

SPECIFICATION MCSpec
CONSTANTS
    InitialDocs <- Opened
    Values <- OneOfEach
    Trimmed <- TrimmedTexts
    Parsed <- ParsedTexts
    Printed <- PrintedNumbers
    Names <- NewNames
    Allowed <- AllowedSets
    Dividend = 35
    MinCapacityRows = 3
    MaxCapacityRows = 5
    MaxTableRows = 3
    MaxTableFields = 4
    HistoryDepth = 2
    MaxRange = 2
    MaxRevision = 3
    MaxSerial = 5
    Views <- PageViews
    MaxViewEntries = 2
    Displayed <- DisplayedNumbers
    Folded <- FoldedTexts
    Fragments <- TextFragments
    Queries <- SearchedTexts
    Rank <- TextRanks
INVARIANTS
    CachesAreCurrent
    PageQueriesAgree
    FreshIds
PROPERTIES
    CommitPublishesPreview
    ImplementsEditHistory
CHECK_DEADLOCK FALSE

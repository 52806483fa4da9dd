SPECIFICATION FairSpec
CONSTANTS
    e1 = e1
    e2 = e2
    o1 = o1
    i1 = i1
    x1 = x1
    Edits <- TwoEdits
    Opens <- OneOpen
    Imports <- OneImport
    Closings <- OneOfEach
    NoProject = NoProject
INVARIANTS
    MessagesKeepTheirOrder
    EditsLandWhereTheCallerLooked
    RefusalsChangeNothing
PROPERTIES
    EveryCallSettles
CHECK_DEADLOCK FALSE

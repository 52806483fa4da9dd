SPECIFICATION Spec
CONSTANTS
    Files <- Worksheets
    HeaderRows = {0, 2}
    Amounts = {0, 2}
    Authored <- Typed
    MaxChanges = 3
INVARIANTS
    SpreadsheetsAgree
    ExportsImportBack
    SurvivorsKeepTheirLook
CHECK_DEADLOCK FALSE

CONSTANTS
    Names <- MCNames
    Statements <- MCStatements
    Texts <- MCTexts
    MaxStmts = 3
    MaxCompiles = 2
    AssertsOn = TRUE
INIT SysInit
NEXT SysNext
INVARIANTS
    SysTypeOK
    ParsesAsSpecified
    RoundTrip
    SpansAreStatements
CHECK_DEADLOCK FALSE

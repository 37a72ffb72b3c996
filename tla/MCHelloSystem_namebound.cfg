CONSTANTS
    Names <- MCNames
    Statements <- MCStatements
    Texts <- MCNameBound
    MaxStmts = 3
    MaxCompiles = 2
    AssertsOn = TRUE
INIT SysInit
NEXT SysNext
INVARIANT NoInternalError
CHECK_DEADLOCK FALSE

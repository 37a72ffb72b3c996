CONSTANTS
    Names <- MCNames
    Statements <- MCStatements
    Texts <- MCErrorLine
    MaxStmts = 3
    MaxCompiles = 2
    AssertsOn = TRUE
INIT SysInit
NEXT SysNext
INVARIANT ErrorLineIsTokenLine
CHECK_DEADLOCK FALSE

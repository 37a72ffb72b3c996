CONSTANTS
    Names <- MCNames
    Statements <- MCStatements
    Texts <- MCTypeOnlyEat
    MaxStmts = 3
    MaxCompiles = 2
    AssertsOn = TRUE
INIT SysInit
NEXT SysNext
INVARIANT ParsesAsSpecified
CHECK_DEADLOCK FALSE

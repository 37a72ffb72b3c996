CONSTANTS
    Names <- MCNames
    Statements <- MCLoopVarJ
    MaxStmts = 2
    MaxCompiles = 1
    AssertsOn = TRUE
SPECIFICATION Spec
INVARIANT CompileErrorIffUndefinedRead
CHECK_DEADLOCK FALSE

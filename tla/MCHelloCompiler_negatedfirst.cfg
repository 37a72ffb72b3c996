CONSTANTS
    Names <- MCNames
    Statements <- MCNegatedFirst
    MaxStmts = 1
    MaxCompiles = 1
    AssertsOn = TRUE
SPECIFICATION Spec
INVARIANT NoInternalError
CHECK_DEADLOCK FALSE

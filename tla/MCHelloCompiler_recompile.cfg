CONSTANTS
    Names <- MCNames
    Statements <- MCStatements
    MaxStmts = 1
    MaxCompiles = 2
    AssertsOn = TRUE
SPECIFICATION Spec
INVARIANT NamesMatchMap
CHECK_DEADLOCK FALSE

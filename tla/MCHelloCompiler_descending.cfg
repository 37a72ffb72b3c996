CONSTANTS
    Names <- MCNames
    Statements <- MCDescending
    MaxStmts = 2
    MaxCompiles = 1
    AssertsOn = TRUE
SPECIFICATION Spec
INVARIANT LoopUnrollOrder
CHECK_DEADLOCK FALSE

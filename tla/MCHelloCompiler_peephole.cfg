CONSTANTS
    Names <- MCNames
    Statements <- MCStraightLine
    MaxStmts = 2
    MaxCompiles = 1
    AssertsOn = TRUE
SPECIFICATION Spec
INVARIANT OptimiserPreservesStacks
CHECK_DEADLOCK FALSE

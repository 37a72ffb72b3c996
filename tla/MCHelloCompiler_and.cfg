CONSTANTS
    Names <- MCNames
    Statements <- MCAnd
    MaxStmts = 2
    MaxCompiles = 1
    AssertsOn = TRUE
SPECIFICATION Spec
INVARIANT FailureIsReported
CHECK_DEADLOCK FALSE

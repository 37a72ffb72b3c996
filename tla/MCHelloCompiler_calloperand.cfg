CONSTANTS
    Names <- MCNames
    Statements <- MCCallOperand
    MaxStmts = 2
    MaxCompiles = 1
    AssertsOn = TRUE
SPECIFICATION Spec
INVARIANT RoundTrip
CHECK_DEADLOCK FALSE

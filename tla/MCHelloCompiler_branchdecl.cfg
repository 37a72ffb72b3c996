CONSTANTS
    Names <- MCNames
    Statements <- MCBranchDecl
    MaxStmts = 3
    MaxCompiles = 1
    AssertsOn = TRUE
SPECIFICATION Spec
INVARIANT RoundTrip
CHECK_DEADLOCK FALSE

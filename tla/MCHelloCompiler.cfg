CONSTANTS
    Names <- MCNames
    Statements <- MCStatements
    MaxStmts = 3
    MaxCompiles = 2
    AssertsOn = TRUE
SPECIFICATION Spec
INVARIANTS
    RoundTrip
    AnnotationIndexValid
    CompileErrorIffUndefinedRead
    FailureIsReported
CHECK_DEADLOCK FALSE

CONSTANTS
    Names <- MCNames
    Statements = {}
    Texts = {}
    Files <- MCFiles
    StdIn <- MCStdIn
    Writable <- MCWritable
    CommandLines <- MCCommandLines
    MaxStmts = 3
    MaxCompiles = 1
    AssertsOn <- MCAssertsOn
SPECIFICATION MainSpec
INVARIANTS
    ParsesAsSpecified
    SpansAreStatements
    SuccessWritesAnnotatedScript
PROPERTIES
    ProgramTerminates
CHECK_DEADLOCK FALSE

CONSTANTS
    Names <- MCNames
    Statements = {}
    Texts = {}
    Files <- MCEdgeFiles
    StdIn <- MCStdIn
    Writable <- MCEdgeWritable
    CommandLines <- MCEdgeCommandLines
    MaxStmts = 3
    MaxCompiles = 1
    AssertsOn <- MCAssertsOn
SPECIFICATION MainSpec
INVARIANT
    ParsesAsSpecified
CHECK_DEADLOCK FALSE

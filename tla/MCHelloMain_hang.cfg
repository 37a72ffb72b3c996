CONSTANTS
    Names <- MCNames
    Statements = {}
    Texts = {}
    Files <- MCHangFiles
    StdIn <- MCStdIn
    Writable <- MCHangWritable
    CommandLines <- MCHangCommandLines
    MaxStmts = 3
    MaxCompiles = 1
    AssertsOn <- MCAssertsOn
SPECIFICATION MainSpec
PROPERTIES
    ProgramTerminates
CHECK_DEADLOCK FALSE

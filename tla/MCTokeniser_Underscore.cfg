CONSTANT Inputs <- MCUnderscore
INIT TInit
NEXT TNext
PROPERTY ImplementsTokenStream
CHECK_DEADLOCK FALSE

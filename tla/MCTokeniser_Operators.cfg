CONSTANT Inputs <- MCOperators
INIT TInit
NEXT TNext
PROPERTY ImplementsTokenStream
CHECK_DEADLOCK FALSE

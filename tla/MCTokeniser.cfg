CONSTANT Inputs <- MCInputs
INIT TInit
NEXT TNext
INVARIANT TypeOK
PROPERTY ImplementsTokenStream
CHECK_DEADLOCK FALSE

CONSTANT Inputs <- MCBareDollar
INIT TInit
NEXT TNext
PROPERTY ImplementsTokenStream
CHECK_DEADLOCK FALSE

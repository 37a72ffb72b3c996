CONSTANTS
    OpName <- MCOpName
    Texts <- MCNumberTexts
INIT ParseInit
NEXT ParseNext
PROPERTY NumberWordIsPushed
CHECK_DEADLOCK FALSE

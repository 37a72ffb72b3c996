CONSTANTS
    OpName <- MCOpName
    Texts <- MCTexts
INIT ParseInit
NEXT ParseNext
INVARIANTS
    ParseTypeOK
    PushTracking
\* ParseScript returns or throws: the last states have no successor.
CHECK_DEADLOCK FALSE

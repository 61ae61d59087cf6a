SPECIFICATION Spec
CONSTANTS
    Keys = {a}
    MaxPath   = 2
    MaxTokens = 14
CHECK_DEADLOCK FALSE
INVARIANTS
    TypeOK
    KindsTellItems
    DefinedOnce
PROPERTIES
    ReadonlyKeeps
    ImplementsDocument
    Terminates

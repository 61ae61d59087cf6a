SPECIFICATION Spec
CONSTANTS
    QueueLimit  = 4
    Lifetimes   = {1, 2, 3}
    MaxReadings = 7
CHECK_DEADLOCK FALSE
INVARIANTS
    TypeOK
    EachAccounted
    NoneRefused
PROPERTIES
    FullForGood

SPECIFICATION Spec
CONSTANTS
    Levels    = {69, 70}
    Start     = 1500
    Intervals = {600, 5000}
    MaxUpdates  = 3
    MaxRecords  = 3
    MaxFailures = 2
INVARIANTS
    TypeOK
    GoodWhileInOrder
PROPERTIES
    ImplementsQuietStreak
    StreaksPublished

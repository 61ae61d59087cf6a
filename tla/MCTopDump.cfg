SPECIFICATION TopDumpSpec
CONSTANTS
    Ids    = {p, q, r}
    Levels = {60, 70}
    Top    = 2
    Window = 5
    Records <- MCRecords
    MaxTopic  = 3
    MaxStarts  = 3
    MaxRejoins = 2
SYMMETRY MCSymmetry
CHECK_DEADLOCK FALSE
INVARIANTS
    ListsAreRankings
    FileFollowsTopic
    CommittedOnDisk

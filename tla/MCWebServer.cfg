SPECIFICATION Spec
CONSTANTS
    Conns  = {c1, c2}
    Slots  = {s1, s2}
    NoSlot = NoSlot
    Tables <- MCTables
    MaxConnects = 3
    MaxChunks   = 3
    MaxChanges  = 1
CHECK_DEADLOCK FALSE
INVARIANTS
    TypeOK
    PageIntact
PROPERTIES
    SlotsExclusive
    NoneStays

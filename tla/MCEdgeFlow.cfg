SPECIFICATION Spec
CONSTANTS
    Undefined   = Undefined
    PoiFile     <- TwoPois
    Inputs      <- Sensors
    MaxReadings = 3
    MaxUpdates  = 1
INVARIANTS
    SameReadings
    NoneSkipped
    LevelsAreNumbers
    TypeOK
PROPERTY
    ReadingsReachKafka

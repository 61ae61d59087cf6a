\* Three ranks and three sensors, one of which the broadcast does not reach;
\* two steps, so that ranks can be in different ones.
SPECIFICATION Spec
CONSTANTS
    WorldSize = 3
    NSensors  = 3
    Eager    <- MCEager
    MaxStep   = 2
INVARIANTS
    TypeOK
    ReadingsAreTotals
    RanksInStep
    ProducedInOrder
PROPERTIES
    ImplementsCity
    EveryReadingOffered

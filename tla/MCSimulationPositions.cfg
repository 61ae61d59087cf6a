\* The five sensors of mpi/simulation.toml.
SPECIFICATION Spec
CONSTANTS
    WorldSize = 2
    NSensors  = 5
    Eager    <- MCEager
    MaxStep   = 1
INVARIANTS
    EveryNodeMeasuresEverySensor

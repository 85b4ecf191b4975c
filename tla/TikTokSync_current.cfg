CONSTANTS
    i1 = i1
    i2 = i2
    w1 = w1
    w2 = w2
    None = None
    NoPlan = NoPlan
    Worker <- Workers
    Work <- TwoWorks
    Generation <- TwoGenerations
    Records = 2
    MaxContent = 2
    Initial <- FirstSources
    MaxEdits = 1
    MaxFaults = 1
SPECIFICATION Spec
SYMMETRY Symmetry
INVARIANTS
    TypeOK
    FingerprintIsTrue
    CheckpointIsComplete
    NothingIsStranded
PROPERTIES
    LarkMovesForward
CHECK_DEADLOCK FALSE

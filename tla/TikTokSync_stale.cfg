CONSTANTS
    i1 = i1
    i2 = i2
    w1 = w1
    w2 = w2
    None = None
    NoPlan = NoPlan
    Worker <- Workers
    Work <- OneWork
    Generation <- OneGeneration
    Records = 1
    MaxContent = 2
    Initial <- OneSource
    MaxEdits = 1
    MaxFaults = 2
SPECIFICATION Spec
SYMMETRY Symmetry
PROPERTIES
    CommittedAfterWrite
CHECK_DEADLOCK FALSE

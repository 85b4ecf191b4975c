\* The revival of a permanent failure.
SPECIFICATION Spec
CONSTANTS
    w1 = w1
    w2 = w2
    None = None
    Worker <- Consumers
    Messages = 3
    MaxRecoveries = 1
    MainTries = 1
    DeadTries = 3
    MaxFaults = 2
SYMMETRY Symmetry
CHECK_DEADLOCK FALSE
PROPERTIES
    PermanentIsNotRevived

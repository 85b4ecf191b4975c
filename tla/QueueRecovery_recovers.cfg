\* Two consumers, one second chance.
SPECIFICATION Spec
CONSTANTS
    w1 = w1
    w2 = w2
    None = None
    Worker <- Consumers
    Messages = 3
    MaxRecoveries = 1
    MainTries = 2
    DeadTries = 4
    MaxFaults = 3
SYMMETRY Symmetry
CHECK_DEADLOCK FALSE
INVARIANTS
    TypeOK
    BudgetKept
    ClosedIsBacked
    NothingIsForgotten
PROPERTIES
    ClosedStaysClosed
    DoneIsNotRevived

CONSTANTS
    older = older
    newer = newer
    a = a
    b = b
    None = None
    Worker = {a, b}
    Work = {older, newer}
    Generation <- TwoGenerations
    Warned = {older}
    Chunks = 2
    MaxFaults = 1
SPECIFICATION FairSpec
INVARIANT TypeOK
INVARIANT ProgressIsWritten
INVARIANT CompletionIsBacked
 
PROPERTY WarningIsKept
PROPERTY MessagesSettle
PROPERTY CompletedWarningIsRaised
CHECK_DEADLOCK FALSE

CONSTANTS
    older = older
    newer = newer
    a = a
    b = b
    None = None
    Worker = {a, b}
    Work = {older}
    Generation <- OneGeneration
    Warned = {}
    Chunks = 1
    MaxFaults = 2
SPECIFICATION Spec
PROPERTY CompletionIsNeverReversed
CHECK_DEADLOCK FALSE

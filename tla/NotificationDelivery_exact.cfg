CONSTANTS
    a = a
    b = b
    m = m
    n = n
    None = None
    Worker = {a, b}
    Message = {m, n}
    Owner = {m, n}
    OwnerOf <- OneOwner
    Payload = {"first", "edited"}
    LeaseMs = 1
    MirrorEnabled = TRUE
    MaxAttempts = 2
    MaxTime = 1
SPECIFICATION Spec
INVARIANT TypeOK
INVARIANT SentIsShown
INVARIANT MirrorIsBacked
PROPERTY AtMostOnce
SYMMETRY Symmetry
CHECK_DEADLOCK FALSE

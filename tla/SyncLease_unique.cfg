SPECIFICATION Spec
CONSTANTS
    first = first
    other = other
    Invocation = {first, other}
    Owner = {first, other}
    OwnerOf <- UniqueOwners
    LeaseMs = 2
    RenewAttempts = 1
    AlertOnRetryableFailure = FALSE
    MaxChunk = 2
    MaxTime = 3
INVARIANTS
    TypeOK
    ActiveLeaseIsOwned
    OneLateChunk
    NoLeaseLeftBehind
    
    WarningsAreAlerted
PROPERTY ImplementsLease
CHECK_DEADLOCK FALSE
SYMMETRY Symmetry

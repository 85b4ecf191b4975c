SPECIFICATION FairSpec
CONSTANTS
    first = first
    other = other
    Invocation = {first, other}
    Owner = {first, other}
    OwnerOf <- UniqueOwners
    LeaseMs = 1
    RenewAttempts = 2
    AlertOnRetryableFailure = TRUE
    MaxChunk = 0
    MaxTime = 1
PROPERTIES
    EveryRunEnds
CHECK_DEADLOCK FALSE

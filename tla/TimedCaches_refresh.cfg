SPECIFICATION Spec
CONSTANTS
    r1 = r1
    r2 = r2
    r3 = r3
    Requests = {r1, r2, r3}
    None = None
    Timeout = 1
    TTL = 2
    FailureTTL = 2
    MaxChanges = 2
    MaxClock = 4
SYMMETRY Interchangeable
CHECK_DEADLOCK FALSE
INVARIANTS
    TypeOK
    BoundedStaleness
    OneTimeoutPerRead
PROPERTY PublishedIsAccepted

SPECIFICATION FairSpec
CONSTANTS
    first = first
    second = second
    Attempts = {first, second}
    Sources = {"archive", "corrupt", "checkout"}
    Sizes = {0, 2}
    ChunkQSize = 1
    FileQSize = 1
CHECK_DEADLOCK FALSE
INVARIANTS
    TypeOK
    MarkedIsComplete
    ReportedIsComplete
PROPERTIES
    EveryAttemptEnds
    ImplementsPrefix

SPECIFICATION Spec
CONSTANTS
    first = first
    second = second
    Targeted = 2
    Others = 2
    BatchSize = 2
    FileConcurrency = 1
    ChunkSize = 1
    MaxRounds = 2
    MaxTries = 2
    Graphs <- Homonyms
    ScopeOf <- OneScope
    None = None
    Contents = {first, second}
    MaxRuns = 2
    MaxCrashes = 1
SYMMETRY Interchangeable
CONSTRAINT OneIsBuilt
CHECK_DEADLOCK FALSE
INVARIANTS
    TypeOK
    CountedIsStored
    CompletedIsBrowsable
    IndexMatchesDocumentation
PROPERTY PaidOnce

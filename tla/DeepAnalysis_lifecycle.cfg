SPECIFICATION FairSpec
CONSTANTS
    steady = steady
    quiet = quiet
    Analyses = {steady, quiet}
    Stalls = {quiet}
    MaxCalls = 2
    StoreErrors = TRUE
CHECK_DEADLOCK FALSE
INVARIANTS
    TypeOK
    OutcomeIsShown
PROPERTIES
    DeletedStaysDeleted
    OnlyStalledAreSwept
    EveryRunEnds

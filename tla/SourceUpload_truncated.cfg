SPECIFICATION FairSpec
CONSTANTS
    first = first
    second = second
    Attempts = {first}
    Sources = {"truncated"}
    Sizes = {2}
    ChunkQSize = 1
    FileQSize = 1
CHECK_DEADLOCK FALSE
PROPERTY TruncatedArchiveIsRefused

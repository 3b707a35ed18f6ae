SPECIFICATION Spec
CONSTANTS
    MaxStreams = 6
    Interruptible = {"turn"}
    Overlaps = FALSE
CHECK_DEADLOCK FALSE
INVARIANTS
    TypeOK
    OneConversation
    BranchRunsToItsEnd
    OneQuestionPerTurn
    FlagCoversVariants

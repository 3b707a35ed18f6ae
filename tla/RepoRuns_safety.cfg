SPECIFICATION Spec
CONSTANTS
    c = c
    r1 = r1
    Requests = {c, r1}
    Creator = c
    MaxRuns = 3
    MaxOid = 3
    IdsPerSecond = 2
    LostAnswers = {}

INVARIANTS
    TypeOK
    OneLiveRun
    WorkUnderClaim
    RetriedHasSuccessor
    StampMatchesOutput
PROPERTIES
    DispatchOnce
    TerminalIsFinal
    ImplementsClaim

SPECIFICATION Spec
CONSTANTS
    c = c
    r1 = r1
    Requests = {c, r1}
    Creator = c
    MaxRuns = 2
    MaxOid = 2
    IdsPerSecond = 2
    LostAnswers = {"dispatch"}
INVARIANT WorkUnderClaim

SPECIFICATION FairSpec
CONSTANTS
    c = c
    r1 = r1
    Requests = {c}
    Creator = c
    MaxRuns = 2
    MaxOid = 3
    IdsPerSecond = 2
    LostAnswers = {"dispatch", "activity"}
PROPERTY
    EveryRunSettles

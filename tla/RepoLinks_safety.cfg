SPECIFICATION Spec
CONSTANTS
    a = a
    b = b
    p1 = p1
    p2 = p2
    Users = {a, b}
    Requests = {p1, p2}
    MaxRows = 2
    MaxVersion = 2
    MaxCount = 2
    Overlapping = {}
    Crashes = TRUE
SYMMETRY Interchangeable
CONSTRAINT Scope
INVARIANTS
    TypeOK
    CountBoundsLinks
    UniqueKey
PROPERTIES
    ZeroIsFinal

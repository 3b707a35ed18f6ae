SPECIFICATION Spec
CONSTANTS
    a = a
    b = b
    p1 = p1
    p2 = p2
    Users = {a, b}
    Requests = {p1, p2}
    MaxRows = 2
    MaxVersion = 1
    MaxCount = 5
    Overlapping = {"delete"}
    Crashes = FALSE
SYMMETRY Interchangeable
INVARIANTS
    CountBoundsLinks

SPECIFICATION Spec
CONSTANTS
    i1 = i1
    i2 = i2
    i3 = i3
    i4 = i4
    n1 = n1
    n2 = n2
    n3 = n3
    n4 = n4
    s1 = s1
    s2 = s2
    s3 = s3
    None = None
    Items = {i1, i2, i3, i4}
    Names = {n1, n2, n3, n4}
    Scopes = {"global", "project"}
    Sessions = {s1, s2, s3}
    Orders <- MCOrders
    Seed <- MCSeed
    Learned <- MCLearned
    MaxCalls = 3
SYMMETRY Symmetry
INVARIANTS
    RedirectsEnd
    SameNameSameItem
PROPERTIES
    ClassifiedStaysClassified
CHECK_DEADLOCK FALSE

SPECIFICATION Spec
CONSTANTS
    p1 = p1
    i1 = i1
    i2 = i2
    A = A
    B = B
    bare = bare
    slab = slab
    u1 = u1
    u2 = u2
    u3 = u3
    Projects = {p1}
    Items = {i1, i2}
    Types = {A, B}
    Contexts = {bare, slab}
    BaseContext = bare
    Uploads = {u1, u2, u3}
    ProjectOf <- MCProjectOf
    Programme <- MCProgramme
    Weights = {0, 4}
    MinSamples = 2
    HighSamples = 3
    HighProjects = 1
    MaxNewContexts = 2
    Promotable <- MCPromotable
    MaxCorrections = 1
    MaxActuals = 1
    MaxMerges = 1
    MaxCalls = 2
INVARIANTS
    EvidenceIsReal
PROPERTIES
    KnowledgeFollowsEvidence
    ManualHoursStay
CHECK_DEADLOCK FALSE

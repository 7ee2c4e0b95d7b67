SPECIFICATION Spec
CONSTANTS
    w1 = w1
    w2 = w2
    w3 = w3
    k = k
    l = l
    alpha = alpha
    beta = beta
    empty = empty
    master = master
    dev = dev
    i1 = i1
    i2 = i2
    i3 = i3
    Id = {i1, i2, i3}
    Class = {k, l}
    Named = {k, l}
    Descendant <- FamilyDescendant
    Name = {alpha, beta, empty}
    EmptyName = empty
    NoId = NoId
    NoEnt = NoEnt
    NoTree = NoTree
    Worker = {w1}
    Creator = {}
    Branch = {master}
    Master = master
    Type = {"READ", "WRITE"}
    InitialTrees <- EmptyRepository
    Shape <- FamilyShape
    OpenMayFail = FALSE
    MaxAttempts = 1
    MaxCalls = 2
    MaxOps = 2
    MaxRefs = 1
INVARIANT TreesConsistent
SYMMETRY PermuteIds

SPECIFICATION FairSpec
CONSTANTS
    w1 = w1
    w2 = w2
    w3 = w3
    k = k
    l = l
    alpha = alpha
    beta = beta
    empty = empty
    master = master
    dev = dev
    i1 = i1
    i2 = i2
    i3 = i3
    Id = {1, 2}
    Class = {k}
    Named = {}
    Descendant <- PlainDescendant
    Name = {alpha}
    EmptyName = empty
    NoId = NoId
    NoEnt = NoEnt
    NoTree = NoTree
    Worker = {w1, w2}
    Creator = {}
    Branch = {master}
    Master = master
    Type = {"WRITE", "EXCLUSIVE"}
    InitialTrees <- OneObjectRepository
    Shape <- PlainShape
    OpenMayFail = FALSE
    MaxAttempts = 2
    MaxCalls = 3
    MaxOps = 1
    MaxRefs = 1
INVARIANTS NoLostUpdate ReferencesKept
PROPERTIES CallsAreAtomic CallsReturn

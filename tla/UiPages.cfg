SPECIFICATION Spec
CONSTANTS
    src = src
    srt = srt
    prj = prj
    Node = {src, srt, prj}
    NodeKind <- ThreeKinds
    Order <- ThreeNodes
    Name = {n1, n2}
    Number = number
    MaxOutputs = 2
    MaxWires = 2
    Tasks = 4
    PartOf <- TasksOfAWorkflow
    Rejected <- RejectedRecords
    MaxLoads = 2
    Jobs = 3
    JobKindOf <- TwoSessionsAndABatch
    MaxPageLists = 2
    f1 = f1
    MaxRules = 2
    MaxMade = 4
    MaxFields = 2
    FieldName = {unnamed, f1}
    Unnamed = unnamed
    unnamed = unnamed
    PathElement <- OneClash
    Function = {g1}
    NoFunction = NoFunction
    Attribute = {x1, x2}
    AttributesOf <- OneAttribute
    g1 = g1
    x1 = x1
    x2 = x2
    StartRules = 1
    StartFields <- OneField
    ColumnName <- TypedNames
    StartColumns <- OneColumn
    MaxColumns = 2
    MaxNamed = 2
    e1 = e1
    e2 = e2
    none = none
    Element = {e1, e2}
    Typed = {x1}
    NoText = none
    StartRows <- TwoAndOneRow
    MaxRows = 2
    b1 = b1
    Deployment = {b1, b2}
    Value = {v1}
    NewValue = nv
    MaxStored = 3
    MaxParameters = 5
    MaxCounter = 8
    p1 = p1
    p2 = p2
    Part = {p1, p2, p3}
    StartParts <- TwoParts
    Reference = {l1, l2}
    Nil = Nil
    MaxParts = 2
    Code = {c1}
    Blank = Blank
    MaxOutputFields = 2
    MaxNewFields = 3
    MaxChecks = 1
    Tab = {k1, k2, k3}
    FirstTab = k1
    Formula = {m1}
    NoFormula = NoFormula
    MaxTests = 1
INVARIANTS PagesTypeOK LinksCarryFields AnswersAreShownWhereAsked EditsReachTheirTarget OthersAreUntouched TypedTextsArrive ParametersStayInPlace ReferencesFollow
CONSTRAINT Proviso
CHECK_DEADLOCK FALSE

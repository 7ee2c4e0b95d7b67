SPECIFICATION Spec
CONSTANTS
    Request = {q1, q2, q3}
    Attempt = {a1}
    Branch = {master, dev}
    Master = master
    NoBranch = NoBranch
    Look = Look
    Leave = Leave
    Client = {c1, c2, c3}
    NoClient = NoClient
    MaxTimers = 2
    Message = {m1}
    LogLimit = 2
    Object = {a, b}
    New = new
    v = v
    w = w
    Value = {v, w}
    Appended <- OneGrows
    Name = {m}
    First = m
    Blank = blank
    Nobody = nobody
    Call = {r1, r2}
    Born = {a}
    MaxPath = 1
    d1 = d1
    d2 = d2
    d3 = d3
    Dataset = {d1, d2, d3}
    Own = {d1}
    ShortName <- TwoAlike
    DatasetType = {y1}
    NoType = NoType
    Absent = Absent
    MaxLists = 1
    MaxEdits = 1
    MaxImport = 2
INVARIANTS ServerTypeOK NothingForgotten ExecutedOnce BusyIsTrue ShownBranchIsReal LogIsReceived UnsavedIsAsked MapIsTrue
CONSTRAINT Proviso
SYMMETRY Permuted
CHECK_DEADLOCK FALSE

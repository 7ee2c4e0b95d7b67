\* Two users edit objects of their own on two branches.
CONSTANTS
    u1 = u1
    u2 = u2
    master = master
    dev = dev
    f1 = f1
    f2 = f2
    public = public
    dev_s = dev_s
    no_schema = no_schema
    no_tables = no_tables
    User = {u1, u2}
    Branch = {master, dev}
    Master = master
    File = {f1, f2}
    Edits <- EditsOwn
    Generated = {f1}
    Schema = {public, dev_s}
    SchemaOf <- OwnSchemas
    NoSchema = no_schema
    NoTables = no_tables
    Ops = {"save", "delete", "create", "merge", "switch"}
    Requests = {u1}
    PushMayFail = FALSE
    SchemaMayFail = FALSE
    FileMayBeInvalid = FALSE
    MaxAttempts = 2
    MaxRestarts = 0
    MaxCalls = 5
SPECIFICATION Spec
INVARIANTS TypeOK EditsStayInGit
PROPERTY HeadsMoveForward

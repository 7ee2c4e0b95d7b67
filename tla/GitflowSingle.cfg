\* One user makes every request, with failures and a restart.
CONSTANTS
    u1 = u1
    u2 = u2
    master = master
    dev = dev
    f1 = f1
    f2 = f2
    public = public
    dev_s = dev_s
    no_schema = no_schema
    no_tables = no_tables
    User = {u1}
    Branch = {master, dev}
    Master = master
    File = {f1, f2}
    Edits <- EditsAll
    Generated = {f1}
    Schema = {public, dev_s}
    SchemaOf <- OwnSchemas
    NoSchema = no_schema
    NoTables = no_tables
    Ops = {"save", "delete", "export", "import", "create", "drop", "merge", "switch", "login"}
    Requests = {u1}
    PushMayFail = TRUE
    SchemaMayFail = TRUE
    FileMayBeInvalid = FALSE
    MaxAttempts = 1
    MaxRestarts = 1
    MaxCalls = 5
SPECIFICATION Spec
INVARIANT SyncedUnlessEmptied
PROPERTY TagsMoveForward

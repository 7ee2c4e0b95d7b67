\* Three requests, one of them waiting for its job, on a pool of two clients.
\* A task that runs once and one that runs again and again.
SPECIFICATION Spec
CONSTANTS
    j1 = j1
    j2 = j2
    j3 = j3
    a = a
    b = b
    Job = {j1, j2, j3}
    Waits = {j2}
    Client = {c1, c2}
    NoClient = none
    Jar = {a, b}
    JarOf <- TwoJars
    SubmitMayFail = TRUE
    JobMayFail = TRUE
    once = once
    cron = cron
    right = right
    Task = {once, cron}
    Once = {once}
    Retried = {cron}
    Setting = {right, skipped, wrong}
    Skipped = {skipped}
    Throws = {wrong}
    RunsMayFail = TRUE
    MaxEdits = 2
    MaxRefreshes = 2
    MaxRuns = 2
INVARIANTS ServicesTypeOK ClientsComeBack ClientsAreExclusive FuturesAreKnown RefreshIsComplete
PROPERTY RequestsAreServed
CHECK_DEADLOCK FALSE

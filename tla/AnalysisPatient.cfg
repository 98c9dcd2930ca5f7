SPECIFICATION FairPageSpec
CONSTANTS
    u1 = u1
    m1 = m1
    m2 = m2
    NoJob = NoJob
    NoPage = NoPage
    Messages = {m1, m2}
    Users = {u1}
    Owner <- OneUser
    Workers = {w1}
    Allowance = 2
    Cap = 1
    MaxRetries = 1
    Patient = TRUE
    UserOps = {"archive", "delete"}
    FaultKinds = {"web", "broker", "child", "sweeper", "dberror"}
    MaxFaults = 1
    Paged = {m1}
    MaxPolls = 2
INVARIANTS
    PageTypeOK
    NoFreeResult
    SlotReturned
PROPERTIES
    ArchivedStaysArchived
    RefusalIsFinal
    FailureCompensated
    OneNavigation
    WaitingEnds
\* The system may come to rest: every message settled, no request open.
CHECK_DEADLOCK FALSE

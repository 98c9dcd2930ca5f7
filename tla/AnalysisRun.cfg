SPECIFICATION RunSpec
CONSTANTS
    u1 = u1
    m1 = m1
    m2 = m2
    NoJob = NoJob
    NoRow = NoRow
    Messages = {m1}
    Users = {u1}
    Owner <- OneUser
    Workers = {w1}
    Allowance = 1
    Cap = 1
    MaxRetries = 1
    Patient = FALSE
    UserOps = {"delete"}
    FaultKinds = {"web", "publish", "broker", "child", "worker", "duplicate",
                  "sweeper", "dberror"}
    MaxFaults = 1
    Predicted = {"rejection"}
    MayRing = TRUE
    CallLimit = 5
INVARIANTS
    RunTypeOK
    HonestAudit
    RejectionFails
    PaidOnce
PROPERTY
    KeepsContract
\* The system may come to rest: every message settled, no request open.
CHECK_DEADLOCK FALSE

SPECIFICATION Spec
CONSTANTS
    u1 = u1
    m1 = m1
    m2 = m2
    NoJob = NoJob
    Messages = {m1}
    Users = {u1}
    Owner <- OneUser
    Workers = {w1}
    Allowance = 1
    Cap = 1
    MaxRetries = 0
    Patient = TRUE
    UserOps = {}
    FaultKinds = {"publish"}
    MaxFaults = 1
PROPERTIES
    MarkKeepsCompleted
\* The system may come to rest: every message settled, no request open.
CHECK_DEADLOCK FALSE

SPECIFICATION Spec
CONSTANTS
    u1 = u1
    m1 = m1
    m2 = m2
    NoJob = NoJob
    Messages = {m1}
    Users = {u1}
    Owner <- OneUser
    Workers = {w1}
    Allowance = 2
    Cap = 0
    MaxRetries = 1
    Patient = FALSE
    UserOps = {}
    FaultKinds = {}
    MaxFaults = 0
PROPERTIES
    RefusalIsFinal
\* The system may come to rest: every message settled, no request open.
CHECK_DEADLOCK FALSE

SPECIFICATION Spec
CONSTANTS
    u1 = u1
    m1 = m1
    m2 = m2
    NoJob = NoJob
    Messages = {m1, m2}
    Users = {u1}
    Owner <- OneUser
    Workers = {w1}
    Allowance = 1
    Cap = 1
    MaxRetries = 0
    Patient = FALSE
    UserOps = {}
    FaultKinds = {}
    MaxFaults = 0
SYMMETRY Symmetry
INVARIANTS
    ResultsBounded
\* The system may come to rest: every message settled, no request open.
CHECK_DEADLOCK FALSE

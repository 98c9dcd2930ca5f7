SPECIFICATION RunSpec
CONSTANTS
    u1 = u1
    m1 = m1
    m2 = m2
    NoJob = NoJob
    NoRow = NoRow
    Messages = {m1}
    Users = {u1}
    Owner <- OneUser
    Workers = {w1}
    Allowance = 1
    Cap = 1
    MaxRetries = 0
    Patient = FALSE
    UserOps = {}
    FaultKinds = {}
    MaxFaults = 0
    Predicted = {"rejection"}
    MayRing = FALSE
    CallLimit = 6
INVARIANT NothingHollow
CHECK_DEADLOCK FALSE

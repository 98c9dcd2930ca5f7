SPECIFICATION PageSpec
CONSTANTS
    u1 = u1
    m1 = m1
    m2 = m2
    NoJob = NoJob
    NoPage = NoPage
    Messages = {m1}
    Users = {u1}
    Owner <- OneUser
    Workers = {w1}
    Allowance = 1
    Cap = 1
    MaxRetries = 0
    Patient = TRUE
    UserOps = {"archive"}
    FaultKinds = {}
    MaxFaults = 0
    Paged = {m1}
    MaxPolls = 2
PROPERTY StillAnalyzingTrue
CHECK_DEADLOCK FALSE

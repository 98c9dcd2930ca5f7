SPECIFICATION Spec
CONSTANTS
    NoJob = NoJob
    Kinds = {"verify"}
    Workers = {w1}
    MaxRetries = 0
    MaxRequests = 2
    FaultKinds = {}
    MaxFaults = 0
INVARIANTS
    VerifiedKeepsNoToken
\* The system may come to rest: every request answered.
CHECK_DEADLOCK FALSE

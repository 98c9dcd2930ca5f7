SPECIFICATION Spec
CONSTANTS
    NoJob = NoJob
    Kinds = {"reset"}
    Workers = {w1}
    MaxRetries = 0
    MaxRequests = 2
    FaultKinds = {}
    MaxFaults = 0
PROPERTIES
    EarlierLinksFail
\* The system may come to rest: every request answered.
CHECK_DEADLOCK FALSE

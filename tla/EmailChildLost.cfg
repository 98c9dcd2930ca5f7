SPECIFICATION FairSpec
CONSTANTS
    NoJob = NoJob
    Kinds = {"verify"}
    Workers = {w1}
    MaxRetries = 0
    MaxRequests = 1
    FaultKinds = {"child"}
    MaxFaults = 1
PROPERTIES
    NoRequestForgotten
\* The system may come to rest: every request answered.
CHECK_DEADLOCK FALSE

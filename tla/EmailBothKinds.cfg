SPECIFICATION FairSpec
CONSTANTS
    NoJob = NoJob
    Kinds = {"verify", "reset"}
    Workers = {w1}
    MaxRetries = 1
    MaxRequests = 2
    FaultKinds = {"child", "worker", "duplicate", "broker", "transient",
                  "unsure", "permanent", "dberror"}
    MaxFaults = 2
INVARIANTS
    TypeOK
    StoredWasMailed
    OnlyOverlapSwaps
PROPERTIES
    Answered
\* The system may come to rest: every request answered.
CHECK_DEADLOCK FALSE

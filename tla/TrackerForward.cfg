SPECIFICATION Spec
CONSTANTS
    sender = sender
    None = None
    Messages = {m1, m2}
    Apps = {a1, a2}
    Names = {n1, n2}
    Fit <- SameCompany
    SenderOf <- OneSender
    Workers = {w1}
    UserOps = {"create", "delete", "message"}
SYMMETRY Symmetry
INVARIANTS
    EvidenceReflected
PROPERTIES
    LockedUntouched
\* The system may come to rest: every message handled, nothing left to do.
CHECK_DEADLOCK FALSE

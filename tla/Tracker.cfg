SPECIFICATION Spec
CONSTANTS
    sender = sender
    None = None
    Messages = {m1, m2}
    Apps = {a1}
    Names = {n1}
    Fit <- SameCompany
    SenderOf <- OneSender
    Workers = {w1, w2}
    UserOps = {"create", "edit", "status", "delete", "message", "dismiss"}
SYMMETRY Symmetry
INVARIANTS
    TypeOK
    LinkValid
    ToldOnce
\* The system may come to rest: every message handled, nothing left to do.
CHECK_DEADLOCK FALSE

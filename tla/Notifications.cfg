SPECIFICATION Spec
CONSTANTS
    NoCall = NoCall
    Ids = {1, 2, 3}
    Stamp <- Stamps
    PageSize = 1
    Calls = {c1, c2}
    MaxMutations = 1
SYMMETRY Symmetry
INVARIANTS
    TypeOK
    PageInOrder
    NothingSkipped
    BadgeCorrect

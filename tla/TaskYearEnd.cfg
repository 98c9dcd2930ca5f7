SPECIFICATION Spec
CONSTANTS
    m1 = m1
    m2 = m2
    Messages = {m1}
    Answers <- YearEndAnswers
    FirstDay <- NewYearsEve
    LastDay <- NewYear
    Limit = 2
INVARIANT YearEndRead
CHECK_DEADLOCK FALSE

SPECIFICATION Spec
CONSTANTS
    m1 = m1
    m2 = m2
    Messages = {m1, m2}
    Answers <- SomeAnswers
    FirstDay <- NewYearsEve
    LastDay <- NewYear
    Limit = 2
INVARIANTS
    TypeOK
    DueDatesHonest
    NoDoubleWork
    OverdueShown
\* The system comes to rest when everything is deleted.
CHECK_DEADLOCK FALSE

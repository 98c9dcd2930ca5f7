----------------------------- MODULE MCTaskPage -----------------------------
(* Constants of the model-checking runs of TaskPage: two days around the    *)
(* turn of a year, and answers with every kind of deadline.                 *)
EXTENDS TaskPage

CONSTANTS m1, m2

NewYearsEve == [year |-> 2027, month |-> 12, day |-> 31]
NewYear == Ordinal(2028, 1, 1)

Of(category, entries) == [category |-> category, raw |-> List(entries)]

\* 31 December 2027 is a Friday (4), 29 February 2028 a Tuesday (1).
SomeAnswers == {
    [category |-> "scheduling", raw |-> NoList],
    Of("interview_invitation",
       <<Item("reply", Stated(NoYear, 12, 31, 4)),
         Item("reply", Stated(NoYear, 12, 30, NoWeekday)),
         Item("research the company", Stated(NoYear, 12, 31, 3))>>),
    Of("offer",
       <<Unusable, Unusable, Unusable, Unusable,
         Item("sign", Stated(NoYear, 11, 10, NoWeekday)), Item("never reached", Vague)>>),
    Of("application_received",
       <<Item("call", Stated(NoYear, 2, 29, NoWeekday)), Item("visit", Stated(2027, 12, 31, 4))>>),
    Of("rejection", <<Item("return the badge", Stated(NoYear, 1, 1, NoWeekday)), Item("wait", Absent)>>)}

\* A deadline of yesterday, when the email is pasted on New Year's Day.
YearEndAnswers ==
    {Of("application_received", <<Item("reply", Stated(NoYear, 12, 31, NoWeekday))>>)}
=============================================================================

------------------------------ MODULE TaskPage ------------------------------
(***************************************************************************)
(* The tasks of one user: generated when a message is analysed, shown on   *)
(* the tasks page and the dashboard, toggled, deleted, hidden with their   *)
(* message, while the days pass and deadlines with them.                   *)
(*                                                                         *)
(* Each request is one transaction, but for the toggle: it reads the row   *)
(* and writes the opposite later.  One toggle is under way at a time.      *)
(***************************************************************************)
EXTENDS TaskRules

CONSTANTS
    Messages,  \* message ids
    Answers,   \* what an analysis may find: a category and an extraction
    FirstDay,  \* the day the behaviour begins
    LastDay,   \* bound: the day it ends
    Limit      \* tasks the dashboard lists (8)

\* The days of the server's calendar.
Days == [year : Nat \ {0}, month : 1..12, day : 1..31]

\* An item the backend can use has an action; its deadline, if any, is stated.
AnswerOK(answer) ==
    /\ answer.raw.list \in BOOLEAN
    /\ answer.raw.list => \A i \in DOMAIN answer.raw.entries :
          LET entry == answer.raw.entries[i]
          IN i \in Nat \ {0} /\ (entry.usable => entry.due \in Deadlines)

ASSUME TaskConstantsOK ==
    /\ IsFiniteSet(Messages) /\ \A answer \in Answers : AnswerOK(answer)
    /\ FirstDay \in Days /\ IsDate(FirstDay.year, FirstDay.month, FirstDay.day)
    /\ LastDay \in Nat /\ Limit \in Nat \ {0}

VARIABLES
    box,     \* where each message is
    pasted,  \* messages.created_at: the day each message was pasted
    task,    \* the rows of the tasks table, by message and position
    age,     \* created_at of a message's tasks: how many messages came before
    click,   \* the toggle under way, if any, and what it is going to write
    today

vars == <<box, pasted, task, age, click, today>>

Ids == Messages \X (1..MAX_TASKS_PER_MESSAGE)
NoClick == [done |-> FALSE]

-----------------------------------------------------------------------------
(* Pages                                                                   *)

\* Both pages leave out the tasks of archived messages.
Listed(id) == box[id[1]] # "archived"

\* Task.is_overdue: calendar days, not instants.
Overdue(id) == /\ task[id].due # NoDate /\ ~task[id].done
               /\ task[id].due < Today(today)

MutFirst(a, b) ==
    \/ age[a[1]] > age[b[1]]
    \/ age[a[1]] = age[b[1]] /\ a[2] > b[2]
\* ORDER BY due_date IS NULL, due_date, created_at DESC.
First(a, b) ==
    LET dated(id) == task[id].due # NoDate
    IN \/ dated(a) /\ ~dated(b)
       \/ dated(a) /\ dated(b) /\ task[a].due < task[b].due
       \/ /\ task[a].due = task[b].due
          /\ \/ age[a[1]] > age[b[1]]
             \/ age[a[1]] = age[b[1]] /\ a[2] > b[2]

Open == {id \in DOMAIN task : Listed(id) /\ ~task[id].done}

\* incomplete_tasks_list: those with fewer than Limit tasks before them.
Dashboard == {id \in Open : Cardinality({o \in Open \ {id} : First(o, id)}) < Limit}

-----------------------------------------------------------------------------
(* Requests and time                                                       *)

Paste(m) ==
    /\ box[m] = "absent"
    /\ box' = [box EXCEPT ![m] = "pending"]
    /\ pasted' = [pasted EXCEPT ![m] = today]
    /\ UNCHANGED <<task, age, click, today>>

\* The analysis commits, maybe on a later day: its tasks with it.
Analyze(m, answer) ==
    LET new == BuildTasks(answer.category, answer.raw, pasted[m])
        ids == {m} \X DOMAIN new
    IN /\ box[m] = "pending"
       /\ box' = [box EXCEPT ![m] = "completed"]
       /\ task' = [id \in DOMAIN task \cup ids |->
                      IF id \in ids THEN new[id[2]] ELSE task[id]]
       /\ age' = [age EXCEPT ![m] =
                     Cardinality({o \in Messages : box[o] \notin {"absent", "pending"}})]
       /\ UNCHANGED <<pasted, click, today>>

\* toggle_task: the row is read ...
ToggleRead(id) ==
    /\ id \in DOMAIN task
    /\ click = NoClick
    /\ click' = [id |-> id, done |-> ~task[id].done]
    /\ UNCHANGED <<box, pasted, task, age, today>>

\* ... and its opposite written, unless the row is gone.
ToggleCommit ==
    /\ click # NoClick
    /\ task' = IF click.id \in DOMAIN task
               THEN [task EXCEPT ![click.id].done = click.done]
               ELSE task
    /\ click' = NoClick
    /\ UNCHANGED <<box, pasted, age, today>>

MutDrop(ids) == UNCHANGED task
\* Rows leave the table.
Drop(ids) == task' = [id \in DOMAIN task \ ids |-> task[id]]

\* delete_task
DeleteTask(id) ==
    /\ id \in DOMAIN task
    /\ Drop({id})
    /\ UNCHANGED <<box, pasted, age, click, today>>

\* archive_message
Archive(m) ==
    /\ box[m] = "completed"
    /\ box' = [box EXCEPT ![m] = "archived"]
    /\ UNCHANGED <<pasted, task, age, click, today>>

\* unarchive_message
Restore(m) ==
    /\ box[m] = "archived"
    /\ box' = [box EXCEPT ![m] = "completed"]
    /\ UNCHANGED <<pasted, task, age, click, today>>

\* delete_message takes the tasks along.
DeleteMessage(m) ==
    /\ box[m] \in {"completed", "archived"}
    /\ box' = [box EXCEPT ![m] = "deleted"]
    /\ Drop({m} \X (1..MAX_TASKS_PER_MESSAGE))
    /\ UNCHANGED <<pasted, age, click, today>>

Tomorrow ==
    IF today.day < MonthLength(today.year, today.month)
    THEN [today EXCEPT !.day = @ + 1]
    ELSE IF today.month < 12
    THEN [today EXCEPT !.month = @ + 1, !.day = 1]
    ELSE [year |-> today.year + 1, month |-> 1, day |-> 1]

DayPasses ==
    /\ Today(today) < LastDay
    /\ today' = Tomorrow
    /\ UNCHANGED <<box, pasted, task, age, click>>

Init ==
    /\ box = [m \in Messages |-> "absent"]
    /\ pasted = [m \in Messages |-> FirstDay]
    /\ task = <<>>
    /\ age = [m \in Messages |-> 0]
    /\ click = NoClick
    /\ today = FirstDay

Next ==
    \/ \E m \in Messages :
          \/ Paste(m) \/ Archive(m) \/ Restore(m) \/ DeleteMessage(m)
          \/ \E answer \in Answers : Analyze(m, answer)
    \/ \E id \in Ids : ToggleRead(id) \/ DeleteTask(id)
    \/ ToggleCommit
    \/ DayPasses

Spec == Init /\ [][Next]_vars

-----------------------------------------------------------------------------
(* Properties                                                              *)

\* A task has a message that was analysed and still exists, the columns keep
\* to their values, and a date comes from a stated deadline only.
TypeOK ==
    /\ box \in [Messages -> {"absent", "pending", "completed", "archived", "deleted"}]
    /\ DOMAIN task \subseteq Ids
    /\ \A id \in DOMAIN task :
          /\ box[id[1]] \in {"completed", "archived"}
          /\ task[id].done \in BOOLEAN
          /\ task[id].due \in Nat
          /\ task[id].origin \in {"email", "response", "standing"}
          /\ task[id].priority \in {"high", "medium"}
          /\ task[id].due # NoDate => task[id].stated.kind = "date"
    /\ age \in [Messages -> 0..Cardinality(Messages)]
    /\ click \in [id : Ids, done : BOOLEAN] \cup {NoClick}
    /\ today \in Days /\ IsDate(today.year, today.month, today.day)

\* A due date is a day that agrees with everything its email states: day,
\* month, weekday and year; where the email states no year, the date is in
\* the year of the paste and at most the grace period behind it ("a NULL
\* due_date renders as no date, while a wrong one silently misinforms",
\* _parse_due_date).
DueDatesHonest ==
    \A id \in DOMAIN task : task[id].due # NoDate =>
        LET t == task[id].stated
            on == pasted[id[1]]
            year == IF t.year = NoYear THEN on.year ELSE t.year
        IN /\ IsDate(year, t.month, t.day)
           /\ task[id].due = Ordinal(year, t.month, t.day)
           /\ t.weekday # NoWeekday => Weekday(task[id].due) = t.weekday
           /\ t.year = NoYear =>
                 Today(on) <= task[id].due + DUE_DATE_BACKWARD_GRACE_DAYS

\* No work is listed twice: the tasks of a message have different names, and
\* a response default never joins an action the email itself asked for.
NoDoubleWork ==
    \A a, b \in DOMAIN task : a[1] = b[1] /\ a # b =>
        /\ task[a].name # task[b].name
        /\ ~(task[a].origin = "email" /\ task[b].origin = "response")

\* The dashboard shows what is overdue: a listed task that is not overdue
\* never crowds out one that is, whatever was toggled, archived, restored or
\* analysed late ("Overdue and soonest-due first", dashboard.index).
OverdueShown ==
    \A id \in Open : Overdue(id) /\ id \notin Dashboard =>
        \A o \in Dashboard : Overdue(o)

\* A year-less deadline is not read "as one eleven months out - a confident
\* wrong date" (_parse_due_date).
YearEndRead ==
    \A id \in DOMAIN task :
        task[id].due # NoDate /\ task[id].stated.year = NoYear
            => task[id].due - Today(pasted[id[1]]) <= 330
=============================================================================

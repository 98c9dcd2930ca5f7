------------------------------ MODULE TaskRules ------------------------------
(***************************************************************************)
(* What the backend makes of the action items a model extracted from an    *)
(* email: the coercion of the answer, the parsing of stated deadlines, and *)
(* the tasks that result, together with the defaults of the category.      *)
(*                                                                         *)
(* A date is its proleptic Gregorian ordinal, as date.toordinal has it; a  *)
(* task's due date is a day (the noon the code stores is an anchor).       *)
(* Names stand for what is left of them after strip and lower.  A list     *)
(* some entries are dropped from keeps the positions of the others: only   *)
(* their order means something.                                            *)
(***************************************************************************)
EXTENDS Integers, Sequences, FiniteSets, Functions

-----------------------------------------------------------------------------
(* The calendar of the datetime module                                     *)

Leap(y) == y % 4 = 0 /\ (y % 100 # 0 \/ y % 400 = 0)

MonthLength(y, m) == CASE m = 2 -> IF Leap(y) THEN 29 ELSE 28
                       [] m \in {4, 6, 9, 11} -> 30
                       [] OTHER -> 31

IsDate(y, m, d) == m \in 1..12 /\ d \in 1..MonthLength(y, m)

\* Days of the year before month m.
Before(y, m) == <<0, 31, 59, 90, 120, 151, 181, 212, 243, 273, 304, 334>>[m]
                    + (IF m > 2 /\ Leap(y) THEN 1 ELSE 0)

Ordinal(y, m, d) ==
    365 * (y - 1) + (y - 1) \div 4 - (y - 1) \div 100 + (y - 1) \div 400
        + Before(y, m) + d

\* 0 is Monday.
Weekday(day) == (day + 6) % 7

-----------------------------------------------------------------------------
(* Deadlines                                                               *)

NoYear == 0
NoWeekday == 7
NoDate == 0

Absent == [kind |-> "none"]  \* no deadline stated
Vague == [kind |-> "vague"]  \* relative, slashed, a bare weekday: no format fits
Stated(y, m, d, weekday) ==
    [kind |-> "date", year |-> y, month |-> m, day |-> d, weekday |-> weekday]
Deadlines == {Absent, Vague} \cup
    [kind : {"date"}, year : Nat, month : Nat, day : Nat, weekday : 0..NoWeekday]

DUE_DATE_BACKWARD_GRACE_DAYS == 45

\* strptime accepts the words as a date; without %Y it tries 1900.
Parses(t) == /\ t.kind = "date"
             /\ IsDate(IF t.year = NoYear THEN 1900 ELSE t.year, t.month, t.day)

\* A missing year is that of the day the email was pasted.
Resolved(t, pasted) ==
    Ordinal(IF t.year = NoYear THEN pasted.year ELSE t.year, t.month, t.day)

Today(pasted) == Ordinal(pasted.year, pasted.month, pasted.day)

TooOld(t, pasted) ==
    t.year = NoYear
        /\ Today(pasted) - Resolved(t, pasted) > DUE_DATE_BACKWARD_GRACE_DAYS

MutContradicts(t, pasted) == FALSE
Contradicts(t, pasted) ==
    t.weekday # NoWeekday /\ Weekday(Resolved(t, pasted)) # t.weekday

\* _parse_due_date: a date, or none rather than a guess.
ParseDueDate(t, pasted) ==
    IF Parses(t) /\ ~TooOld(t, pasted) /\ ~Contradicts(t, pasted)
    THEN Resolved(t, pasted) ELSE NoDate

-----------------------------------------------------------------------------
(* Action items                                                            *)

MAX_ACTION_ITEMS == 5
MAX_TASKS_PER_MESSAGE == 8

Unusable == [usable |-> FALSE]  \* no object, or no action in it
Item(action, due) == [usable |-> TRUE, action |-> action, due |-> due]

NoList == [list |-> FALSE]      \* the model gave something else
List(entries) == [list |-> TRUE, entries |-> entries]

\* _coerce_action_items: what is not a list is empty; the first entries are
\* taken before the unusable among them are dropped.
CoerceActionItems(raw) ==
    IF ~raw.list THEN <<>>
    ELSE Restrict(raw.entries, {i \in DOMAIN raw.entries :
                                   i <= MAX_ACTION_ITEMS /\ raw.entries[i].usable})

Actions(items) == {items[i].action : i \in DOMAIN items}

\* "models repeat themselves": the first of equal actions is kept.
Distinct(items) ==
    Restrict(items, {i \in DOMAIN items : \A j \in DOMAIN items :
                        j < i => items[j].action # items[i].action})

-----------------------------------------------------------------------------
(* Tasks                                                                   *)

Rule(name, kind, priority) == [name |-> name, kind |-> kind, priority |-> priority]

\* TASK_RULES; a category that is not in the table has no defaults.
TASK_RULES(category) ==
    CASE category = "interview_invitation" ->
            <<Rule("confirm interview schedule", "response", "high"),
              Rule("research the company", "standing", "high"),
              Rule("prepare role-specific topics", "standing", "medium")>>
      [] category = "offer" ->
            <<Rule("review the offer details", "standing", "high"),
              Rule("respond by the deadline", "response", "high"),
              Rule("research compensation benchmarks", "standing", "medium")>>
      [] category = "scheduling" ->
            <<Rule("confirm the new interview time", "response", "high"),
              Rule("update your calendar", "standing", "medium")>>
      [] OTHER -> <<>>

FromEmail(item, pasted) ==
    [done |-> FALSE, name |-> item.action, origin |-> "email", stated |-> item.due,
     due |-> ParseDueDate(item.due, pasted),
     priority |-> IF item.due = Absent THEN "medium" ELSE "high"]

FromRule(rule) ==
    [done |-> FALSE, name |-> rule.name, origin |-> rule.kind, stated |-> Absent,
     due |-> NoDate, priority |-> rule.priority]

MutFires(rule, items) == rule.name \notin Actions(items)
\* A response default repeats what the email asked for; a standing one does
\* not, unless it has the very same name.
Fires(rule, items) == /\ rule.kind = "response" => DOMAIN items = {}
                      /\ rule.name \notin Actions(items)

\* _build_tasks: the email's actions first, then the defaults, then the cut.
BuildTasks(category, raw, pasted) ==
    LET items == Distinct(CoerceActionItems(raw))
        rules == TASK_RULES(category)
        fired == {k \in DOMAIN rules : Fires(rules[k], items)}
        all == [i \in DOMAIN items \cup {MAX_ACTION_ITEMS + k : k \in fired} |->
                   IF i \in DOMAIN items THEN FromEmail(items[i], pasted)
                   ELSE FromRule(rules[i - MAX_ACTION_ITEMS])]
    IN Restrict(all, {i \in DOMAIN all :
           Cardinality({j \in DOMAIN all : j < i}) < MAX_TASKS_PER_MESSAGE})
=============================================================================

--------------------------- MODULE TaskPageProofs ---------------------------
(***************************************************************************)
(* The tasks of a user, proved for any messages, answers and days: what an *)
(* answer makes of its deadlines and rows first, then what the requests    *)
(* and the days leave of that.                                             *)
(***************************************************************************)
EXTENDS TaskPage, FiniteSetTheorems, TLAPS

-----------------------------------------------------------------------------
(* The calendar                                                            *)

\* A month has at least 28 and at most 31 days, and is never shorter than in
\* 1900, the year strptime assumes.
LEMMA Months ==
    ASSUME NEW y \in Nat \ {0}, NEW m \in 1..12
    PROVE  /\ MonthLength(y, m) \in 28..31
           /\ MonthLength(1900, m) \in 28..31
           /\ MonthLength(1900, m) <= MonthLength(y, m)
<1>1. ~Leap(1900)
  BY DEF Leap
<1>2. m \in {4, 6, 9, 11} \/ m = 2 \/ (m # 2 /\ m \notin {4, 6, 9, 11})
  OBVIOUS
<1> QED BY <1>1, <1>2 DEF MonthLength

\* A date has its place in the count of days; none is day 0.
LEMMA Ordinals ==
    ASSUME NEW y \in Nat \ {0}, NEW m \in 1..12, NEW d \in 1..31
    PROVE  Ordinal(y, m, d) \in Nat \ {0}
<1>1. Before(y, m) \in Nat
  <2> DEFINE days == <<0, 31, 59, 90, 120, 151, 181, 212, 243, 273, 304, 334>>
  <2>1. days[m] \in Nat
    OBVIOUS
  <2> HIDE DEF days
  <2>2. (IF m > 2 /\ Leap(y) THEN 1 ELSE 0) \in Nat
    OBVIOUS
  <2>3. Before(y, m) = days[m] + (IF m > 2 /\ Leap(y) THEN 1 ELSE 0)
    BY DEF Before, days
  <2> QED BY <2>1, <2>2, <2>3
<1>2. (y - 1) \div 4 \in Nat /\ (y - 1) \div 100 \in Nat /\ (y - 1) \div 400 \in Nat
  OBVIOUS
<1>3. (y - 1) \div 100 <= (y - 1) \div 4
  OBVIOUS
<1> QED BY <1>1, <1>2, <1>3 DEF Ordinal

\* A valid date of a known year.
LEMMA Dated ==
    ASSUME NEW y \in Nat \ {0}, NEW m \in Nat, NEW d \in Nat, IsDate(y, m, d)
    PROVE  Ordinal(y, m, d) \in Nat \ {0}
<1>1. m \in 1..12 /\ d \in 1..MonthLength(y, m)
  BY DEF IsDate
<1>2. MonthLength(y, m) \in 28..31
  BY <1>1, Months
<1>3. d \in 1..31
  BY <1>1, <1>2
<1> QED BY <1>1, <1>3, Ordinals

LEMMA Todays ==
    ASSUME NEW on \in Days
    PROVE  Today(on) \in Nat
<1>1. on.year \in Nat \ {0} /\ on.month \in 1..12 /\ on.day \in 1..31
  BY DEF Days
<1> QED BY <1>1, Ordinals DEF Today

-----------------------------------------------------------------------------
(* What an answer becomes                                                  *)

\* What DueDatesHonest says of one due date.
Honest(due, t, on) ==
    LET year == IF t.year = NoYear THEN on.year ELSE t.year
    IN /\ IsDate(year, t.month, t.day)
       /\ due = Ordinal(year, t.month, t.day)
       /\ t.weekday # NoWeekday => Weekday(due) = t.weekday
       /\ t.year = NoYear => Today(on) <= due + DUE_DATE_BACKWARD_GRACE_DAYS

\* _parse_due_date returns no date or an honest one.
LEMMA Parsed ==
    ASSUME NEW t \in Deadlines, NEW on \in Days
    PROVE  /\ ParseDueDate(t, on) \in Nat
           /\ ParseDueDate(t, on) # NoDate =>
                 t.kind = "date" /\ Honest(ParseDueDate(t, on), t, on)
<1> DEFINE year == IF t.year = NoYear THEN on.year ELSE t.year
           due == ParseDueDate(t, on)
<1>0. CASE ~(Parses(t) /\ ~TooOld(t, on) /\ ~Contradicts(t, on))
  <2>1. due = NoDate
    BY <1>0 DEF ParseDueDate
  <2> QED BY <2>1 DEF NoDate
<1>1. CASE Parses(t) /\ ~TooOld(t, on) /\ ~Contradicts(t, on)
  <2>1. due = Resolved(t, on) /\ Resolved(t, on) = Ordinal(year, t.month, t.day)
    BY <1>1 DEF ParseDueDate, Resolved
  <2>2. t.kind = "date" /\ IsDate(IF t.year = NoYear THEN 1900 ELSE t.year, t.month, t.day)
    BY <1>1 DEF Parses
  <2>3. t.year \in Nat /\ t.month \in Nat /\ t.day \in Nat
    BY <2>2 DEF Deadlines, Absent, Vague
  <2>4. on.year \in Nat \ {0}
    BY DEF Days
  <2>5. year \in Nat \ {0}
    BY <2>3, <2>4 DEF NoYear
  <2>6. IsDate(year, t.month, t.day)
    <3>1. CASE t.year = NoYear
      <4>1. t.month \in 1..12 /\ t.day \in 1..MonthLength(1900, t.month)
        BY <2>2, <3>1 DEF IsDate
      <4>2. /\ MonthLength(year, t.month) \in 28..31
            /\ MonthLength(1900, t.month) \in 28..31
            /\ MonthLength(1900, t.month) <= MonthLength(year, t.month)
        BY <4>1, <2>5, Months
      <4>3. t.day \in 1..MonthLength(year, t.month)
        BY <4>1, <4>2
      <4> QED BY <4>1, <4>3 DEF IsDate
    <3>2. CASE t.year # NoYear
      BY <2>2, <3>2
    <3> QED BY <3>1, <3>2
  <2>7. Ordinal(year, t.month, t.day) \in Nat \ {0}
    BY <2>3, <2>5, <2>6, Dated
  <2>8. Today(on) \in Nat
    BY Todays
  <2> HIDE DEF due, year
  <2>9. t.weekday # NoWeekday => Weekday(due) = t.weekday
    BY <1>1, <2>1 DEF Contradicts
  <2>10. t.year = NoYear => Today(on) <= due + DUE_DATE_BACKWARD_GRACE_DAYS
    BY <1>1, <2>1, <2>7, <2>8 DEF TooOld, DUE_DATE_BACKWARD_GRACE_DAYS
  <2>11. Honest(due, t, on)
    BY <2>1, <2>6, <2>9, <2>10 DEF Honest, year
  <2> QED BY <2>1, <2>2, <2>7, <2>11 DEF due
<1> QED BY <1>0, <1>1

\* The items of an answer: at most five, each with a deadline, no two the
\* same action.
LEMMA Items ==
    ASSUME NEW answer, AnswerOK(answer)
    PROVE  LET items == Distinct(CoerceActionItems(answer.raw))
           IN /\ DOMAIN items \subseteq 1..MAX_ACTION_ITEMS
              /\ \A i \in DOMAIN items : items[i].due \in Deadlines
              /\ \A i, j \in DOMAIN items : i # j => items[i].action # items[j].action
<1> DEFINE raw == answer.raw
           coerced == CoerceActionItems(raw)
           items == Distinct(coerced)
<1>1. /\ DOMAIN coerced \subseteq 1..MAX_ACTION_ITEMS
      /\ \A i \in DOMAIN coerced : coerced[i].due \in Deadlines
  <2>1. CASE ~raw.list
    <3>1. coerced = <<>>
      BY <2>1 DEF CoerceActionItems
    <3> QED BY <3>1
  <2>2. CASE raw.list
    <3> DEFINE kept == {i \in DOMAIN raw.entries :
                           i <= MAX_ACTION_ITEMS /\ raw.entries[i].usable}
    <3>1. coerced = [i \in kept |-> raw.entries[i]]
      BY <2>2 DEF CoerceActionItems, Restrict
    <3>2. \A i \in kept : i \in 1..MAX_ACTION_ITEMS /\ raw.entries[i].due \in Deadlines
      BY <2>2 DEF AnswerOK, MAX_ACTION_ITEMS
    <3> HIDE DEF kept, coerced
    <3> QED BY <3>1, <3>2
  <2> QED BY <2>1, <2>2
<1> HIDE DEF coerced
<1> DEFINE first == {i \in DOMAIN coerced : \A j \in DOMAIN coerced :
                        j < i => coerced[j].action # coerced[i].action}
<1>2. items = [i \in first |-> coerced[i]]
  BY DEF Distinct, Restrict
<1>3. first \subseteq DOMAIN coerced
  OBVIOUS
<1>4. \A i, j \in first : i # j => coerced[i].action # coerced[j].action
  <2>1. SUFFICES ASSUME NEW i \in first, NEW j \in first, i # j
                 PROVE  coerced[i].action # coerced[j].action
    OBVIOUS
  <2>2. i < j \/ j < i
    BY <1>1, <1>3, <2>1 DEF MAX_ACTION_ITEMS
  <2> QED BY <2>1, <2>2
<1> HIDE DEF items, first
<1>5. /\ DOMAIN items \subseteq 1..MAX_ACTION_ITEMS
      /\ \A i \in DOMAIN items : items[i].due \in Deadlines
      /\ \A i, j \in DOMAIN items : i # j => items[i].action # items[j].action
  BY <1>1, <1>2, <1>3, <1>4
<1> QED BY <1>5 DEF items, coerced, raw

\* The defaults of a category: at most three, with different names.
RuleOK(rule) == /\ rule.kind \in {"response", "standing"}
                /\ rule.priority \in {"high", "medium"}
TableOK(rules) ==
    /\ DOMAIN rules \subseteq 1..3
    /\ \A k \in DOMAIN rules : RuleOK(rules[k])
    /\ \A k, l \in DOMAIN rules : k # l => rules[k].name # rules[l].name

LEMMA Rules ==
    ASSUME NEW category
    PROVE  TableOK(TASK_RULES(category))
<1>1. CASE category = "interview_invitation"
  <2> DEFINE a == Rule("confirm interview schedule", "response", "high")
             b == Rule("research the company", "standing", "high")
             c == Rule("prepare role-specific topics", "standing", "medium")
  <2>1. TASK_RULES(category) = <<a, b, c>>
    BY <1>1, Zenon DEF TASK_RULES
  <2>2. /\ RuleOK(a)
        /\ RuleOK(b)
        /\ RuleOK(c)
        /\ a.name # b.name /\ a.name # c.name /\ b.name # c.name
    BY DEF Rule, RuleOK
  <2> HIDE DEF a, b, c
  <2>3. TableOK(<<a, b, c>>)
    BY <2>2 DEF TableOK
  <2> QED BY <2>1, <2>3
<1>2. CASE category = "offer"
  <2> DEFINE a == Rule("review the offer details", "standing", "high")
             b == Rule("respond by the deadline", "response", "high")
             c == Rule("research compensation benchmarks", "standing", "medium")
  <2>1. TASK_RULES(category) = <<a, b, c>>
    BY <1>2, Zenon DEF TASK_RULES
  <2>2. /\ RuleOK(a)
        /\ RuleOK(b)
        /\ RuleOK(c)
        /\ a.name # b.name /\ a.name # c.name /\ b.name # c.name
    BY DEF Rule, RuleOK
  <2> HIDE DEF a, b, c
  <2>3. TableOK(<<a, b, c>>)
    BY <2>2 DEF TableOK
  <2> QED BY <2>1, <2>3
<1>3. CASE category = "scheduling"
  <2> DEFINE a == Rule("confirm the new interview time", "response", "high")
             b == Rule("update your calendar", "standing", "medium")
  <2>1. TASK_RULES(category) = <<a, b>>
    BY <1>3, Zenon DEF TASK_RULES
  <2>2. /\ RuleOK(a)
        /\ RuleOK(b)
        /\ a.name # b.name
    BY DEF Rule, RuleOK
  <2> HIDE DEF a, b
  <2>3. TableOK(<<a, b>>)
    BY <2>2 DEF TableOK
  <2> QED BY <2>1, <2>3
<1>4. CASE category \notin {"interview_invitation", "offer", "scheduling"}
  <2>1. TASK_RULES(category) = <<>>
    BY <1>4 DEF TASK_RULES
  <2>2. TableOK(<<>>)
    BY DEF TableOK
  <2> QED BY <2>1, <2>2
<1> QED BY <1>1, <1>2, <1>3, <1>4

\* A row of the tasks table and what its columns may hold.
RowOK(r) ==
    /\ r = [done |-> r.done, name |-> r.name, origin |-> r.origin,
            stated |-> r.stated, due |-> r.due, priority |-> r.priority]
    /\ r.done \in BOOLEAN
    /\ r.due \in Nat
    /\ r.origin \in {"email", "response", "standing"}
    /\ r.priority \in {"high", "medium"}
    /\ r.due # NoDate => r.stated.kind = "date"

\* What NoDoubleWork says of two rows.
Apart(r, s) == r.name # s.name /\ ~(r.origin = "email" /\ s.origin = "response")

\* The rows of one analysis.
LEMMA Built ==
    ASSUME NEW answer, AnswerOK(answer), NEW on \in Days
    PROVE  LET new == BuildTasks(answer.category, answer.raw, on)
           IN /\ DOMAIN new \subseteq 1..MAX_TASKS_PER_MESSAGE
              /\ \A i \in DOMAIN new : /\ RowOK(new[i])
                                       /\ new[i].due # NoDate =>
                                             Honest(new[i].due, new[i].stated, on)
              /\ \A i, j \in DOMAIN new : i # j => Apart(new[i], new[j])
<1> DEFINE items == Distinct(CoerceActionItems(answer.raw))
           rules == TASK_RULES(answer.category)
           fired == {k \in DOMAIN rules : Fires(rules[k], items)}
           row(i) == IF i \in DOMAIN items THEN FromEmail(items[i], on)
                     ELSE FromRule(rules[i - MAX_ACTION_ITEMS])
           places == DOMAIN items \cup {MAX_ACTION_ITEMS + k : k \in fired}
           all == [i \in places |-> row(i)]
           kept == {i \in DOMAIN all :
                       Cardinality({j \in DOMAIN all : j < i}) < MAX_TASKS_PER_MESSAGE}
           new == BuildTasks(answer.category, answer.raw, on)
<1>1. new = [i \in kept |-> all[i]]
  BY DEF BuildTasks, Restrict
<1>2. /\ DOMAIN items \subseteq 1..MAX_ACTION_ITEMS
      /\ \A i \in DOMAIN items : items[i].due \in Deadlines
      /\ \A i, j \in DOMAIN items : i # j => items[i].action # items[j].action
  BY Items
<1>3. /\ DOMAIN rules \subseteq 1..3
      /\ \A k \in DOMAIN rules : RuleOK(rules[k])
      /\ \A k, l \in DOMAIN rules : k # l => rules[k].name # rules[l].name
  BY Rules DEF TableOK
<1> HIDE DEF items, rules
<1>4. /\ kept \subseteq places
      /\ \A i \in kept : all[i] = row(i)
  OBVIOUS
<1> HIDE DEF new, kept, all
<1>5. DOMAIN new = kept /\ \A i \in kept : new[i] = row(i)
  BY <1>1, <1>4
<1>6. \A i \in places : \/ i \in DOMAIN items
                        \/ /\ i \notin DOMAIN items /\ i - MAX_ACTION_ITEMS \in fired
                           /\ i \in 6..8
  BY <1>2, <1>3 DEF MAX_ACTION_ITEMS
<1>7. places \subseteq 1..MAX_TASKS_PER_MESSAGE
  BY <1>2, <1>6 DEF MAX_ACTION_ITEMS, MAX_TASKS_PER_MESSAGE
<1>8. ASSUME NEW i \in places
      PROVE  RowOK(row(i)) /\ (row(i).due # NoDate => Honest(row(i).due, row(i).stated, on))
  <2>1. CASE i \in DOMAIN items
    <3>1. row(i) = FromEmail(items[i], on)
      BY <2>1
    <3>2. /\ ParseDueDate(items[i].due, on) \in Nat
          /\ ParseDueDate(items[i].due, on) # NoDate =>
                /\ items[i].due.kind = "date"
                /\ Honest(ParseDueDate(items[i].due, on), items[i].due, on)
      BY <1>2, <2>1, Parsed
    <3> HIDE DEF row
    <3> QED BY <3>1, <3>2 DEF RowOK, FromEmail
  <2>2. CASE i \notin DOMAIN items
    <3>1. row(i) = FromRule(rules[i - MAX_ACTION_ITEMS])
      BY <2>2
    <3>2. i - MAX_ACTION_ITEMS \in DOMAIN rules
      BY <1>6, <2>2
    <3> DEFINE rule == rules[i - MAX_ACTION_ITEMS]
    <3>3. RuleOK(rule)
      BY <1>3, <3>2
    <3> HIDE DEF row, rule
    <3>4. row(i) = FromRule(rule)
      BY <3>1 DEF rule
    <3> QED BY <3>3, <3>4 DEF RowOK, FromRule, NoDate, RuleOK
  <2> QED BY <2>1, <2>2
<1>9. ASSUME NEW i \in places, NEW j \in places, i # j
      PROVE  Apart(row(i), row(j))
  <2>1. \A k \in DOMAIN items : /\ row(k).name = items[k].action
                                /\ row(k).origin = "email"
                                /\ items[k].action \in Actions(items)
    BY DEF FromEmail, Actions
  <2>2. ASSUME NEW k \in places, k \notin DOMAIN items
        PROVE  /\ k - MAX_ACTION_ITEMS \in DOMAIN rules
               /\ row(k).name = rules[k - MAX_ACTION_ITEMS].name
               /\ row(k).origin = rules[k - MAX_ACTION_ITEMS].kind
               /\ row(k).origin # "email"
               /\ row(k).name \notin Actions(items)
               /\ row(k).origin = "response" => DOMAIN items = {}
    <3>1. k - MAX_ACTION_ITEMS \in fired /\ row(k) = FromRule(rules[k - MAX_ACTION_ITEMS])
      BY <1>6, <2>2
    <3> DEFINE rule == rules[k - MAX_ACTION_ITEMS]
    <3>2. k - MAX_ACTION_ITEMS \in DOMAIN rules /\ Fires(rule, items)
      BY <3>1
    <3>3. rule.kind \in {"response", "standing"}
      BY <1>3, <3>2 DEF RuleOK
    <3> HIDE DEF row, rule
    <3>4. row(k).name = rule.name /\ row(k).origin = rule.kind
      BY <3>1 DEF FromRule, rule
    <3>5. rule.name \notin Actions(items) /\ (rule.kind = "response" => DOMAIN items = {})
      BY <3>2 DEF Fires
    <3>6. rule.kind # "email"
      BY <3>3
    <3> QED BY <3>2, <3>4, <3>5, <3>6 DEF rule
  <2>3. i \in Int /\ j \in Int
    BY <1>7 DEF MAX_TASKS_PER_MESSAGE
  <2> HIDE DEF row
  <2>4. CASE i \in DOMAIN items /\ j \in DOMAIN items
    BY <1>2, <1>9, <2>1, <2>4 DEF Apart
  <2>5. CASE i \in DOMAIN items /\ j \notin DOMAIN items
    BY <2>1, <2>2, <2>5 DEF Apart
  <2>6. CASE i \notin DOMAIN items /\ j \in DOMAIN items
    BY <2>1, <2>2, <2>6 DEF Apart
  <2>7. CASE i \notin DOMAIN items /\ j \notin DOMAIN items
    <3>1. i - MAX_ACTION_ITEMS # j - MAX_ACTION_ITEMS
      BY <1>9, <2>3 DEF MAX_ACTION_ITEMS
    <3> QED BY <1>3, <2>2, <2>7, <3>1 DEF Apart
  <2> QED BY <2>4, <2>5, <2>6, <2>7
<1> HIDE DEF row, places
<1>10. /\ DOMAIN new \subseteq 1..MAX_TASKS_PER_MESSAGE
       /\ \A i \in DOMAIN new : /\ RowOK(new[i])
                                /\ new[i].due # NoDate =>
                                      Honest(new[i].due, new[i].stated, on)
       /\ \A i, j \in DOMAIN new : i # j => Apart(new[i], new[j])
  BY <1>4, <1>5, <1>7, <1>8, <1>9
<1> QED BY <1>10 DEF new

-----------------------------------------------------------------------------
(* The rows through the requests                                           *)

\* The rows t of messages pasted on the days p: each with its columns and an
\* honest due date, no two of a message the same work.
Rows(t, p) ==
    /\ \A id \in DOMAIN t : /\ RowOK(t[id])
                            /\ t[id].due # NoDate =>
                                  Honest(t[id].due, t[id].stated, p[id[1]])
    /\ \A a, b \in DOMAIN t : a[1] = b[1] /\ a # b => Apart(t[a], t[b])

\* What every request keeps.  That a row's message was analysed and exists is
\* what makes an analysis find no rows of its message, and a paste no due
\* dates to falsify.
TaskInv ==
    /\ box \in [Messages -> {"absent", "pending", "completed", "archived", "deleted"}]
    /\ pasted \in [Messages -> Days]
    /\ DOMAIN task \subseteq Ids
    /\ \A id \in DOMAIN task : box[id[1]] \in {"completed", "archived"}
    /\ Rows(task, pasted)
    /\ age \in [Messages -> 0..Cardinality(Messages)]
    /\ click \in [id : Ids, done : BOOLEAN] \cup {NoClick}
    /\ today \in Days /\ IsDate(today.year, today.month, today.day)

\* It holds the invariants of the configuration Tasks but for OverdueShown,
\* which is about no row in particular.
LEMMA TaskInvImplies == TaskInv => TypeOK /\ DueDatesHonest /\ NoDoubleWork
<1> SUFFICES ASSUME TaskInv PROVE TypeOK /\ DueDatesHonest /\ NoDoubleWork
  OBVIOUS
<1>1. TypeOK
  BY DEF TaskInv, TypeOK, Rows, RowOK
<1>2. DueDatesHonest
  BY DEF TaskInv, DueDatesHonest, Rows, Honest
<1>3. NoDoubleWork
  BY DEF TaskInv, NoDoubleWork, Rows, Apart
<1> QED BY <1>1, <1>2, <1>3

\* Rows may go, be done or open again, and other messages be pasted.
LEMMA RowsKept ==
    ASSUME NEW t, NEW p, NEW u, NEW q, Rows(t, p), DOMAIN u \subseteq DOMAIN t,
           \A id \in DOMAIN u : /\ q[id[1]] = p[id[1]]
                                /\ u[id].done \in BOOLEAN
                                /\ u[id] = [t[id] EXCEPT !.done = u[id].done]
    PROVE  Rows(u, q)
<1>1. ASSUME NEW r, NEW s, RowOK(r), s.done \in BOOLEAN, s = [r EXCEPT !.done = s.done]
      PROVE  /\ RowOK(s) /\ s.due = r.due /\ s.stated = r.stated
             /\ s.name = r.name /\ s.origin = r.origin
  <2> DEFINE d == s.done
             row(b) == [done |-> b, name |-> r.name, origin |-> r.origin,
                        stated |-> r.stated, due |-> r.due, priority |-> r.priority]
  <2>1. r = row(r.done)
    BY <1>1 DEF RowOK
  <2>2. [row(r.done) EXCEPT !.done = d] = row(d)
    OBVIOUS
  <2>3. s = row(d)
    BY <1>1, <2>1, <2>2
  <2> QED BY <1>1, <2>3 DEF RowOK
<1>2. ASSUME NEW id \in DOMAIN u
      PROVE  /\ RowOK(u[id]) /\ u[id].due = t[id].due /\ u[id].stated = t[id].stated
             /\ u[id].name = t[id].name /\ u[id].origin = t[id].origin
             /\ id \in DOMAIN t
  <2>1. RowOK(t[id]) /\ id \in DOMAIN t
    BY DEF Rows
  <2> QED BY <1>1, <2>1
<1>3. \A id \in DOMAIN u : u[id].due # NoDate =>
         Honest(u[id].due, u[id].stated, q[id[1]])
  BY <1>2 DEF Rows
<1>4. \A a, b \in DOMAIN u : a[1] = b[1] /\ a # b => Apart(u[a], u[b])
  BY <1>2 DEF Rows, Apart
<1> QED BY <1>2, <1>3, <1>4 DEF Rows

\* The rows of a message that had none.
LEMMA RowsAdded ==
    ASSUME NEW t, NEW p, NEW new, NEW m \in Messages, Rows(t, p), DOMAIN t \subseteq Ids,
           \A id \in DOMAIN t : id[1] # m,
           DOMAIN new \subseteq 1..MAX_TASKS_PER_MESSAGE,
           \A i \in DOMAIN new : /\ RowOK(new[i])
                                 /\ new[i].due # NoDate =>
                                       Honest(new[i].due, new[i].stated, p[m]),
           \A i, j \in DOMAIN new : i # j => Apart(new[i], new[j])
    PROVE  LET ids == {m} \X DOMAIN new
           IN Rows([id \in DOMAIN t \cup ids |->
                       IF id \in ids THEN new[id[2]] ELSE t[id]], p)
<1> DEFINE ids == {m} \X DOMAIN new
           u == [id \in DOMAIN t \cup ids |-> IF id \in ids THEN new[id[2]] ELSE t[id]]
<1>1. \A id \in ids : /\ id[1] = m /\ id[2] \in DOMAIN new
                      /\ id = <<m, id[2]>> /\ u[id] = new[id[2]]
  OBVIOUS
<1>2. \A id \in DOMAIN t : id \notin ids /\ u[id] = t[id]
  OBVIOUS
<1>3. DOMAIN u = DOMAIN t \cup ids
  OBVIOUS
<1> HIDE DEF u, ids
<1>4. \A id \in DOMAIN u : /\ RowOK(u[id])
                           /\ u[id].due # NoDate =>
                                 Honest(u[id].due, u[id].stated, p[id[1]])
  BY <1>1, <1>2, <1>3 DEF Rows
<1>5. \A a, b \in DOMAIN u : a[1] = b[1] /\ a # b => Apart(u[a], u[b])
  <2>1. SUFFICES ASSUME NEW a \in DOMAIN u, NEW b \in DOMAIN u, a[1] = b[1], a # b
                 PROVE  Apart(u[a], u[b])
    OBVIOUS
  <2>2. CASE a \in ids
    <3>1. b \in ids
      BY <1>1, <1>3, <2>1, <2>2
    <3>2. a[2] # b[2]
      BY <1>1, <2>1, <2>2, <3>1
    <3> QED BY <1>1, <2>2, <3>1, <3>2
  <2>3. CASE a \notin ids
    <3>1. a \in DOMAIN t /\ b \in DOMAIN t
      BY <1>1, <1>3, <2>1, <2>3
    <3> QED BY <1>2, <2>1, <3>1 DEF Rows
  <2> QED BY <2>2, <2>3
<1>6. Rows(u, p)
  BY <1>4, <1>5 DEF Rows
<1> QED BY <1>6 DEF u, ids

\* The day after a date is a date.
LEMMA Tomorrows ==
    ASSUME today \in Days, IsDate(today.year, today.month, today.day)
    PROVE  Tomorrow \in Days /\ IsDate(Tomorrow.year, Tomorrow.month, Tomorrow.day)
<1> DEFINE y == today.year
           m == today.month
           d == today.day
<1>1. y \in Nat \ {0} /\ m \in 1..12 /\ d \in 1..31 /\ today = [year |-> y, month |-> m, day |-> d]
  BY DEF Days
<1>2. d \in 1..MonthLength(y, m)
  BY DEF IsDate
<1>3. /\ MonthLength(y, m) \in 28..31
      /\ m < 12 => MonthLength(y, m + 1) \in 28..31
      /\ MonthLength(y + 1, 1) \in 28..31
  BY <1>1, Months
<1> HIDE DEF y, m, d
<1>4. CASE d < MonthLength(y, m)
  <2>1. Tomorrow = [year |-> y, month |-> m, day |-> d + 1]
    BY <1>1, <1>4 DEF Tomorrow, y, m, d
  <2>2. d + 1 \in 1..31 /\ d + 1 <= MonthLength(y, m)
    BY <1>1, <1>3, <1>4
  <2> QED BY <1>1, <1>3, <2>1, <2>2 DEF Days, IsDate
<1>5. CASE ~(d < MonthLength(y, m)) /\ m < 12
  <2>1. Tomorrow = [year |-> y, month |-> m + 1, day |-> 1]
    BY <1>1, <1>5 DEF Tomorrow, y, m, d
  <2>2. m + 1 \in 1..12 /\ 1 <= MonthLength(y, m + 1)
    BY <1>1, <1>3, <1>5
  <2> QED BY <1>1, <1>3, <1>5, <2>1, <2>2 DEF Days, IsDate
<1>6. CASE ~(d < MonthLength(y, m)) /\ ~(m < 12)
  <2>1. Tomorrow = [year |-> y + 1, month |-> 1, day |-> 1]
    BY <1>1, <1>6 DEF Tomorrow, y, m, d
  <2>2. y + 1 \in Nat \ {0} /\ 1 <= MonthLength(y + 1, 1)
    BY <1>1, <1>3
  <2> QED BY <1>3, <2>1, <2>2 DEF Days, IsDate
<1> QED BY <1>4, <1>5, <1>6

-----------------------------------------------------------------------------
(* Every request and every day keeps TaskInv                               *)

LEMMA TaskInit == Init => TaskInv
<1> SUFFICES ASSUME Init PROVE TaskInv
  OBVIOUS
<1>1. Cardinality(Messages) \in Nat
  BY TaskConstantsOK, FS_CardinalityType
<1>2. DOMAIN task = {}
  BY DEF Init
<1>3. Rows(task, pasted)
  BY <1>2 DEF Rows
<1>4. age \in [Messages -> 0..Cardinality(Messages)]
  BY <1>1 DEF Init
<1>5. pasted \in [Messages -> Days]
      /\ today \in Days /\ IsDate(today.year, today.month, today.day)
  BY TaskConstantsOK DEF Init
<1> QED BY <1>2, <1>3, <1>4, <1>5 DEF Init, TaskInv

\* An id is of a message.
LEMMA IdParts == \A id \in Ids : id[1] \in Messages /\ id[2] \in 1..MAX_TASKS_PER_MESSAGE
BY DEF Ids

LEMMA PasteKeeps ==
    ASSUME TaskInv, NEW m \in Messages, Paste(m)
    PROVE  TaskInv'
<1>1. \A id \in DOMAIN task : id[1] \in Messages /\ id[1] # m
  BY IdParts DEF TaskInv, Paste
<1>2. \A id \in DOMAIN task : pasted'[id[1]] = pasted[id[1]]
  BY <1>1 DEF TaskInv, Paste
<1>3. \A id \in DOMAIN task : /\ task[id].done \in BOOLEAN
                              /\ task[id] = [task[id] EXCEPT !.done = task[id].done]
  BY DEF TaskInv, Rows, RowOK
<1>4. Rows(task, pasted)
  BY DEF TaskInv
<1>5. Rows(task, pasted')
  BY <1>2, <1>3, <1>4, RowsKept
<1>6. Rows(task', pasted')
  BY <1>5 DEF Paste
<1>7. \A id \in DOMAIN task' : box'[id[1]] \in {"completed", "archived"}
  BY <1>1 DEF TaskInv, Paste
<1>8. /\ box' \in [Messages -> {"absent", "pending", "completed", "archived", "deleted"}]
      /\ pasted' \in [Messages -> Days]
  BY DEF TaskInv, Paste
<1> QED BY <1>6, <1>7, <1>8 DEF TaskInv, Paste

LEMMA AnalyzeKeeps ==
    ASSUME TaskInv, NEW m \in Messages, NEW answer \in Answers, Analyze(m, answer)
    PROVE  TaskInv'
<1> DEFINE new == BuildTasks(answer.category, answer.raw, pasted[m])
           ids == {m} \X DOMAIN new
           u == [id \in DOMAIN task \cup ids |->
                    IF id \in ids THEN new[id[2]] ELSE task[id]]
<1>1. task' = u /\ pasted' = pasted /\ box' = [box EXCEPT ![m] = "completed"]
  BY DEF Analyze
<1>2. pasted[m] \in Days
  BY DEF TaskInv
<1>3. AnswerOK(answer)
  BY TaskConstantsOK
<1>4. /\ DOMAIN new \subseteq 1..MAX_TASKS_PER_MESSAGE
      /\ \A i \in DOMAIN new : /\ RowOK(new[i])
                               /\ new[i].due # NoDate =>
                                     Honest(new[i].due, new[i].stated, pasted[m])
      /\ \A i, j \in DOMAIN new : i # j => Apart(new[i], new[j])
  BY <1>2, <1>3, Built
<1> HIDE DEF new
<1>5. \A id \in DOMAIN task : id[1] \in Messages /\ id[1] # m
  BY IdParts DEF TaskInv, Analyze
<1>6. Rows(task, pasted) /\ DOMAIN task \subseteq Ids
  BY DEF TaskInv
<1>7. Rows(u, pasted)
  BY <1>4, <1>5, <1>6, RowsAdded
<1>8. Rows(task', pasted')
  BY <1>1, <1>7
<1>9. DOMAIN u = DOMAIN task \cup ids
  OBVIOUS
<1>10. ids \subseteq Ids /\ \A id \in ids : id[1] = m
  BY <1>4 DEF Ids
<1>11. DOMAIN task' \subseteq Ids
  BY <1>1, <1>6, <1>9, <1>10
<1>12. \A id \in DOMAIN task' : box'[id[1]] \in {"completed", "archived"}
  <2> HIDE DEF u, ids
  <2>1. \A id \in DOMAIN task : box[id[1]] \in {"completed", "archived"}
    BY DEF TaskInv
  <2>2. box'[m] = "completed" /\ \A o \in Messages : o # m => box'[o] = box[o]
    BY <1>1 DEF TaskInv
  <2> QED BY <1>1, <1>5, <1>9, <1>10, <2>1, <2>2
<1>13. age' \in [Messages -> 0..Cardinality(Messages)]
  <2> DEFINE seen == {o \in Messages : box[o] \notin {"absent", "pending"}}
  <2>1. IsFiniteSet(Messages) /\ Cardinality(Messages) \in Nat
    BY TaskConstantsOK, FS_CardinalityType
  <2>2. IsFiniteSet(seen) /\ Cardinality(seen) <= Cardinality(Messages)
    BY <2>1, FS_Subset
  <2>3. Cardinality(seen) \in 0..Cardinality(Messages)
    BY <2>1, <2>2, FS_CardinalityType
  <2>4. age' = [age EXCEPT ![m] = Cardinality(seen)]
    BY DEF Analyze
  <2> HIDE DEF seen
  <2> QED BY <2>3, <2>4 DEF TaskInv
<1>14. box' \in [Messages -> {"absent", "pending", "completed", "archived", "deleted"}]
  BY <1>1 DEF TaskInv
<1>15. UNCHANGED <<pasted, click, today>>
  BY DEF Analyze
<1> QED BY <1>8, <1>11, <1>12, <1>13, <1>14, <1>15 DEF TaskInv

LEMMA ToggleReadKeeps ==
    ASSUME TaskInv, NEW id \in Ids, ToggleRead(id)
    PROVE  TaskInv'
<1>1. click' \in [id : Ids, done : BOOLEAN]
  <2>1. task[id].done \in BOOLEAN
    BY DEF TaskInv, Rows, RowOK, ToggleRead
  <2>2. (~task[id].done) \in BOOLEAN
    OBVIOUS
  <2>3. \A b \in BOOLEAN : [id |-> id, done |-> b] \in [id : Ids, done : BOOLEAN]
    OBVIOUS
  <2> QED BY <2>2, <2>3, Zenon DEF ToggleRead
<1> QED BY <1>1 DEF TaskInv, ToggleRead

LEMMA ToggleCommitKeeps ==
    ASSUME TaskInv, ToggleCommit
    PROVE  TaskInv'
<1>1. UNCHANGED <<box, pasted, age, today>> /\ click' = NoClick
  BY DEF ToggleCommit
<1>2. click.id \in Ids /\ click.done \in BOOLEAN
  BY DEF TaskInv, ToggleCommit
<1>3. Rows(task, pasted)
  BY DEF TaskInv
<1>4. \A id \in DOMAIN task : /\ task[id].done \in BOOLEAN
                              /\ task[id] = [task[id] EXCEPT !.done = task[id].done]
  BY DEF TaskInv, Rows, RowOK
<1>5. DOMAIN task' = DOMAIN task
  BY DEF ToggleCommit
<1>6. \A id \in DOMAIN task : /\ task'[id].done \in BOOLEAN
                              /\ task'[id] = [task[id] EXCEPT !.done = task'[id].done]
  <2>1. CASE click.id \in DOMAIN task
    <3> DEFINE r == task[click.id]
               s == [r EXCEPT !.done = click.done]
    <3>1. task' = [task EXCEPT ![click.id] = s]
      BY <2>1 DEF ToggleCommit
    <3>2. s.done = click.done
      <4>1. r = [done |-> r.done, name |-> r.name, origin |-> r.origin,
                 stated |-> r.stated, due |-> r.due, priority |-> r.priority]
        BY <2>1 DEF TaskInv, Rows, RowOK
      <4> HIDE DEF r
      <4> QED BY <4>1
    <3>3. s = [r EXCEPT !.done = s.done]
      BY <3>2
    <3> HIDE DEF s
    <3>4. task'[click.id] = s /\ \A id \in DOMAIN task : id # click.id => task'[id] = task[id]
      BY <2>1, <3>1
    <3> QED BY <1>2, <1>4, <3>2, <3>3, <3>4
  <2>2. CASE click.id \notin DOMAIN task
    <3>1. task' = task
      BY <2>2 DEF ToggleCommit
    <3> QED BY <1>4, <3>1
  <2> QED BY <2>1, <2>2
<1>7. Rows(task', pasted)
  BY <1>3, <1>5, <1>6, RowsKept
<1> QED BY <1>1, <1>5, <1>7 DEF TaskInv

\* Rows leave the table.
LEMMA DropKeeps ==
    ASSUME TaskInv, NEW ids, Drop(ids)
    PROVE  /\ DOMAIN task' = DOMAIN task \ ids
           /\ Rows(task', pasted)
<1>1. DOMAIN task' = DOMAIN task \ ids /\ \A id \in DOMAIN task' : task'[id] = task[id]
  BY DEF Drop
<1>2. Rows(task, pasted)
  BY DEF TaskInv
<1>3. \A id \in DOMAIN task : /\ task[id].done \in BOOLEAN
                              /\ task[id] = [task[id] EXCEPT !.done = task[id].done]
  BY DEF TaskInv, Rows, RowOK
<1>4. DOMAIN task' \subseteq DOMAIN task
  BY <1>1
<1>5. \A id \in DOMAIN task' : /\ task'[id].done \in BOOLEAN
                               /\ task'[id] = [task[id] EXCEPT !.done = task'[id].done]
  BY <1>1, <1>3
<1> QED BY <1>1, <1>2, <1>4, <1>5, RowsKept

LEMMA DeleteTaskKeeps ==
    ASSUME TaskInv, NEW id \in Ids, DeleteTask(id)
    PROVE  TaskInv'
<1>1. DOMAIN task' = DOMAIN task \ {id} /\ Rows(task', pasted)
  BY DropKeeps DEF DeleteTask
<1>2. UNCHANGED <<box, pasted, age, click, today>>
  BY DEF DeleteTask
<1> QED BY <1>1, <1>2 DEF TaskInv

LEMMA DeleteMessageKeeps ==
    ASSUME TaskInv, NEW m \in Messages, DeleteMessage(m)
    PROVE  TaskInv'
<1> DEFINE ids == {m} \X (1..MAX_TASKS_PER_MESSAGE)
<1>1. DOMAIN task' = DOMAIN task \ ids /\ Rows(task', pasted)
  BY DropKeeps DEF DeleteMessage
<1>2. \A id \in Ids : id[1] = m => id \in ids
  BY DEF Ids
<1>3. \A id \in DOMAIN task' : id \in DOMAIN task /\ id[1] \in Messages \ {m}
  <2>1. SUFFICES ASSUME NEW id \in DOMAIN task'
                 PROVE  id \in DOMAIN task /\ id[1] \in Messages \ {m}
    OBVIOUS
  <2> HIDE DEF ids
  <2>2. id \in DOMAIN task /\ id \notin ids /\ id \in Ids
    BY <1>1 DEF TaskInv
  <2> QED BY <1>2, <2>2, IdParts
<1>4. UNCHANGED <<pasted, age, click, today>> /\ box' = [box EXCEPT ![m] = "deleted"]
  BY DEF DeleteMessage
<1>5. \A id \in DOMAIN task' : box'[id[1]] \in {"completed", "archived"}
  BY <1>3, <1>4 DEF TaskInv
<1>6. box' \in [Messages -> {"absent", "pending", "completed", "archived", "deleted"}]
  BY <1>4 DEF TaskInv
<1>7. DOMAIN task' \subseteq Ids
  BY <1>3 DEF TaskInv
<1> QED BY <1>1, <1>4, <1>5, <1>6, <1>7 DEF TaskInv

LEMMA ArchiveKeeps ==
    ASSUME TaskInv, NEW m \in Messages, Archive(m) \/ Restore(m)
    PROVE  TaskInv'
<1>1. /\ UNCHANGED <<pasted, task, age, click, today>>
      /\ \/ box' = [box EXCEPT ![m] = "archived"]
         \/ box' = [box EXCEPT ![m] = "completed"]
  BY DEF Archive, Restore
<1>2. box' \in [Messages -> {"absent", "pending", "completed", "archived", "deleted"}]
  BY <1>1 DEF TaskInv
<1>3. \A id \in DOMAIN task : box'[id[1]] \in {"completed", "archived"}
  BY <1>1, IdParts DEF TaskInv
<1> QED BY <1>1, <1>2, <1>3 DEF TaskInv

LEMMA DayKeeps ==
    ASSUME TaskInv, DayPasses
    PROVE  TaskInv'
<1>1. Tomorrow \in Days /\ IsDate(Tomorrow.year, Tomorrow.month, Tomorrow.day)
  BY Tomorrows DEF TaskInv
<1> QED BY <1>1 DEF TaskInv, DayPasses

LEMMA TaskNext == TaskInv /\ [Next]_vars => TaskInv'
<1> SUFFICES ASSUME TaskInv, [Next]_vars PROVE TaskInv'
  OBVIOUS
<1>1. CASE UNCHANGED vars
  BY <1>1 DEF TaskInv, vars
<1>2. ASSUME NEW m \in Messages, Paste(m) PROVE TaskInv'
  BY <1>2, PasteKeeps
<1>3. ASSUME NEW m \in Messages, Archive(m) \/ Restore(m) PROVE TaskInv'
  BY <1>3, ArchiveKeeps
<1>4. ASSUME NEW m \in Messages, DeleteMessage(m) PROVE TaskInv'
  BY <1>4, DeleteMessageKeeps
<1>5. ASSUME NEW m \in Messages, NEW answer \in Answers, Analyze(m, answer) PROVE TaskInv'
  BY <1>5, AnalyzeKeeps
<1>6. ASSUME NEW id \in Ids, ToggleRead(id) PROVE TaskInv'
  BY <1>6, ToggleReadKeeps
<1>7. ASSUME NEW id \in Ids, DeleteTask(id) PROVE TaskInv'
  BY <1>7, DeleteTaskKeeps
<1>8. CASE ToggleCommit
  BY <1>8, ToggleCommitKeeps
<1>9. CASE DayPasses
  BY <1>9, DayKeeps
<1> QED BY <1>1, <1>2, <1>3, <1>4, <1>5, <1>6, <1>7, <1>8, <1>9 DEF Next

LEMMA TaskInvariant == Spec => []TaskInv
<1>1. Init => TaskInv
  BY TaskInit
<1>2. TaskInv /\ [Next]_vars => TaskInv'
  BY TaskNext
<1> QED BY <1>1, <1>2, PTL DEF Spec

-----------------------------------------------------------------------------
(* Overdue tasks                                                           *)

\* Whatever comes before an overdue task on the dashboard comes before every
\* open task that is not overdue.
LEMMA OverdueBefore ==
    ASSUME TaskInv, NEW id \in Open, NEW o \in Open, Overdue(id), ~Overdue(o)
    PROVE  {x \in Open \ {id} : First(x, id)} \subseteq {x \in Open \ {o} : First(x, o)}
<1>1. \A x \in Open : x \in DOMAIN task /\ ~task[x].done /\ task[x].due \in Nat
  BY DEF Open, TaskInv, Rows, RowOK
<1>2. Today(today) \in Nat
  BY Todays DEF TaskInv
<1>3. task[id].due # NoDate /\ task[id].due < Today(today)
  BY DEF Overdue
<1>4. task[o].due = NoDate \/ task[o].due >= Today(today)
  BY <1>1, <1>2 DEF Overdue
<1>5. ASSUME NEW x \in Open, First(x, id)
      PROVE  x # o /\ First(x, o)
  <2>1. task[x].due # NoDate /\ task[x].due <= task[id].due
    BY <1>1, <1>3, <1>5 DEF First
  <2>2. task[o].due = NoDate \/ task[x].due < task[o].due
    BY <1>1, <1>2, <1>3, <1>4, <2>1
  <2>3. x # o
    BY <1>1, <2>1, <2>2
  <2> QED BY <2>1, <2>2, <2>3 DEF First
<1> QED BY <1>5

LEMMA OverdueShows == TaskInv => OverdueShown
<1> SUFFICES ASSUME TaskInv, NEW id \in Open, Overdue(id), id \notin Dashboard,
                    NEW o \in Dashboard
             PROVE  Overdue(o)
  BY DEF OverdueShown
<1> DEFINE before(x) == {y \in Open \ {x} : First(y, x)}
<1>1. IsFiniteSet(Ids)
  <2>1. IsFiniteSet(1..MAX_TASKS_PER_MESSAGE)
    <3>1. MAX_TASKS_PER_MESSAGE \in Int /\ 1 \in Int
      BY DEF MAX_TASKS_PER_MESSAGE
    <3> HIDE DEF before
    <3> QED BY <3>1, FS_Interval
  <2> QED BY <2>1, TaskConstantsOK, FS_Product DEF Ids
<1>2. IsFiniteSet(Open)
  <2>1. Open \subseteq Ids
    BY DEF Open, TaskInv
  <2> QED BY <1>1, <2>1, FS_Subset
<1>3. o \in Open /\ Cardinality(before(o)) < Limit
  BY DEF Dashboard
<1>4. ~(Cardinality(before(id)) < Limit)
  BY DEF Dashboard
<1>5. IsFiniteSet(before(o)) /\ IsFiniteSet(before(id))
  <2>1. before(o) \subseteq Open /\ before(id) \subseteq Open
    OBVIOUS
  <2> QED BY <1>2, <2>1, FS_Subset
<1>6. SUFFICES ASSUME ~Overdue(o) PROVE FALSE
  OBVIOUS
<1>7. before(id) \subseteq before(o)
  BY <1>3, <1>6, OverdueBefore
<1> HIDE DEF before
<1>8. Cardinality(before(id)) <= Cardinality(before(o))
  BY <1>5, <1>7, FS_Subset
<1>9. /\ Cardinality(before(id)) \in Nat
      /\ Cardinality(before(o)) \in Nat /\ Limit \in Nat
  BY <1>5, FS_CardinalityType, TaskConstantsOK
<1> QED BY <1>3, <1>4, <1>8, <1>9

-----------------------------------------------------------------------------
(* The theorems                                                            *)

\* A task has a message that was analysed and still exists, its columns keep
\* to their values, and the calendar to its dates (the tasks table).
THEOREM TypeCorrect == Spec => []TypeOK
<1>1. TaskInv => TypeOK
  BY TaskInvImplies
<1> QED BY <1>1, TaskInvariant, PTL

\* However the deadline was worded and however late the analysis came, a due
\* date agrees with everything the email states (_parse_due_date).
THEOREM DueHonest == Spec => []DueDatesHonest
<1>1. TaskInv => DueDatesHonest
  BY TaskInvImplies
<1> QED BY <1>1, TaskInvariant, PTL

\* However a model repeats itself, the tasks of a message are different work,
\* and no response default joins an action of the email (_build_tasks).
THEOREM NothingTwice == Spec => []NoDoubleWork
<1>1. TaskInv => NoDoubleWork
  BY TaskInvImplies
<1> QED BY <1>1, TaskInvariant, PTL

\* However many tasks there are and however long the dashboard's list is,
\* nothing that is not overdue crowds out what is (dashboard.index).
THEOREM OverdueFirst == Spec => []OverdueShown
<1>1. TaskInv => OverdueShown
  BY OverdueShows
<1> QED BY <1>1, TaskInvariant, PTL
=============================================================================

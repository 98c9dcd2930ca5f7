----------------------- MODULE AnalysisOutcomeProofs -----------------------
(***************************************************************************)
(* How an analysis ends, proved about Analysis under named conditions on   *)
(* the faults, the user's requests and the delays: results are not         *)
(* overwritten, failures give their slot back, no analysis comes for free, *)
(* a refused refund stays refused, and the archive keeps what it holds.    *)
(*                                                                         *)
(* The argument has two layers.  OpenInv says what every process that is   *)
(* about to write a status knows of the result; it needs the runs of a     *)
(* message kept apart.  OneCopy says that a message has one task, one      *)
(* request or one run at a time; with it, FateInv says what is fixed once  *)
(* a message is closed, and AwayInv that only undecided messages are still *)
(* in the hands of somebody who will write their status.                   *)
(***************************************************************************)
EXTENDS AnalysisProofs

-----------------------------------------------------------------------------
(* What lasts                                                              *)

\* A busy worker holds a message.
LEMMA HeldType ==
    ASSUME TypeOK, NEW w \in Workers, pc[w] # "idle"
    PROVE  MsgOf(w) \in Messages
  BY DEF TypeOK, MsgOf, Tasks

\* Tasks are about messages that were submitted.
OnlySubmitted ==
    /\ \A m \in Messages : route[m] # "none" => status[m] # "absent"
    /\ \A t \in Tasks : queue[t] > 0 => status[t.msg] # "absent"
    /\ \A w \in Workers : pc[w] # "idle" => status[MsgOf(w)] # "absent"

\* Where a step takes its tasks from.
KeepsSubmitted ==
    /\ \A m \in Messages : status'[m] = "absent" => status[m] = "absent"
    /\ \A m \in Messages : route'[m] # "none" => route[m] # "none" \/ status'[m] # "absent"
    /\ \A t \in Tasks : queue'[t] > 0 => queue[t] > 0 \/ status[t.msg] # "absent"
    /\ \A w \in Workers : pc'[w] # "idle" =>
          \/ pc[w] # "idle" /\ job'[w] = job[w]
          \/ job'[w] \in Tasks /\ queue[job'[w]] > 0

\* No step makes a submitted message absent.
LEMMA NoneWithdrawn ==
    ASSUME TypeOK, [Next]_vars, NEW m \in Messages, status'[m] = "absent"
    PROVE  status[m] = "absent"
  BY StepKinds DEF SlotStep, TakesSlot, GivesBackSlot, KeepsSlots, TypeOK

LEMMA WebSubmitted ==
    ASSUME TypeOK, OnlySubmitted, NEW m \in Messages, User(m) \/ Web(m) \/ Age(m)
    PROVE  KeepsSubmitted
<1>1. \A n \in Messages : status'[n] = "absent" => status[n] = "absent"
  BY NoneWithdrawn DEF Next
<1> USE <1>1 DEF KeepsSubmitted, TypeOK
<1>2. CASE Enqueue(m) \/ EnqueueUnsure(m)
  <2>1. status[m] # "absent" /\ Publish(FirstTry(m)) /\ UNCHANGED <<pc, job, status>>
    BY <1>2 DEF Enqueue, EnqueueUnsure, OnlySubmitted, rows
  <2>2. \A t \in Tasks : queue'[t] > 0 => queue[t] > 0 \/ status[t.msg] # "absent"
    BY <2>1, FirstTryType DEF Publish, FirstTry
  <2> QED BY <1>2, <2>1, <2>2 DEF Enqueue, EnqueueUnsure
<1>3. CASE Submit(m)
  BY <1>3 DEF Submit, SetStatus, fleet
<1>4. CASE EnqueueFails(m) \/ RouteMarkRead(m) \/ RouteMarkWrite(m) \/ RouteRefund(m)
  BY <1>4 DEF EnqueueFails, RouteMarkRead, RouteMarkWrite, RouteRefund, fleet
<1>5. CASE ArchiveRead(m) \/ UnarchiveRead(m) \/ EditCommit(m) \/ EditNote(m)
           \/ Delete(m) \/ Age(m)
  BY <1>5 DEF ArchiveRead, UnarchiveRead, EditCommit, EditNote, Delete, Age,
     web, fleet
<1> QED BY <1>2, <1>3, <1>4, <1>5 DEF User, Web

LEMMA WorkSubmitted ==
    ASSUME TypeOK, OnlySubmitted, NEW w \in Workers, Work(w)
    PROVE  KeepsSubmitted
<1>1. \A n \in Messages : status'[n] = "absent" => status[n] = "absent"
  BY NoneWithdrawn DEF Next
<1> USE <1>1 DEF KeepsSubmitted, TypeOK, Goto
<1>2. ASSUME NEW t \in Tasks, Deliver(w, t) PROVE KeepsSubmitted
  BY <1>2 DEF Deliver, web
<1>3. CASE Retry(w)
  <2>1. /\ job[w] \in Tasks /\ status[MsgOf(w)] # "absent"
        /\ Publish([job[w] EXCEPT !.retries = @ + 1])
    BY <1>3 DEF Retry, OnlySubmitted
  <2>2. [job[w] EXCEPT !.retries = @ + 1].msg = MsgOf(w)
    BY <2>1 DEF MsgOf, Tasks
  <2>3. \A t \in Tasks : queue'[t] > 0 => queue[t] > 0 \/ status[t.msg] # "absent"
    BY <2>1, <2>2 DEF Publish
  <2> QED BY <1>3, <2>3 DEF Retry, web
<1>4. CASE Ack(w)
  BY <1>4 DEF Ack, Release, web
<1>5. CASE Guard(w) \/ Flip(w) \/ Save(w) \/ NothingToShow(w) \/ Fail(w)
           \/ WorkerMarkRead(w) \/ WorkerMarkWrite(w) \/ WorkerRefund(w)
           \/ WorkerGoodwill(w)
  BY <1>5 DEF Guard, Flip, Save, NothingToShow, Fail, WorkerMarkRead,
     WorkerMarkWrite, WorkerRefund, WorkerGoodwill, web
<1> QED BY <1>2, <1>3, <1>4, <1>5 DEF Work

LEMMA SweepSubmitted == ASSUME TypeOK, Sweep PROVE KeepsSubmitted
<1>1. \A n \in Messages : status'[n] = "absent" => status[n] = "absent"
  BY NoneWithdrawn DEF Next
<1> QED BY <1>1 DEF KeepsSubmitted, Sweep, SweepSelect, SweepUpdate, SweepRefund,
        web, fleet

LEMMA FaultySubmitted ==
    ASSUME TypeOK, OnlySubmitted, Faulty
    PROVE  KeepsSubmitted
<1> USE DEF KeepsSubmitted, TypeOK, rows, web, fleet
<1>1. ASSUME NEW m \in Messages, RouteCrash(m) \/ RouteDbError(m) PROVE KeepsSubmitted
  BY <1>1 DEF RouteCrash, RouteDbError, InRequest
<1>2. ASSUME NEW w \in Workers, CrashLost(w) \/ WorkerDbError(w) PROVE KeepsSubmitted
  BY <1>2 DEF CrashLost, WorkerDbError, Release, Goto
<1>3. ASSUME NEW w \in Workers, CrashRedelivered(w) \/ Redeliver(w) PROVE KeepsSubmitted
  <2>1. job[w] \in Tasks /\ status[MsgOf(w)] # "absent" /\ Publish(job[w])
    BY <1>3 DEF CrashRedelivered, Redeliver, OnlySubmitted
  <2>2. \A t \in Tasks : queue'[t] > 0 => queue[t] > 0 \/ status[t.msg] # "absent"
    BY <2>1 DEF Publish, MsgOf
  <2> QED BY <1>3, <2>2 DEF CrashRedelivered, Redeliver, Release, Goto
<1>4. ASSUME NEW t \in Tasks, BrokerLoses(t) PROVE KeepsSubmitted
  BY <1>4 DEF BrokerLoses
<1>5. CASE SweepCrash
  BY <1>5 DEF SweepCrash
<1> QED BY <1>1, <1>2, <1>3, <1>4, <1>5 DEF Faulty

LEMMA NextSubmitted == TypeOK /\ OnlySubmitted /\ [Next]_vars => OnlySubmitted'
<1> SUFFICES ASSUME TypeOK, OnlySubmitted, [Next]_vars PROVE OnlySubmitted'
  OBVIOUS
<1>1. CASE UNCHANGED vars
  BY <1>1 DEF vars, rows, web, fleet, OnlySubmitted, MsgOf
<1>2. CASE Next
  <2>1. KeepsSubmitted
    BY <1>2, WebSubmitted, WorkSubmitted, SweepSubmitted, FaultySubmitted DEF Next
  <2>2. TypeOK'
    BY NextTypes
  <2>3. ASSUME NEW w \in Workers, pc'[w] # "idle" PROVE (status[MsgOf(w)] # "absent")'
    <3>1. CASE pc[w] # "idle" /\ job'[w] = job[w]
      BY <2>1, <3>1, HeldType DEF KeepsSubmitted, OnlySubmitted, MsgOf
    <3>2. CASE job'[w] \in Tasks /\ queue[job'[w]] > 0
      BY <2>1, <3>2 DEF KeepsSubmitted, OnlySubmitted, MsgOf, Tasks
    <3> QED BY <2>1, <2>3, <3>1, <3>2 DEF KeepsSubmitted
  <2>4. \A t \in Tasks : t.msg \in Messages
    BY DEF Tasks
  <2> QED BY <2>1, <2>3, <2>4 DEF KeepsSubmitted, OnlySubmitted
<1> QED BY <1>1, <1>2

LEMMA SubmittedInvariant == Spec => []OnlySubmitted
<1>1. Init => OnlySubmitted
  BY DEF Init, OnlySubmitted
<1> QED BY <1>1, TypeCorrect, NextSubmitted, PTL DEF Spec

LEMMA ResultInvariant == Spec => []ResultInv
  BY TypeCorrect, InitResults, NextResults, PTL DEF Spec

\* What a step never takes back.
Lasting == /\ \A m \in Messages : /\ refunded[m] => refunded'[m]
                                  /\ status[m] = "deleted" => status'[m] = "deleted"
           /\ cut \subseteq cut'

LEMMA LastingStep ==
    ASSUME TypeOK, ResultInv, [Next]_vars
    PROVE  Lasting
<1>1. \A m \in Messages : refunded[m] => refunded'[m]
  BY StepKinds DEF SlotStep, TakesSlot, GivesBackSlot, KeepsSlots, quota, TypeOK
<1>2. \A m \in Messages : status[m] = "deleted" => status'[m] = "deleted"
  <2>1. CASE Next
    BY <2>1, WebResults, WorkResults, SweepResults, FaultyResults DEF Next, KeepsResults
  <2>2. CASE UNCHANGED vars
    BY <2>2 DEF vars, rows
  <2> QED BY <2>1, <2>2
<1>3. cut \subseteq cut'
  <2> USE DEF hist, CutOff
  <2>1. ASSUME NEW m \in Messages, User(m) \/ Web(m) \/ Age(m) PROVE UNCHANGED cut
    BY <2>1 DEF User, Submit, ArchiveRead, UnarchiveRead, EditCommit, EditNote,
       Delete, Web, Enqueue, EnqueueFails, EnqueueUnsure, RouteMarkRead,
       RouteMarkWrite, RouteRefund, Age
  <2>2. ASSUME NEW w \in Workers, Work(w) PROVE UNCHANGED cut
    BY <2>2 DEF Work, Deliver, Guard, Flip, Save, NothingToShow, Retry, Fail,
       WorkerMarkRead, WorkerMarkWrite, WorkerRefund, WorkerGoodwill, Ack
  <2>3. CASE Sweep
    BY <2>3 DEF Sweep, SweepSelect, SweepUpdate, SweepRefund
  <2>4. CASE Faulty
    BY <2>4 DEF Faulty, RouteCrash, RouteDbError, CrashLost, CrashRedelivered,
       Redeliver, WorkerDbError, BrokerLoses, SweepCrash
  <2>5. CASE UNCHANGED vars
    BY <2>5 DEF vars
  <2> QED BY <2>1, <2>2, <2>3, <2>4, <2>5 DEF Next
<1> QED BY <1>1, <1>2, <1>3 DEF Lasting

\* A refund that is reached leaves the slot settled.
LEMMA RefundSettles ==
    ASSUME QuotaInv, NEW m \in Messages, status[m] # "absent", Refund(m),
           UNCHANGED status
    PROVE  refunded'[m] \/ status'[m] = "deleted"
<1>1. CASE Exists(m) /\ ~refunded[m]
  <2>1. Owner[m] \in Users /\ m \in Held(Owner[m])
    BY <1>1, ConstantsOK DEF Held
  <2>2. IsFiniteSet(Held(Owner[m])) /\ used[Owner[m]] = Cardinality(Held(Owner[m]))
    BY <2>1, SlotSetsFinite DEF QuotaInv, QuotaConserved
  <2>3. Cardinality(Held(Owner[m])) > 0
    BY <2>1, <2>2, FS_EmptySet, FS_CardinalityType
  <2> QED BY <1>1, <2>2, <2>3 DEF Refund, Refundable, Claim, QuotaInv, TypeOK
<1>2. CASE refunded[m]
  BY <1>2 DEF Refund, Refundable, quota
<1>3. CASE ~Exists(m)
  BY <1>3 DEF Exists, QuotaInv, TypeOK
<1> QED BY <1>1, <1>2, <1>3

-----------------------------------------------------------------------------
(* One run of a message at a time                                          *)

\* Worker w may still do something to message m.
Live(w, m) == Holds(w, m) /\ pc[w] # "ack"

\* No two workers do at once.  A single ML worker (compose.yaml) is one way to
\* have that.
Apart == \A m \in Messages : \A v, w \in Workers : Live(v, m) /\ Live(w, m) => v = w

Queued(m) == \E t \in Tasks : t.msg = m /\ queue[t] > 0

\* The steps of a run that has found no result and may still write a status.
Deciding == {"flip", "run", "markRead", "markWrite"}

\* Whoever is about to write a status other than ARCHIVED over a message has
\* found it without a result, and no one else has saved one since.
OpenInv ==
    \A m \in Messages :
        /\ status[m] \in NonTerminal \cup {"failed", "absent"} => ~result[m]
        /\ route[m] # "done" =>
              ~result[m] /\ ~Queued(m) /\ \A w \in Workers : ~Holds(w, m)
        /\ status[m] = "absent" => route[m] = "none"
        /\ edit[m] # "none" => edit[m] = "archived"
        /\ \A w \in Workers : Holds(w, m) /\ pc[w] \in Deciding => ~result[m]

TellsPublish == "publish" \notin FaultKinds
NeverRestores == "unarchive" \notin UserOps

LEMMA WebOpen ==
    ASSUME TypeOK, OpenInv, TellsPublish, NeverRestores, NEW m \in Messages,
           User(m) \/ Web(m) \/ Age(m)
    PROVE  OpenInv'
<1> USE DEF OpenInv, TypeOK, Queued, Holds, MsgOf
<1>1. CASE Submit(m)
  BY <1>1 DEF Submit, SetStatus, fleet, NonTerminal
<1>2. CASE ArchiveRead(m) \/ EditNote(m) \/ Age(m)
  BY <1>2 DEF ArchiveRead, EditNote, Age, fleet, rows, web
<1>3. CASE EditCommit(m) \/ Delete(m)
  BY <1>3 DEF EditCommit, Delete, SetStatus, fleet, web, Exists, Statuses, NonTerminal
<1>4. CASE Enqueue(m)
  BY <1>4, FirstTryType DEF Enqueue, Publish, FirstTry, rows
<1>5. CASE EnqueueFails(m) \/ RouteMarkRead(m)
  BY <1>5 DEF EnqueueFails, RouteMarkRead, rows, fleet
<1>6. CASE RouteMarkWrite(m)
  BY <1>6 DEF RouteMarkWrite, SetStatus, fleet, Exists, Statuses, NonTerminal
<1>7. CASE RouteRefund(m)
  BY <1>7 DEF RouteRefund, fleet
<1> QED BY <1>1, <1>2, <1>3, <1>4, <1>5, <1>6, <1>7
        DEF User, Web, UnarchiveRead, EnqueueUnsure, Fault, TellsPublish, NeverRestores

LEMMA WorkOpen ==
    ASSUME TypeOK, OpenInv, Apart, NEW w \in Workers, Work(w)
    PROVE  OpenInv'
<1> USE DEF OpenInv, TypeOK, Queued, Holds, MsgOf, Goto
<1>1. ASSUME NEW t \in Tasks, Deliver(w, t) PROVE OpenInv'
  <2>1. t.msg \in Messages /\ Queued(t.msg)
    BY <1>1 DEF Deliver, Tasks
  <2>2. \A s \in Tasks : queue'[s] > 0 => queue[s] > 0
    BY <1>1 DEF Deliver
  <2> QED BY <1>1, <2>1, <2>2 DEF Deliver, rows, web, Deciding
<1> DEFINE m == MsgOf(w)
<1>2. ASSUME pc[w] # "idle" PROVE m \in Messages /\ job[w] \in Tasks
  BY <1>2 DEF Tasks
<1>3. CASE Guard(w) \/ Fail(w) \/ WorkerMarkRead(w)
  BY <1>2, <1>3 DEF Guard, Fail, WorkerMarkRead, AlreadyDone, Deciding, rows, web
<1>4. CASE Flip(w) \/ NothingToShow(w) \/ WorkerMarkWrite(w)
  <2>1. ~result[m] /\ route[m] = "done"
    BY <1>2, <1>4 DEF Flip, NothingToShow, WorkerMarkWrite, Deciding
  <2> QED BY <1>2, <1>4, <2>1 DEF Flip, NothingToShow, WorkerMarkWrite, SetStatus,
             Deciding, web, Exists, Statuses, NonTerminal
<1>5. CASE Save(w)
  <2>1. \A v \in Workers : Live(v, m) => v = w
    BY <1>2, <1>5 DEF Apart, Live, Save
  <2>2. route[m] = "done"
    BY <1>2, <1>5 DEF Save
  <2> QED BY <1>2, <1>5, <2>1, <2>2 DEF Save, SetStatus, Live, Deciding, web,
             NonTerminal
<1>6. CASE Retry(w)
  <2>1. /\ [job[w] EXCEPT !.retries = @ + 1].msg = m
        /\ route[m] = "done"
    BY <1>2, <1>6 DEF Retry, Tasks
  <2>2. \A t \in Tasks : queue'[t] > 0 => queue[t] > 0 \/ t.msg = m
    BY <1>6, <2>1 DEF Retry, Publish
  <2> QED BY <1>2, <1>6, <2>1, <2>2 DEF Retry, rows, web, Deciding
<1>7. CASE WorkerRefund(w) \/ WorkerGoodwill(w)
  BY <1>2, <1>7 DEF WorkerRefund, WorkerGoodwill, Deciding, web
<1>8. CASE Ack(w)
  BY <1>8 DEF Ack, Release, Deciding, rows, web
<1> QED BY <1>1, <1>3, <1>4, <1>5, <1>6, <1>7, <1>8 DEF Work

LEMMA SweepOpen ==
    ASSUME TypeOK, OpenInv, Sweep
    PROVE  OpenInv'
<1> USE DEF OpenInv, TypeOK, Queued, Holds, MsgOf, web, fleet
<1>1. CASE SweepSelect
  BY <1>1 DEF SweepSelect, rows
<1>2. CASE SweepUpdate
  BY <1>2 DEF SweepUpdate, Matched, Stuck
<1>3. ASSUME NEW m \in Messages, SweepRefund(m) PROVE OpenInv'
  BY <1>3 DEF SweepRefund
<1> QED BY <1>1, <1>2, <1>3 DEF Sweep

LEMMA FaultyOpen ==
    ASSUME TypeOK, OpenInv, Faulty
    PROVE  OpenInv'
<1> USE DEF OpenInv, TypeOK, Queued, Holds, MsgOf, rows, web, fleet
<1>1. ASSUME NEW m \in Messages, RouteCrash(m) \/ RouteDbError(m) PROVE OpenInv'
  BY <1>1 DEF RouteCrash, RouteDbError, InRequest
<1>2. ASSUME NEW w \in Workers, CrashLost(w) \/ WorkerDbError(w) PROVE OpenInv'
  BY <1>2 DEF CrashLost, WorkerDbError, Release, Goto, Deciding
<1>3. ASSUME NEW w \in Workers, CrashRedelivered(w) \/ Redeliver(w) PROVE OpenInv'
  <2>1. job[w] \in Tasks /\ Holds(w, MsgOf(w)) /\ Publish(job[w])
    BY <1>3 DEF CrashRedelivered, Redeliver
  <2>2. \A t \in Tasks : queue'[t] > 0 => queue[t] > 0 \/ t.msg = MsgOf(w)
    BY <2>1 DEF Publish
  <2>3. MsgOf(w) \in Messages
    BY <2>1 DEF Tasks
  <2> QED BY <1>3, <2>1, <2>2, <2>3
          DEF CrashRedelivered, Redeliver, Release, Goto, Deciding
<1>4. ASSUME NEW t \in Tasks, BrokerLoses(t) PROVE OpenInv'
  <2>1. \A s \in Tasks : queue'[s] > 0 => queue[s] > 0
    BY <1>4 DEF BrokerLoses
  <2> QED BY <1>4, <2>1 DEF BrokerLoses
<1>5. CASE SweepCrash
  BY <1>5 DEF SweepCrash
<1> QED BY <1>1, <1>2, <1>3, <1>4, <1>5 DEF Faulty

LEMMA NextOpen ==
    ASSUME TellsPublish, NeverRestores
    PROVE  TypeOK /\ OpenInv /\ Apart /\ [Next]_vars => OpenInv'
<1> SUFFICES ASSUME TypeOK, OpenInv, Apart, [Next]_vars PROVE OpenInv'
  OBVIOUS
<1>1. CASE UNCHANGED vars
  BY <1>1 DEF vars, rows, web, fleet, OpenInv, Queued, Holds, MsgOf
<1>2. CASE Next
  BY <1>2, WebOpen, WorkOpen, SweepOpen, FaultyOpen DEF Next
<1> QED BY <1>1, <1>2

LEMMA InitOpen == Init => OpenInv
  BY ConstantsOK DEF Init, OpenInv, Queued, Holds, NonTerminal

LEMMA OpenInvariant ==
    ASSUME TellsPublish, NeverRestores
    PROVE  Spec /\ []Apart => []OpenInv
  BY InitOpen, NextOpen, TypeCorrect, PTL DEF Spec

\* A step over a completed message.
LEMMA FinalStep ==
    ASSUME TypeOK, ResultInv, OpenInv, [Next]_vars, TellsPublish, NeverRestores,
           NEW m \in Messages, status[m] = "completed"
    PROVE  status'[m] \in {"completed", "archived", "deleted"}
<1> USE DEF TypeOK
<1>1. result[m] /\ route[m] = "done"
  BY DEF ResultInv, CompletedHasResult, OpenInv
<1>2. ASSUME NEW n \in Messages, User(n) \/ Web(n) \/ Age(n)
      PROVE  status'[m] \in {"completed", "archived", "deleted"}
  <2>1. edit[m] \in {"none", "archived"}
    BY DEF OpenInv
  <2> QED BY <1>1, <1>2, <2>1 DEF User, Web, Submit, ArchiveRead, UnarchiveRead,
        EditCommit, EditNote, Delete, Enqueue, EnqueueFails, EnqueueUnsure,
        RouteMarkRead, RouteMarkWrite, RouteRefund, Age, SetStatus, rows
<1>3. ASSUME NEW w \in Workers, Work(w)
      PROVE  status'[m] \in {"completed", "archived", "deleted"}
  <2>1. ~(Holds(w, m) /\ pc[w] \in Deciding)
    BY <1>1 DEF OpenInv
  <2>2. CASE Flip(w) \/ NothingToShow(w) \/ WorkerMarkWrite(w)
    BY <2>1, <2>2 DEF Flip, NothingToShow, WorkerMarkWrite, SetStatus, Deciding, Holds
  <2> QED BY <1>3, <2>2 DEF Work, Deliver, Guard, Save, SetStatus, Retry, Fail,
        WorkerMarkRead, WorkerRefund, WorkerGoodwill, Ack, rows
<1>4. ASSUME Sweep PROVE status'[m] = "completed"
  BY <1>4 DEF Sweep, SweepSelect, SweepUpdate, SweepRefund, Matched, Stuck,
     NonTerminal, rows
<1>5. ASSUME Faulty PROVE status'[m] = "completed"
  BY <1>5 DEF Faulty, RouteCrash, RouteDbError, CrashLost, CrashRedelivered,
     Redeliver, WorkerDbError, BrokerLoses, SweepCrash, rows
<1>6. ASSUME UNCHANGED vars PROVE status'[m] = "completed"
  BY <1>6 DEF vars, rows
<1> QED BY <1>2, <1>3, <1>4, <1>5, <1>6 DEF Next

-----------------------------------------------------------------------------
(* Every failure gives its slot back                                       *)

\* The slot of a failed message is back, was refused, was cut off, or somebody
\* is still going to return it.
Settling(m) ==
    \/ refunded[m] \/ m \in refused \/ m \in cut
    \/ route[m] = "refund"
    \/ sweep = "refund" /\ m \in cand
    \/ \E w \in Workers : Holds(w, m) /\ pc[w] \in {"refund", "goodwill"}

\* Nobody writes FAILED without going on to the refund, and nobody restores
\* FAILED on a message whose refund was skipped because it was archived.
SettleInv ==
    \A m \in Messages : /\ status[m] = "failed" => Settling(m)
                        /\ edit[m] # "none" => edit[m] = "archived"

\* A crashed worker's task may get lost after its redelivery.
KeepsWorkers == "worker" \notin FaultKinds

\* The two refunds of a worker and of the others settle what they are about.
LEMMA GoodwillSettles ==
    ASSUME QuotaInv, NEW m \in Messages, Exists(m), RefundNothingToShow(m),
           UNCHANGED status
    PROVE  refunded'[m] \/ (~refunded[m] /\ ~WithinBudget(Owner[m]))
<1>1. CASE WithinBudget(Owner[m])
  <2>1. Refund(m) \/ (Refundable(m) /\ Claim(m))
    BY <1>1 DEF RefundNothingToShow, Refund, quota
  <2>2. CASE Refund(m)
    BY <2>2, RefundSettles DEF Exists, Statuses, NonTerminal
  <2>3. CASE Refundable(m) /\ Claim(m)
    BY <2>3 DEF Claim, QuotaInv, TypeOK
  <2> QED BY <2>1, <2>2, <2>3
<1>2. CASE ~WithinBudget(Owner[m])
  BY <1>2 DEF RefundNothingToShow, quota
<1> QED BY <1>1, <1>2

LEMMA WebSettles ==
    ASSUME QuotaInv, ResultInv, SettleInv, NeverRestores, NEW m \in Messages,
           User(m) \/ Web(m) \/ Age(m)
    PROVE  SettleInv'
<1>0. TypeOK /\ \A n \in Messages : refunded[n] => refunded'[n]
  BY LastingStep DEF QuotaInv, Lasting, Next
<1> USE <1>0 DEF SettleInv, Settling, Holds, MsgOf, TypeOK, reaper, hist
<1>1. CASE Submit(m)
  BY <1>1 DEF Submit, SetStatus, fleet
<1>2. CASE ArchiveRead(m) \/ EditNote(m) \/ Age(m)
  BY <1>2 DEF ArchiveRead, EditNote, Age, fleet, rows, web
<1>3. CASE EditCommit(m) \/ Delete(m)
  BY <1>3 DEF EditCommit, Delete, SetStatus, fleet, web
<1>4. CASE Enqueue(m) \/ EnqueueFails(m) \/ EnqueueUnsure(m) \/ RouteMarkRead(m)
  BY <1>4 DEF Enqueue, EnqueueFails, EnqueueUnsure, RouteMarkRead, rows, fleet
<1>5. CASE RouteMarkWrite(m)
  BY <1>5 DEF RouteMarkWrite, SetStatus, fleet, Exists, Statuses
<1>6. CASE RouteRefund(m)
  <2>1. status[m] = "failed" => refunded'[m]
    BY <1>6, RefundSettles DEF RouteRefund
  <2> QED BY <1>6, <2>1 DEF RouteRefund, fleet
<1> QED BY <1>1, <1>2, <1>3, <1>4, <1>5, <1>6
        DEF User, Web, UnarchiveRead, NeverRestores

LEMMA WorkSettles ==
    ASSUME QuotaInv, ResultInv, SettleInv, NEW w \in Workers, Work(w)
    PROVE  SettleInv'
<1>0. TypeOK /\ \A n \in Messages : refunded[n] => refunded'[n]
  BY LastingStep DEF QuotaInv, Lasting, Next
<1> USE <1>0 DEF SettleInv, Settling, Holds, MsgOf, TypeOK, reaper, hist, Goto, web
<1>1. ASSUME NEW t \in Tasks, Deliver(w, t) PROVE SettleInv'
  BY <1>1 DEF Deliver, rows
<1> DEFINE m == MsgOf(w)
<1>2. ASSUME pc[w] # "idle" PROVE m \in Messages
  BY <1>2, HeldType
<1>3. CASE Guard(w) \/ Retry(w) \/ Fail(w) \/ WorkerMarkRead(w) \/ Ack(w)
  BY <1>3 DEF Guard, Retry, Fail, WorkerMarkRead, Ack, Release, rows
<1>4. CASE Flip(w) \/ Save(w) \/ NothingToShow(w) \/ WorkerMarkWrite(w)
  BY <1>2, <1>4 DEF Flip, Save, NothingToShow, WorkerMarkWrite, SetStatus, Exists,
     Statuses
<1>5. CASE WorkerRefund(w)
  <2>1. status[m] = "failed" => refunded'[m]
    BY <1>2, <1>5, RefundSettles DEF WorkerRefund
  <2> QED BY <1>2, <1>5, <2>1 DEF WorkerRefund
<1>6. CASE WorkerGoodwill(w)
  <2>1. status[m] = "failed" => refunded'[m] \/ m \in refused'
    BY <1>2, <1>6, GoodwillSettles DEF WorkerGoodwill, Exists, Statuses
  <2> QED BY <1>2, <1>6, <2>1 DEF WorkerGoodwill
<1> QED BY <1>1, <1>3, <1>4, <1>5, <1>6 DEF Work

LEMMA SweepSettles ==
    ASSUME QuotaInv, ResultInv, SettleInv, Sweep
    PROVE  SettleInv'
<1>0. TypeOK /\ \A n \in Messages : refunded[n] => refunded'[n]
  BY LastingStep DEF QuotaInv, Lasting, Next
<1> USE <1>0 DEF SettleInv, Settling, Holds, MsgOf, TypeOK, hist, web, fleet
<1>1. CASE SweepSelect
  BY <1>1 DEF SweepSelect, rows
<1>2. CASE SweepUpdate
  BY <1>2 DEF SweepUpdate, Matched
<1>3. ASSUME NEW m \in Messages, SweepRefund(m) PROVE SettleInv'
  <2>1. status[m] = "failed" => refunded'[m]
    BY <1>3, RefundSettles DEF SweepRefund, Reaped
  <2> QED BY <1>3, <2>1 DEF SweepRefund
<1> QED BY <1>1, <1>2, <1>3 DEF Sweep

LEMMA FaultySettles ==
    ASSUME TypeOK, SettleInv, KeepsWorkers, Faulty
    PROVE  SettleInv'
<1> USE DEF SettleInv, Settling, Holds, MsgOf, TypeOK, rows, web, fleet, reaper, CutOff
<1>1. ASSUME NEW m \in Messages, RouteCrash(m) \/ RouteDbError(m) PROVE SettleInv'
  BY <1>1 DEF RouteCrash, RouteDbError, InRequest
<1>2. ASSUME NEW w \in Workers, CrashLost(w) \/ WorkerDbError(w) PROVE SettleInv'
  BY <1>2 DEF CrashLost, WorkerDbError, Release, Goto
<1>3. ASSUME NEW w \in Workers, Redeliver(w) PROVE SettleInv'
  BY <1>3 DEF Redeliver
<1>4. ASSUME NEW t \in Tasks, BrokerLoses(t) PROVE SettleInv'
  BY <1>4 DEF BrokerLoses
<1>5. CASE SweepCrash
  BY <1>5 DEF SweepCrash
<1> QED BY <1>1, <1>2, <1>3, <1>4, <1>5
        DEF Faulty, CrashRedelivered, Fault, KeepsWorkers

LEMMA NextSettles ==
    ASSUME NeverRestores, KeepsWorkers
    PROVE  QuotaInv /\ ResultInv /\ SettleInv /\ [Next]_vars => SettleInv'
<1> SUFFICES ASSUME QuotaInv, ResultInv, SettleInv, [Next]_vars PROVE SettleInv'
  OBVIOUS
<1>1. CASE UNCHANGED vars
  BY <1>1 DEF vars, rows, web, fleet, reaper, hist, SettleInv, Settling, Holds, MsgOf
<1>2. CASE Next
  BY <1>2, WebSettles, WorkSettles, SweepSettles, FaultySettles DEF Next, QuotaInv
<1> QED BY <1>1, <1>2

\* "Every FAILED analysis returns its quota slot": when nothing is left to
\* touch a failed message, its slot is back, unless the cap refused it or the
\* refund itself was cut off, for any number of workers and whatever is
\* redelivered twice, lost, killed or reaped meanwhile.
THEOREM FailureReturnsSlot ==
    ASSUME NeverRestores, KeepsWorkers
    PROVE  Spec => []SlotReturned
<1>1. Init => SettleInv
  BY DEF Init, SettleInv
<1>2. SettleInv => SlotReturned
  BY DEF SettleInv, Settling, SlotReturned, Dormant
<1> QED BY <1>1, <1>2, QuotaInvariant, ResultInvariant, NextSettles, PTL DEF Spec

-----------------------------------------------------------------------------
(* One copy of each task                                                   *)

\* Nobody is going to do anything about message m any more.
Closed(m) == route[m] = "done" /\ ~Queued(m) /\ \A w \in Workers : ~Live(w, m)

\* A submission publishes one task, and each attempt hands over to the next.
OneCopy ==
    /\ Apart
    /\ \A t \in Tasks : queue[t] > 0 =>
          /\ queue[t] = 1
          /\ \A s \in Tasks : s.msg = t.msg /\ queue[s] > 0 => s = t
          /\ \A w \in Workers : ~Live(w, t.msg)
    /\ \A m \in Messages :
          /\ status[m] = "absent" => route[m] = "none"
          /\ route[m] # "done" => ~Queued(m) /\ \A w \in Workers : ~Live(w, m)

\* No fault copies a task: not the broker, not the death of a worker, and not
\* an answer of the broker that got lost.
NoCopies == FaultKinds \cap {"publish", "worker", "duplicate"} = {}

\* A step that starts no run, publishes no task and leaves the requests alone.
LEMMA NothingNew ==
    ASSUME TypeOK, OneCopy, [Next]_vars, UNCHANGED route,
           \A t \in Tasks : queue'[t] > 0 => queue[t] > 0 /\ queue'[t] \in {1, queue[t]},
           \A m \in Messages : \A w \in Workers : Live(w, m)' => Live(w, m)
    PROVE  OneCopy'
<1>1. Apart'
  BY DEF OneCopy, Apart
<1>2. \A m \in Messages : Queued(m)' => Queued(m)
  BY DEF Queued
<1>3. \A t \in Tasks : t.msg \in Messages
  BY DEF Tasks
<1>4. \A m \in Messages : status'[m] = "absent" => status[m] = "absent"
  BY NoneWithdrawn
<1> HIDE DEF Live, Queued
<1> QED BY <1>1, <1>2, <1>3, <1>4 DEF OneCopy

\* A step that starts no run and publishes the only task of an idle message.
LEMMA OneNew ==
    ASSUME TypeOK, OneCopy, [Next]_vars, NEW m \in Messages, NEW new \in Tasks,
           new.msg = m, queue[new] = 0, Publish(new), ~Queued(m),
           route'[m] = "done", \A n \in Messages : n # m => route'[n] = route[n],
           status[m] # "absent",
           \A w \in Workers : ~Live(w, m)',
           \A n \in Messages : \A w \in Workers : Live(w, n)' => Live(w, n)
    PROVE  OneCopy'
<1>1. Apart'
  BY DEF OneCopy, Apart
<1>2. \A t \in Tasks : queue'[t] > 0 =>
         \/ queue[t] > 0 /\ queue'[t] = queue[t] /\ t.msg # m
         \/ t = new /\ queue'[t] = 1
  BY DEF TypeOK, Publish, Queued
<1>3. \A n \in Messages : n # m /\ Queued(n)' => Queued(n)
  BY <1>2 DEF Queued
<1>4. \A t \in Tasks : t.msg \in Messages
  BY DEF Tasks
<1>5. \A n \in Messages : status'[n] = "absent" => status[n] = "absent"
  BY NoneWithdrawn
<1>6. \A t \in Tasks : queue'[t] > 0 =>
          /\ queue'[t] = 1
          /\ \A s \in Tasks : s.msg = t.msg /\ queue'[s] > 0 => s = t
          /\ \A w \in Workers : ~Live(w, t.msg)'
  BY <1>2, <1>4 DEF OneCopy
<1>7. \A n \in Messages :
          /\ status'[n] = "absent" => route'[n] = "none"
          /\ route'[n] # "done" => ~Queued(n)' /\ \A w \in Workers : ~Live(w, n)'
  BY <1>3, <1>5 DEF OneCopy
<1> QED BY <1>1, <1>6, <1>7 DEF OneCopy

LEMMA WebCopies ==
    ASSUME TypeOK, OneCopy, NoCopies, NEW m \in Messages, User(m) \/ Web(m) \/ Age(m)
    PROVE  OneCopy'
<1> USE DEF OneCopy, Apart, Queued, Live, Holds, MsgOf, TypeOK
<1>1. CASE Enqueue(m)
  <2>1. FirstTry(m) \in Tasks /\ FirstTry(m).msg = m
    BY FirstTryType DEF FirstTry
  <2>2. ~Queued(m) /\ (\A w \in Workers : ~Live(w, m)) /\ status[m] # "absent"
    BY <1>1 DEF Enqueue
  <2>3. \A t \in Tasks : queue'[t] > 0 =>
           \/ queue[t] > 0 /\ queue'[t] = queue[t] /\ t.msg # m
           \/ t = FirstTry(m) /\ queue'[t] = 1
    BY <1>1, <2>1, <2>2 DEF Enqueue, Publish
  <2> QED BY <1>1, <2>1, <2>2, <2>3 DEF Enqueue, rows
<1>2. CASE Submit(m)
  BY <1>2 DEF Submit, SetStatus, fleet
<1>3. CASE EnqueueFails(m) \/ RouteMarkRead(m) \/ RouteRefund(m)
  BY <1>3 DEF EnqueueFails, RouteMarkRead, RouteRefund, rows, fleet
<1>4. CASE RouteMarkWrite(m)
  BY <1>4 DEF RouteMarkWrite, SetStatus, fleet
<1>5. CASE ArchiveRead(m) \/ UnarchiveRead(m) \/ EditNote(m) \/ Age(m)
  BY <1>5 DEF ArchiveRead, UnarchiveRead, EditNote, Age, rows, web, fleet
<1>6. CASE EditCommit(m) \/ Delete(m)
  BY <1>6 DEF EditCommit, Delete, SetStatus, web, fleet
<1> QED BY <1>1, <1>2, <1>3, <1>4, <1>5, <1>6
        DEF User, Web, EnqueueUnsure, Fault, NoCopies

LEMMA RetryCopies ==
    ASSUME TypeOK, OneCopy, NEW w \in Workers, Retry(w)
    PROVE  OneCopy'
<1>1. job[w] \in Tasks /\ pc[w] = "run" /\ job[w].retries < MaxRetries
  BY DEF Retry, TypeOK
<1>2. PICK m \in Messages : m = MsgOf(w)
  BY <1>1 DEF Tasks, MsgOf
<1>3. PICK new \in Tasks : new = [job[w] EXCEPT !.retries = @ + 1] /\ new.msg = m
  <2>1. job[w].msg \in Messages /\ job[w].retries \in 0..MaxRetries
    BY <1>1 DEF Tasks
  <2>2. job[w].retries + 1 \in 0..MaxRetries
    BY <1>1, <2>1, ConstantsOK
  <2>3. [job[w] EXCEPT !.retries = @ + 1] = [msg |-> m, retries |-> job[w].retries + 1]
    BY <1>1, <1>2 DEF Tasks, MsgOf
  <2> QED BY <2>1, <2>2, <2>3 DEF Tasks
<1>4. /\ \A v \in Workers : Live(v, m) => v = w
      /\ \A t \in Tasks : t.msg = m => ~(queue[t] > 0)
      /\ route[m] = "done" /\ status[m] # "absent"
  <2>1. Live(w, m)
    BY <1>1, <1>2 DEF Live, Holds
  <2> QED BY <2>1 DEF OneCopy, Apart
<1>5. ~Queued(m) /\ queue[new] = 0
  <2>1. queue[new] \in Nat /\ ~(queue[new] > 0)
    BY <1>3, <1>4 DEF TypeOK
  <2> QED BY <1>4, <2>1 DEF Queued
<1>6. Publish(new) /\ UNCHANGED <<route, job>> /\ pc' = [pc EXCEPT ![w] = "ack"]
  BY <1>3 DEF Retry, Goto, web
<1>7. \A n \in Messages : \A v \in Workers : Live(v, n)' => Live(v, n) /\ v # w
  BY <1>6 DEF Live, Holds, MsgOf, TypeOK
<1>8. [Next]_vars
  BY DEF Next, Work
<1> QED BY <1>4, <1>5, <1>6, <1>7, <1>8, OneNew, <1>3

LEMMA WorkCopies ==
    ASSUME TypeOK, OneCopy, NEW w \in Workers, Work(w)
    PROVE  OneCopy'
<1>1. ASSUME NEW t \in Tasks, Deliver(w, t) PROVE OneCopy'
  <2> USE DEF OneCopy, Apart, Queued, Live, Holds, MsgOf, TypeOK, Goto, web
  <2>1. /\ queue[t] = 1 /\ t.msg \in Messages
        /\ \A v \in Workers : ~Live(v, t.msg)
        /\ route[t.msg] = "done"
    BY <1>1 DEF Deliver, Tasks
  <2>2. \A s \in Tasks : queue'[s] > 0 =>
           queue[s] > 0 /\ queue'[s] = queue[s] /\ s.msg # t.msg
    BY <1>1, <2>1 DEF Deliver
  <2> QED BY <1>1, <2>1, <2>2 DEF Deliver, rows
<1>3. CASE Retry(w)
  BY <1>3, RetryCopies
<1>4. CASE \/ Guard(w) \/ Fail(w) \/ WorkerMarkRead(w) \/ Flip(w) \/ Save(w)
           \/ NothingToShow(w) \/ WorkerMarkWrite(w) \/ WorkerRefund(w)
           \/ WorkerGoodwill(w) \/ Ack(w)
  <2>1. UNCHANGED <<route, queue>>
    BY <1>4 DEF Guard, Fail, WorkerMarkRead, Flip, Save, NothingToShow,
       WorkerMarkWrite, WorkerRefund, WorkerGoodwill, Ack, rows, web
  <2>2. pc[w] # "ack" \/ pc'[w] = "idle"
    BY <1>4 DEF Guard, Fail, WorkerMarkRead, Flip, Save, NothingToShow,
       WorkerMarkWrite, WorkerRefund, WorkerGoodwill, Ack, Release, Goto, TypeOK
  <2>3. pc[w] # "idle"
    BY <1>4 DEF Guard, Fail, WorkerMarkRead, Flip, Save, NothingToShow,
       WorkerMarkWrite, WorkerRefund, WorkerGoodwill, Ack, Release, Goto, TypeOK
  <2>4. /\ \A v \in Workers \ {w} : pc'[v] = pc[v] /\ job'[v] = job[v]
        /\ job'[w] = job[w] \/ pc'[w] = "idle"
    BY <1>4 DEF Guard, Fail, WorkerMarkRead, Flip, Save, NothingToShow,
       WorkerMarkWrite, WorkerRefund, WorkerGoodwill, Ack, Release, Goto, TypeOK
  <2>5. \A n \in Messages : \A v \in Workers : Live(v, n)' => Live(v, n)
    BY <2>2, <2>3, <2>4 DEF Live, Holds, MsgOf
  <2> QED BY <1>4, <2>1, <2>5, NothingNew DEF Next, Work
<1> QED BY <1>1, <1>3, <1>4 DEF Work

LEMMA SweepCopies ==
    ASSUME TypeOK, OneCopy, Sweep
    PROVE  OneCopy'
<1> USE DEF OneCopy, Apart, Queued, Live, Holds, MsgOf, web, fleet
<1>1. CASE SweepSelect
  BY <1>1 DEF SweepSelect, rows
<1>2. CASE SweepUpdate
  BY <1>2 DEF SweepUpdate
<1>3. ASSUME NEW m \in Messages, SweepRefund(m) PROVE OneCopy'
  BY <1>3 DEF SweepRefund
<1> QED BY <1>1, <1>2, <1>3 DEF Sweep

LEMMA FaultyCopies ==
    ASSUME TypeOK, OneCopy, NoCopies, Faulty
    PROVE  OneCopy'
<1> USE DEF OneCopy, Apart, Queued, Live, Holds, MsgOf, TypeOK, rows, web, fleet
<1>1. ASSUME NEW m \in Messages, RouteCrash(m) \/ RouteDbError(m) PROVE OneCopy'
  BY <1>1 DEF RouteCrash, RouteDbError, InRequest
<1>2. ASSUME NEW w \in Workers, CrashLost(w) \/ WorkerDbError(w) PROVE OneCopy'
  <2>1. UNCHANGED <<route, queue>>
    BY <1>2 DEF CrashLost, WorkerDbError
  <2>2. \A n \in Messages : \A v \in Workers : Live(v, n)' => Live(v, n)
    BY <1>2 DEF CrashLost, WorkerDbError, Release, Goto
  <2> HIDE DEF OneCopy, TypeOK, Live, Queued
  <2> QED BY <1>2, <2>1, <2>2, NothingNew DEF Next, Faulty
<1>3. ASSUME NEW t \in Tasks, BrokerLoses(t) PROVE OneCopy'
  <2>1. \A s \in Tasks : queue'[s] > 0 => queue[s] > 0 /\ queue'[s] = 1
    BY <1>3 DEF BrokerLoses
  <2> QED BY <1>3, <2>1 DEF BrokerLoses
<1>4. CASE SweepCrash
  BY <1>4 DEF SweepCrash
<1> QED BY <1>1, <1>2, <1>3, <1>4
        DEF Faulty, CrashRedelivered, Redeliver, Fault, NoCopies

LEMMA NextCopies ==
    ASSUME NoCopies
    PROVE  TypeOK /\ OneCopy /\ [Next]_vars => OneCopy'
<1> SUFFICES ASSUME TypeOK, OneCopy, [Next]_vars PROVE OneCopy'
  OBVIOUS
<1>1. CASE UNCHANGED vars
  BY <1>1 DEF vars, rows, web, fleet, OneCopy, Apart, Queued, Live, Holds, MsgOf
<1>2. CASE Next
  BY <1>2, WebCopies, WorkCopies, SweepCopies, FaultyCopies DEF Next
<1> QED BY <1>1, <1>2

LEMMA InitCopies == Init => OneCopy
  BY DEF Init, OneCopy, Apart, Live, Holds, Queued

LEMMA OneCopyInvariant ==
    ASSUME NoCopies
    PROVE  Spec => []OneCopy
  BY InitCopies, NextCopies, TypeCorrect, PTL DEF Spec

\* Two ways to keep the runs of a message apart: a single ML worker, which is
\* how compose.yaml deploys them, or a broker that never delivers a task twice.
Isolated == NoCopies \/ \A v, w \in Workers : v = w

LEMMA ApartInvariant ==
    ASSUME Isolated
    PROVE  Spec => []Apart
<1>1. CASE NoCopies
  <2>1. OneCopy => Apart
    BY DEF OneCopy
  <2> QED BY <1>1, <2>1, OneCopyInvariant, PTL
<1>2. CASE \A v, w \in Workers : v = w
  <2>1. Apart
    BY <1>2 DEF Apart
  <2> QED BY <2>1, PTL
<1> QED BY <1>1, <1>2 DEF Isolated

\* Whatever is retried, reaped, killed or (with a single worker) redelivered: a
\* message that is unfinished or failed has no result, because nobody writes
\* PROCESSING or FAILED over a finished analysis.
THEOREM UnfinishedEmpty ==
    ASSUME TellsPublish, NeverRestores, Isolated
    PROVE  Spec => []UnfinishedHasNoResult
<1>1. OpenInv => UnfinishedHasNoResult
  BY DEF OpenInv, UnfinishedHasNoResult
<1> QED BY <1>1, OpenInvariant, ApartInvariant, PTL

\* Under the same conditions COMPLETED is final: no late attempt, no failing
\* request and no reaper takes a finished analysis back.
THEOREM CompletedStays ==
    ASSUME TellsPublish, NeverRestores, Isolated
    PROVE  Spec => CompletedIsFinal
<1>1. TypeOK /\ ResultInv /\ OpenInv /\ [Next]_vars =>
         [\A m \in Messages : status[m] = "completed" =>
             status'[m] \in {"completed", "archived", "deleted"}]_vars
  BY FinalStep
<1> QED BY <1>1, TypeCorrect, ResultInvariant, OpenInvariant, ApartInvariant, PTL
        DEF Spec, CompletedIsFinal

-----------------------------------------------------------------------------
(* The fate of a message is settled once                                   *)

\* Only an open message may still get a result, a refund or a refusal, and the
\* reaper touches only messages that are over.
FateInv ==
    \A m \in Messages :
        /\ ~Closed(m) => ~result[m] /\ ~refunded[m] /\ m \notin refused
        /\ refunded[m] => ~result[m]
        /\ status[m] \in NonTerminal => ~result[m] /\ m \notin refused
        /\ stale[m] /\ status[m] \in NonTerminal => Closed(m)
        /\ m \in cand => Closed(m) /\ ~result[m] /\ m \notin refused
        /\ \A w \in Workers : Holds(w, m) /\ pc[w] = "goodwill" =>
              status[m] \notin NonTerminal

\* Who has a message in hand keeps it open.
LEMMA BusyOpen ==
    ASSUME NEW m \in Messages, NEW w \in Workers, Holds(w, m), pc[w] # "ack"
    PROVE  ~Closed(m)
  BY DEF Closed, Live

LEMMA RequestOpen ==
    ASSUME NEW m \in Messages, route[m] # "done"
    PROVE  ~Closed(m)
  BY DEF Closed

\* What closes a message: the end of its only run, or of its request.
LEMMA RunCloses ==
    ASSUME TypeOK, OneCopy, NEW m \in Messages, NEW w \in Workers, Live(w, m),
           UNCHANGED <<queue, route, job>>, pc' = [pc EXCEPT ![w] = "ack"]
    PROVE  Closed(m)'
<1>1. /\ route[m] = "done" /\ ~Queued(m)
      /\ \A v \in Workers : Live(v, m) => v = w
  BY DEF OneCopy, Apart, Queued
<1>2. \A v \in Workers : ~Live(v, m)'
  BY <1>1 DEF Live, Holds, MsgOf, TypeOK
<1> QED BY <1>1, <1>2 DEF Closed, Queued

LEMMA RequestCloses ==
    ASSUME TypeOK, OneCopy, NEW m \in Messages, route[m] # "done",
           UNCHANGED fleet, route' = [route EXCEPT ![m] = "done"]
    PROVE  Closed(m)'
  BY DEF OneCopy, Closed, Queued, Live, Holds, MsgOf, TypeOK, fleet

\* Nothing reopens a message.
LEMMA ClosedLasts ==
    ASSUME TypeOK, OneCopy, NoCopies, [Next]_vars, NEW m \in Messages, Closed(m)
    PROVE  Closed(m)'
<1>1. /\ route[m] = "done" /\ status[m] # "absent"
      /\ \A t \in Tasks : t.msg = m => queue[t] = 0
      /\ \A w \in Workers : ~Live(w, m)
  BY DEF Closed, OneCopy, Queued, TypeOK
<1> SUFFICES /\ route'[m] = "done"
             /\ \A t \in Tasks : t.msg = m => queue'[t] = 0
             /\ \A w \in Workers : ~Live(w, m)'
  BY DEF Closed, Queued
<1> USE <1>1 DEF TypeOK, Live, Holds, MsgOf, rows, web, fleet
<1>2. ASSUME NEW n \in Messages, User(n) \/ Web(n) \/ Age(n)
      PROVE  /\ route'[m] = "done" /\ UNCHANGED <<pc, job>>
             /\ \A t \in Tasks : t.msg = m => queue'[t] = 0
  <2>1. CASE Enqueue(n)
    <3>1. n # m /\ FirstTry(n) \in Tasks /\ FirstTry(n).msg = n
      BY <2>1, FirstTryType DEF Enqueue, FirstTry
    <3> QED BY <2>1, <3>1 DEF Enqueue, Publish
  <2>2. CASE Submit(n)
    BY <2>2 DEF Submit
  <2>3. CASE EnqueueFails(n) \/ RouteMarkRead(n) \/ RouteMarkWrite(n) \/ RouteRefund(n)
    BY <2>3 DEF EnqueueFails, RouteMarkRead, RouteMarkWrite, RouteRefund
  <2>4. CASE ArchiveRead(n) \/ UnarchiveRead(n) \/ EditCommit(n) \/ EditNote(n)
             \/ Delete(n) \/ Age(n)
    BY <2>4 DEF ArchiveRead, UnarchiveRead, EditCommit, EditNote, Delete, Age
  <2> QED BY <1>2, <2>1, <2>2, <2>3, <2>4
          DEF User, Web, EnqueueUnsure, Fault, NoCopies
<1>3. ASSUME NEW w \in Workers, Work(w)
      PROVE  /\ route'[m] = "done" /\ \A v \in Workers : ~Live(v, m)'
             /\ \A t \in Tasks : t.msg = m => queue'[t] = 0
  <2>1. ASSUME NEW t \in Tasks, Deliver(w, t)
        PROVE  /\ route'[m] = "done" /\ \A v \in Workers : ~Live(v, m)'
               /\ \A s \in Tasks : s.msg = m => queue'[s] = 0
    BY <2>1 DEF Deliver, Goto
  <2>2. CASE Retry(w)
    <3>1. job[w] \in Tasks /\ MsgOf(w) # m
      BY <2>2 DEF Retry
    <3>2. [job[w] EXCEPT !.retries = @ + 1].msg # m
      BY <3>1 DEF Tasks
    <3> QED BY <2>2, <3>2 DEF Retry, Publish, Goto
  <2>3. CASE \/ Guard(w) \/ Fail(w) \/ WorkerMarkRead(w) \/ Flip(w) \/ Save(w)
             \/ NothingToShow(w) \/ WorkerMarkWrite(w) \/ WorkerRefund(w)
             \/ WorkerGoodwill(w) \/ Ack(w)
    BY <2>3 DEF Guard, Fail, WorkerMarkRead, Flip, Save, NothingToShow,
       WorkerMarkWrite, WorkerRefund, WorkerGoodwill, Ack, Release, Goto
  <2> QED BY <1>3, <2>1, <2>2, <2>3 DEF Work
<1>4. ASSUME Sweep PROVE UNCHANGED <<route, queue, pc, job>>
  BY <1>4 DEF Sweep, SweepSelect, SweepUpdate, SweepRefund
<1>5. ASSUME Faulty
      PROVE  /\ route'[m] = "done" /\ \A v \in Workers : ~Live(v, m)'
             /\ \A t \in Tasks : t.msg = m => queue'[t] = 0
  <2>1. ASSUME NEW n \in Messages, RouteCrash(n) \/ RouteDbError(n)
        PROVE  route'[m] = "done" /\ UNCHANGED <<queue, pc, job>>
    BY <2>1 DEF RouteCrash, RouteDbError, InRequest
  <2>2. ASSUME NEW w \in Workers, CrashLost(w) \/ WorkerDbError(w)
        PROVE  UNCHANGED <<queue, route>> /\ \A v \in Workers : ~Live(v, m)'
    BY <2>2 DEF CrashLost, WorkerDbError, Release, Goto
  <2>3. ASSUME NEW t \in Tasks, BrokerLoses(t)
        PROVE  /\ UNCHANGED <<route, pc, job>>
               /\ \A s \in Tasks : s.msg = m => queue'[s] = 0
    BY <2>3 DEF BrokerLoses
  <2>4. CASE SweepCrash
    BY <2>4 DEF SweepCrash
  <2> QED BY <1>5, <2>1, <2>2, <2>3, <2>4
          DEF Faulty, CrashRedelivered, Redeliver, Fault, NoCopies
<1>6. CASE UNCHANGED vars
  BY <1>6 DEF vars
<1> QED BY <1>2, <1>3, <1>4, <1>5, <1>6 DEF Next

LEMMA WebFate ==
    ASSUME TypeOK, OneCopy, FateInv, Patient, NoCopies,
           \A n \in Messages : Closed(n) => Closed(n)',
           NEW m \in Messages, User(m) \/ Web(m) \/ Age(m)
    PROVE  FateInv'
<1> USE DEF FateInv, TypeOK, Holds, MsgOf, reaper, hist, NonTerminal
<1>1. CASE Submit(m)
  <2>1. ~Closed(m) /\ \A w \in Workers : Holds(w, m) => pc[w] = "ack"
    BY <1>1, BusyOpen, RequestOpen DEF Submit, OneCopy, Live
  <2> QED BY <1>1, <2>1 DEF Submit, SetStatus, fleet
<1>2. CASE ArchiveRead(m) \/ UnarchiveRead(m) \/ EditNote(m)
  BY <1>2 DEF ArchiveRead, UnarchiveRead, EditNote, fleet, rows, quota, web
<1>3. CASE EditCommit(m) \/ Delete(m)
  BY <1>3 DEF EditCommit, Delete, SetStatus, quota, web, fleet
<1>4. CASE Enqueue(m) \/ EnqueueFails(m) \/ RouteMarkRead(m)
  BY <1>4 DEF Enqueue, EnqueueFails, RouteMarkRead, rows, fleet
<1>5. CASE RouteMarkWrite(m)
  BY <1>5 DEF RouteMarkWrite, SetStatus, quota, fleet
<1>6. CASE RouteRefund(m)
  <2>1. ~Closed(m) /\ Closed(m)'
    BY <1>6, RequestOpen, RequestCloses DEF RouteRefund
  <2> QED BY <1>6, <2>1 DEF RouteRefund, Refund, Claim, quota, fleet
<1>7. CASE Age(m)
  <2>1. Closed(m)
    BY <1>7 DEF Age, MayAge, Closed, Queued, Live
  <2> QED BY <1>7, <2>1 DEF Age, quota, web, fleet
<1> QED BY <1>1, <1>2, <1>3, <1>4, <1>5, <1>6, <1>7
        DEF User, Web, EnqueueUnsure, Fault, NoCopies

LEMMA WorkFate ==
    ASSUME TypeOK, OneCopy, FateInv,
           \A n \in Messages : Closed(n) => Closed(n)',
           NEW w \in Workers, Work(w)
    PROVE  FateInv'
<1> USE DEF FateInv, TypeOK, Holds, MsgOf, reaper, hist, NonTerminal, Goto
<1>1. ASSUME NEW t \in Tasks, Deliver(w, t) PROVE FateInv'
  BY <1>1 DEF Deliver, rows
<1>2. CASE Guard(w) \/ Retry(w) \/ Fail(w) \/ WorkerMarkRead(w) \/ Ack(w)
  BY <1>2 DEF Guard, Retry, Fail, WorkerMarkRead, Ack, Release, rows
<1>3. ASSUME pc[w] \notin {"idle", "ack"}
      PROVE  /\ MsgOf(w) \in Messages /\ ~Closed(MsgOf(w)) /\ Live(w, MsgOf(w))
             /\ \A v \in Workers : Live(v, MsgOf(w)) => v = w
  <2>1. MsgOf(w) \in Messages /\ Live(w, MsgOf(w))
    BY <1>3, HeldType DEF Live
  <2> QED BY <1>3, <2>1, BusyOpen DEF OneCopy, Apart
<1>4. CASE Flip(w) \/ NothingToShow(w) \/ WorkerMarkWrite(w)
  BY <1>3, <1>4 DEF Flip, NothingToShow, WorkerMarkWrite, SetStatus, quota, Live
<1>5. CASE Save(w)
  <2>1. PICK m \in Messages : m = MsgOf(w)
    BY <1>3, <1>5 DEF Save
  <2>2. ~Closed(m) /\ Closed(m)'
    BY <1>3, <1>5, <2>1, RunCloses DEF Save, web
  <2> QED BY <1>5, <2>1, <2>2 DEF Save, SetStatus, quota
<1>6. CASE WorkerRefund(w)
  <2>1. PICK m \in Messages : m = MsgOf(w)
    BY <1>3, <1>6 DEF WorkerRefund
  <2>2. ~Closed(m) /\ Closed(m)'
    BY <1>3, <1>6, <2>1, RunCloses DEF WorkerRefund, web
  <2> QED BY <1>6, <2>1, <2>2 DEF WorkerRefund, Refund, Claim, quota
<1>7. CASE WorkerGoodwill(w)
  <2>1. PICK m \in Messages : m = MsgOf(w)
    BY <1>3, <1>7 DEF WorkerGoodwill
  <2>2. ~Closed(m) /\ Closed(m)'
    BY <1>3, <1>7, <2>1, RunCloses DEF WorkerGoodwill, web
  <2>3. status[m] \notin NonTerminal
    BY <1>7, <2>1 DEF WorkerGoodwill
  <2> QED BY <1>7, <2>1, <2>2, <2>3
          DEF WorkerGoodwill, RefundNothingToShow, Claim, quota
<1> QED BY <1>1, <1>2, <1>4, <1>5, <1>6, <1>7 DEF Work

LEMMA SweepFate ==
    ASSUME TypeOK, FateInv, \A n \in Messages : Closed(n) => Closed(n)', Sweep
    PROVE  FateInv'
<1> USE DEF FateInv, TypeOK, Holds, MsgOf, web, fleet, hist, quota, Matched, Stuck
<1>1. CASE SweepSelect
  BY <1>1 DEF SweepSelect, rows
<1>2. CASE SweepUpdate
  BY <1>2 DEF SweepUpdate, NonTerminal
<1>3. ASSUME NEW m \in Messages, SweepRefund(m) PROVE FateInv'
  BY <1>3 DEF SweepRefund, Refund, Claim
<1> QED BY <1>1, <1>2, <1>3 DEF Sweep

LEMMA FaultyFate ==
    ASSUME TypeOK, FateInv, \A n \in Messages : Closed(n) => Closed(n)',
           NoCopies, Faulty
    PROVE  FateInv'
<1> USE DEF FateInv, TypeOK, Holds, MsgOf, rows, web, fleet, reaper
<1>1. ASSUME NEW m \in Messages, RouteCrash(m) \/ RouteDbError(m) PROVE FateInv'
  BY <1>1 DEF RouteCrash, RouteDbError
<1>2. ASSUME NEW w \in Workers, CrashLost(w) \/ WorkerDbError(w) PROVE FateInv'
  BY <1>2 DEF CrashLost, WorkerDbError, Release, Goto
<1>3. ASSUME NEW t \in Tasks, BrokerLoses(t) PROVE FateInv'
  BY <1>3 DEF BrokerLoses
<1>4. CASE SweepCrash
  BY <1>4 DEF SweepCrash
<1> QED BY <1>1, <1>2, <1>3, <1>4
        DEF Faulty, CrashRedelivered, Redeliver, Fault, NoCopies

LEMMA NextFate ==
    ASSUME Patient, NoCopies
    PROVE  TypeOK /\ OneCopy /\ FateInv /\ [Next]_vars => FateInv'
<1> SUFFICES ASSUME TypeOK, OneCopy, FateInv, [Next]_vars PROVE FateInv'
  OBVIOUS
<1>1. \A m \in Messages : Closed(m) => Closed(m)'
  BY ClosedLasts
<1>2. CASE UNCHANGED vars
  BY <1>1, <1>2 DEF vars, rows, web, fleet, reaper, hist, FateInv, Holds, MsgOf
<1>3. CASE Next
  BY <1>1, <1>3, WebFate, WorkFate, SweepFate, FaultyFate DEF Next
<1> QED BY <1>2, <1>3

LEMMA InitFate == Init => FateInv
  BY DEF Init, FateInv, NonTerminal, Holds

LEMMA FateInvariant ==
    ASSUME Patient, NoCopies
    PROVE  Spec => []FateInv
  BY InitFate, NextFate, TypeCorrect, OneCopyInvariant, PTL DEF Spec

\* No analysis comes for free, however the requests of the user, the retries,
\* the reaper and the losses interleave: a message with a result keeps paying.
THEOREM PaidFor ==
    ASSUME Patient, NoCopies
    PROVE  Spec => []NoFreeResult
<1>1. FateInv => NoFreeResult
  BY DEF FateInv, NoFreeResult
<1> QED BY <1>1, FateInvariant, PTL

\* A user never receives more analyses than the lifetime allowance.
THEOREM LifetimeBound ==
    ASSUME Patient, NoCopies
    PROVE  Spec => []ResultsBounded
<1>1. QuotaInv /\ OneCopy /\ FateInv => ResultsBounded
  <2> SUFFICES ASSUME QuotaInv, OneCopy, FateInv, NEW u \in Users
               PROVE  Cardinality({m \in Messages : Owner[m] = u /\ result[m]})
                         <= Allowance
    BY DEF ResultsBounded
  <2> DEFINE Received == {m \in Messages : Owner[m] = u /\ result[m]}
  <2>1. Received \subseteq Held(u)
    BY RequestOpen DEF Held, FateInv, OneCopy
  <2>2. IsFiniteSet(Held(u)) /\ Cardinality(Held(u)) <= Allowance
    BY SlotSetsFinite DEF QuotaInv, QuotaConserved, SlotsBounded
  <2>3. /\ Cardinality(Received) \in Nat /\ Cardinality(Held(u)) \in Nat
        /\ Cardinality(Received) <= Cardinality(Held(u))
    BY <2>1, <2>2, FS_Subset, FS_CardinalityType
  <2> QED BY <2>2, <2>3, ConstantsOK
<1> QED BY <1>1, QuotaInvariant, OneCopyInvariant, FateInvariant, PTL

\* A step over a message whose refund was refused.
LEMMA RefusalStep ==
    ASSUME TypeOK, FateInv, [Next]_vars, NEW m \in Messages, m \in refused
    PROVE  refunded'[m] = refunded[m]
<1> USE DEF TypeOK, quota, rows
<1>1. Closed(m) /\ m \notin cand
  BY DEF FateInv
<1>2. ASSUME NEW n \in Messages, User(n) \/ Web(n) \/ Age(n)
      PROVE  refunded'[m] = refunded[m]
  <2>1. CASE RouteRefund(n)
    <3>1. n # m
      BY <1>1, <2>1, RequestOpen DEF RouteRefund
    <3> QED BY <2>1, <3>1 DEF RouteRefund, Refund, Claim
  <2> QED BY <1>2, <2>1 DEF User, Web, Submit, ArchiveRead, UnarchiveRead,
        EditCommit, EditNote, Delete, Enqueue, EnqueueFails, EnqueueUnsure,
        RouteMarkRead, RouteMarkWrite, Age
<1>3. ASSUME NEW w \in Workers, Work(w)
      PROVE  refunded'[m] = refunded[m]
  <2>1. CASE WorkerRefund(w) \/ WorkerGoodwill(w)
    <3>1. MsgOf(w) \in Messages /\ MsgOf(w) # m
      BY <1>1, <2>1, HeldType, BusyOpen DEF WorkerRefund, WorkerGoodwill, Holds
    <3> QED BY <2>1, <3>1 DEF WorkerRefund, WorkerGoodwill, Refund,
            RefundNothingToShow, Claim
  <2> QED BY <1>3, <2>1 DEF Work, Deliver, Guard, Flip, Save, NothingToShow, Retry,
        Fail, WorkerMarkRead, WorkerMarkWrite, Ack
<1>4. CASE Sweep
  BY <1>1, <1>4 DEF Sweep, SweepSelect, SweepUpdate, SweepRefund, Refund, Claim
<1>5. CASE Faulty
  BY <1>5 DEF Faulty, RouteCrash, RouteDbError, CrashLost, CrashRedelivered,
     Redeliver, WorkerDbError, BrokerLoses, SweepCrash
<1>6. CASE UNCHANGED vars
  BY <1>6 DEF vars
<1> QED BY <1>2, <1>3, <1>4, <1>5, <1>6 DEF Next

\* Past the cap a slot stays consumed: nobody returns it later by the other way.
THEOREM RefusalStands ==
    ASSUME Patient, NoCopies
    PROVE  Spec => RefusalIsFinal
<1>1. TypeOK /\ FateInv /\ [Next]_vars => [\A m \in refused : refunded'[m] = refunded[m]]_vars
  BY RefusalStep DEF TypeOK
<1> QED BY <1>1, TypeCorrect, FateInvariant, PTL DEF Spec, RefusalIsFinal

-----------------------------------------------------------------------------
(* What is put away stays away                                             *)

\* Somebody may still write PROCESSING, COMPLETED or FAILED over message m.
Undecided(m) ==
    \/ Queued(m)
    \/ route[m] \in {"publish", "markRead", "markWrite"}
    \/ \E w \in Workers : Holds(w, m) /\ pc[w] \in Deciding \cup {"guard"}

\* Only a message that is not decided yet is in the hands of such a writer, and
\* the user puts away only what is decided.
AwayInv ==
    \A m \in Messages :
        /\ Undecided(m) => status[m] \in NonTerminal \cup {"deleted"}
        /\ edit[m] # "none" => ~Undecided(m) /\ status[m] # "absent"

LEMMA UndecidedOpen ==
    ASSUME NEW m \in Messages, Undecided(m)
    PROVE  ~Closed(m)
  BY DEF Undecided, Closed, Live, Deciding

LEMMA ClosedDecided ==
    ASSUME NEW m \in Messages, Closed(m)'
    PROVE  ~Undecided(m)'
  BY DEF Undecided, Closed, Live, Deciding

\* Only a submission opens a decision.
LEMMA UndecidedStep ==
    ASSUME TypeOK, NoCopies, [Next]_vars, NEW m \in Messages, Undecided(m)'
    PROVE  Undecided(m) \/ Submit(m)
<1> USE DEF TypeOK, Undecided, Queued, Holds, MsgOf, Deciding, rows, web, fleet
<1>1. ASSUME NEW n \in Messages, User(n) \/ Web(n) \/ Age(n)
      PROVE  Undecided(m) \/ Submit(m)
  <2>1. CASE Enqueue(n)
    <3>1. FirstTry(n) \in Tasks /\ FirstTry(n).msg = n
      BY FirstTryType DEF FirstTry
    <3>2. \A t \in Tasks : queue'[t] > 0 => queue[t] > 0 \/ t.msg = n
      BY <2>1, <3>1 DEF Enqueue, Publish
    <3> QED BY <2>1, <3>2 DEF Enqueue
  <2>2. CASE Submit(n)
    BY <2>2 DEF Submit
  <2>3. CASE EnqueueFails(n) \/ RouteMarkRead(n) \/ RouteMarkWrite(n) \/ RouteRefund(n)
    BY <2>3 DEF EnqueueFails, RouteMarkRead, RouteMarkWrite, RouteRefund
  <2>4. CASE ArchiveRead(n) \/ UnarchiveRead(n) \/ EditCommit(n) \/ EditNote(n)
             \/ Delete(n) \/ Age(n)
    BY <2>4 DEF ArchiveRead, UnarchiveRead, EditCommit, EditNote, Delete, Age
  <2> QED BY <1>1, <2>1, <2>2, <2>3, <2>4
          DEF User, Web, EnqueueUnsure, Fault, NoCopies
<1>2. ASSUME NEW w \in Workers, Work(w)
      PROVE  Undecided(m)
  <2>1. ASSUME NEW t \in Tasks, Deliver(w, t) PROVE Undecided(m)
    BY <2>1 DEF Deliver, Goto
  <2>2. CASE Retry(w)
    <3>1. job[w] \in Tasks /\ Publish([job[w] EXCEPT !.retries = @ + 1])
      BY <2>2 DEF Retry
    <3>2. [job[w] EXCEPT !.retries = @ + 1].msg = MsgOf(w)
      BY <3>1 DEF Tasks
    <3>3. \A t \in Tasks : queue'[t] > 0 => queue[t] > 0 \/ t.msg = MsgOf(w)
      BY <3>1, <3>2 DEF Publish
    <3> QED BY <2>2, <3>3 DEF Retry, Goto
  <2>3. CASE \/ Guard(w) \/ Fail(w) \/ WorkerMarkRead(w) \/ Flip(w) \/ Save(w)
             \/ NothingToShow(w) \/ WorkerMarkWrite(w) \/ WorkerRefund(w)
             \/ WorkerGoodwill(w) \/ Ack(w)
    BY <2>3 DEF Guard, Fail, WorkerMarkRead, Flip, Save, NothingToShow,
       WorkerMarkWrite, WorkerRefund, WorkerGoodwill, Ack, Release, Goto
  <2> QED BY <1>2, <2>1, <2>2, <2>3 DEF Work
<1>3. CASE Sweep
  BY <1>3 DEF Sweep, SweepSelect, SweepUpdate, SweepRefund
<1>4. CASE Faulty
  <2>1. ASSUME NEW n \in Messages, RouteCrash(n) \/ RouteDbError(n) PROVE Undecided(m)
    BY <2>1 DEF RouteCrash, RouteDbError
  <2>2. ASSUME NEW w \in Workers, CrashLost(w) \/ WorkerDbError(w) PROVE Undecided(m)
    BY <2>2 DEF CrashLost, WorkerDbError, Release, Goto
  <2>3. ASSUME NEW t \in Tasks, BrokerLoses(t) PROVE Undecided(m)
    BY <2>3 DEF BrokerLoses
  <2>4. CASE SweepCrash
    BY <2>4 DEF SweepCrash
  <2> QED BY <1>4, <2>1, <2>2, <2>3, <2>4
          DEF Faulty, CrashRedelivered, Redeliver, Fault, NoCopies
<1>5. CASE UNCHANGED vars
  BY <1>5 DEF vars
<1> QED BY <1>1, <1>2, <1>3, <1>4, <1>5 DEF Next

LEMMA NextAway ==
    ASSUME NoCopies, NeverRestores
    PROVE  TypeOK /\ OneCopy /\ FateInv /\ AwayInv /\ [Next]_vars => AwayInv'
<1> SUFFICES ASSUME TypeOK, OneCopy, FateInv, AwayInv, [Next]_vars PROVE AwayInv'
  OBVIOUS
<1>1. \A n \in Messages : Undecided(n)' => Undecided(n) \/ Submit(n)
  BY UndecidedStep
<1> USE DEF AwayInv, TypeOK, NonTerminal
<1>2. ASSUME NEW m \in Messages, Submit(m) PROVE AwayInv'
  <2>1. \A n \in Messages : n # m => status'[n] = status[n] /\ route'[n] = route[n]
    BY <1>2 DEF Submit, SetStatus
  <2>2. \A n \in Messages : Submit(n) => n = m
    BY <2>1 DEF Submit, OneCopy
  <2>3. edit' = edit /\ edit[m] = "none" /\ status'[m] = "pending"
    BY <1>2 DEF Submit, SetStatus
  <2>4. \A n \in Messages : n # m => (Undecided(n)' => Undecided(n))
    BY <1>1, <2>2
  <2> QED BY <2>1, <2>3, <2>4
<1>3. ASSUME \A n \in Messages : ~Submit(n) PROVE AwayInv'
  <2>1. \A n \in Messages : Undecided(n)' => Undecided(n)
    BY <1>1, <1>3
  <2>2. ASSUME NEW m \in Messages, User(m) \/ Web(m) \/ Age(m) PROVE AwayInv'
    <3>1. CASE ArchiveRead(m)
      BY <2>1, <3>1 DEF ArchiveRead, Archivable, rows
    <3>2. CASE EditNote(m) \/ Age(m)
      BY <2>1, <3>2 DEF EditNote, Age, web
    <3>3. CASE EditCommit(m)
      BY <2>1, <3>3 DEF EditCommit, SetStatus
    <3>4. CASE Delete(m)
      BY <2>1, <3>4 DEF Delete, SetStatus, web
    <3>5. CASE Enqueue(m) \/ EnqueueFails(m) \/ RouteMarkRead(m) \/ RouteRefund(m)
      BY <2>1, <3>5 DEF Enqueue, EnqueueFails, RouteMarkRead, RouteRefund, rows
    <3>6. CASE RouteMarkWrite(m)
      <4>1. ~Undecided(m)'
        BY <3>6 DEF RouteMarkWrite, OneCopy, Undecided, Queued, Live, Holds, MsgOf,
           Deciding, fleet
      <4> QED BY <2>1, <3>6, <4>1 DEF RouteMarkWrite, SetStatus
    <3> QED BY <1>3, <2>2, <3>1, <3>2, <3>3, <3>4, <3>5, <3>6
            DEF User, Web, UnarchiveRead, NeverRestores, EnqueueUnsure, Fault, NoCopies
  <2>3. ASSUME NEW w \in Workers, Work(w) PROVE AwayInv'
    <3>1. ASSUME pc[w] \in Deciding
          PROVE  \E m \in Messages : m = MsgOf(w) /\ Live(w, m) /\ Undecided(m)
      BY <3>1, HeldType DEF Deciding, Undecided, Live, Holds
    <3>2. CASE Flip(w)
      BY <2>1, <3>1, <3>2 DEF Flip, SetStatus, Deciding, web
    <3>3. CASE NothingToShow(w) \/ WorkerMarkWrite(w)
      <4>1. PICK m \in Messages : m = MsgOf(w) /\ Live(w, m) /\ Undecided(m)
        BY <3>1, <3>3 DEF NothingToShow, WorkerMarkWrite, Deciding
      <4>2. /\ route[m] = "done" /\ ~Queued(m)
            /\ \A v \in Workers : Live(v, m) => v = w
        BY <4>1 DEF OneCopy, Apart, Queued
      <4>3. ~Undecided(m)'
        BY <3>3, <4>2 DEF NothingToShow, WorkerMarkWrite, Undecided, Queued, Live,
           Holds, MsgOf, Deciding, Goto, web
      <4> QED BY <2>1, <3>3, <4>1, <4>3 DEF NothingToShow, WorkerMarkWrite, SetStatus, web
    <3>4. CASE Save(w)
      <4>1. PICK m \in Messages : m = MsgOf(w) /\ Live(w, m) /\ Undecided(m)
        BY <3>1, <3>4 DEF Save, Deciding
      <4>2. ~Undecided(m)'
        BY <3>4, <4>1, RunCloses, ClosedDecided DEF Save, Goto, web
      <4> QED BY <2>1, <3>4, <4>1, <4>2 DEF Save, SetStatus, web
    <3>5. CASE \/ Guard(w) \/ Retry(w) \/ Fail(w) \/ WorkerMarkRead(w)
               \/ WorkerRefund(w) \/ WorkerGoodwill(w) \/ Ack(w)
               \/ \E t \in Tasks : Deliver(w, t)
      BY <2>1, <3>5 DEF Guard, Retry, Fail, WorkerMarkRead, WorkerRefund,
         WorkerGoodwill, Ack, Deliver, rows, web
    <3> QED BY <2>3, <3>2, <3>3, <3>4, <3>5 DEF Work
  <2>4. CASE Sweep
    <3>1. CASE SweepUpdate
      <4>1. \A m \in Messages : Matched(m) => ~Undecided(m)
        BY UndecidedOpen DEF Matched, FateInv
      <4> QED BY <2>1, <3>1, <4>1 DEF SweepUpdate, Matched, Stuck, web
    <3> QED BY <2>1, <2>4, <3>1 DEF Sweep, SweepSelect, SweepRefund, rows, web
  <2>5. CASE Faulty
    BY <2>1, <2>5 DEF Faulty, RouteCrash, RouteDbError, CrashLost, CrashRedelivered,
       Redeliver, WorkerDbError, BrokerLoses, SweepCrash, rows, web
  <2>6. CASE UNCHANGED vars
    BY <2>1, <2>6 DEF vars, rows, web
  <2> QED BY <2>2, <2>3, <2>4, <2>5, <2>6 DEF Next
<1> QED BY <1>2, <1>3

LEMMA InitAway == Init => AwayInv
  BY ConstantsOK DEF Init, AwayInv, Undecided, Queued, Holds

LEMMA AwayInvariant ==
    ASSUME Patient, NoCopies, NeverRestores
    PROVE  Spec => []AwayInv
  BY InitAway, NextAway, TypeCorrect, OneCopyInvariant, FateInvariant, PTL DEF Spec

\* A step over an archived message.
LEMMA AwayStep ==
    ASSUME TypeOK, FateInv, AwayInv, [Next]_vars, NEW m \in Messages,
           status[m] = "archived"
    PROVE  \/ status'[m] \in {"archived", "deleted"}
           \/ edit[m] # "none" /\ edit'[m] = "none"
<1> USE DEF TypeOK, rows
<1>1. ~Undecided(m)
  BY DEF AwayInv, NonTerminal
<1>2. ASSUME NEW n \in Messages, User(n) \/ Web(n) \/ Age(n)
      PROVE  \/ status'[m] \in {"archived", "deleted"}
             \/ edit[m] # "none" /\ edit'[m] = "none"
  <2>1. route[m] # "markWrite"
    BY <1>1 DEF Undecided
  <2> QED BY <1>2, <2>1 DEF User, Web, Submit, ArchiveRead, UnarchiveRead,
        EditCommit, EditNote, Delete, Enqueue, EnqueueFails, EnqueueUnsure,
        RouteMarkRead, RouteMarkWrite, RouteRefund, Age, SetStatus
<1>3. ASSUME NEW w \in Workers, Work(w) PROVE status'[m] = "archived"
  <2>1. CASE Flip(w) \/ Save(w) \/ NothingToShow(w) \/ WorkerMarkWrite(w)
    <3>1. MsgOf(w) # m
      BY <1>1, <2>1 DEF Undecided, Holds, Deciding, Flip, Save, NothingToShow,
         WorkerMarkWrite
    <3> QED BY <2>1, <3>1 DEF Flip, Save, NothingToShow, WorkerMarkWrite, SetStatus
  <2> QED BY <1>3, <2>1 DEF Work, Deliver, Guard, Retry, Fail, WorkerMarkRead,
        WorkerRefund, WorkerGoodwill, Ack
<1>4. CASE Sweep
  BY <1>4 DEF Sweep, SweepSelect, SweepUpdate, SweepRefund, Matched, Stuck, NonTerminal
<1>5. CASE Faulty
  BY <1>5 DEF Faulty, RouteCrash, RouteDbError, CrashLost, CrashRedelivered,
     Redeliver, WorkerDbError, BrokerLoses, SweepCrash
<1>6. CASE UNCHANGED vars
  BY <1>6 DEF vars
<1> QED BY <1>2, <1>3, <1>4, <1>5, <1>6 DEF Next

\* What the user archived stays archived until he himself brings it back.
THEOREM ArchiveHolds ==
    ASSUME Patient, NoCopies, NeverRestores
    PROVE  Spec => ArchivedStaysArchived
<1>1. TypeOK /\ FateInv /\ AwayInv /\ [Next]_vars =>
         [\A m \in Messages : status[m] = "archived" =>
            \/ status'[m] \in {"archived", "deleted"}
            \/ edit[m] # "none" /\ edit'[m] = "none"]_vars
  BY AwayStep
<1> QED BY <1>1, TypeCorrect, FateInvariant, AwayInvariant, PTL
        DEF Spec, ArchivedStaysArchived

=============================================================================

------------------------------ MODULE Analysis ------------------------------
(***************************************************************************)
(* The life of a submitted message: the web request that takes a quota     *)
(* slot and queues the analysis, the broker, the ML workers running        *)
(* analyze_message, the reaper sweep_stuck_analyses, and the user who      *)
(* archives, restores, annotates or deletes the message meanwhile.         *)
(*                                                                         *)
(* One action is one database transaction or one broker call: those are    *)
(* the points at which the processes interleave (PostgreSQL READ           *)
(* COMMITTED).  A conditional UPDATE is atomic; an ORM read followed by a  *)
(* later write is two actions.                                             *)
(*                                                                         *)
(* No action uses the operators named Mut...: each is the definition below *)
(* it with a slip a maintainer could make, kept to confirm that the        *)
(* properties at the end of the module notice it.                          *)
(***************************************************************************)
EXTENDS Naturals, FiniteSets

CONSTANTS
    Messages,    \* message ids
    Users,       \* user ids
    Owner,       \* the user who submits each message
    Workers,     \* ML worker processes (--queues=ml)
    Allowance,   \* ANALYSIS_LIFETIME_QUOTA
    Cap,         \* NOTHING_TO_SHOW_REFUND_CAP
    MaxRetries,  \* max_retries of analyze_message
    Patient,     \* TRUE: a row gets stuck only when no task of it is left
    UserOps,     \* which requests the user makes besides submitting
    FaultKinds,  \* which faults the environment commits
    MaxFaults,   \* bound: how many of them
    NoJob        \* an idle worker's task

AllUserOps == {"archive", "unarchive", "note", "delete"}
AllFaults == {"web", "publish", "broker", "child", "worker", "duplicate",
              "sweeper", "dberror"}

ASSUME ConstantsOK ==
    /\ IsFiniteSet(Messages)
    /\ Owner \in [Messages -> Users]
    /\ Allowance \in Nat /\ Cap \in Nat /\ MaxRetries \in Nat
    /\ Patient \in BOOLEAN
    /\ UserOps \subseteq AllUserOps
    /\ FaultKinds \subseteq AllFaults
    /\ MaxFaults \in Nat

Tasks == [msg : Messages, retries : 0..MaxRetries]
ASSUME NoJobIsNoTask == NoJob \notin Tasks

VARIABLES
    (* the rows of the database *)
    status,    \* messages.status, or "absent" / "deleted"
    result,    \* the message has its analysis_results row
    refunded,  \* messages.quota_refunded
    stale,     \* messages.updated_at is older than the reaper's cutoff
    used,      \* users.analyses_used
    nts,       \* users.nothing_to_show_refunds_used
    (* the web requests *)
    route,     \* where new_message is, per message
    edit,      \* the status an archive or restore request is about to write
    (* the broker and the workers *)
    queue,     \* copies of each task waiting for delivery
    pc,        \* where each worker is in analyze_message
    job,       \* the task each worker runs
    stamped,   \* this run wrote updated_at itself (the flip to PROCESSING)
    (* the reaper *)
    sweep,     \* where sweep_stuck_analyses is
    cand,      \* its candidate_ids
    faults,    \* faults committed so far
    refused,   \* history: messages whose refund the nothing-to-show cap refused
    cut        \* history: messages whose FAILED was committed and whose refund
               \* was then cut off by a crash or a database error

rows    == <<status, result, refunded, stale, used, nts>>
quota   == <<refunded, used, nts>>
web     == <<route, edit>>
fleet   == <<queue, pc, job, stamped>>
reaper  == <<sweep, cand>>
hist    == <<faults, refused, cut>>
vars    == <<rows, web, fleet, reaper, hist>>

-----------------------------------------------------------------------------
(* Row level helpers                                                       *)

NonTerminal == {"pending", "processing"}
Statuses == NonTerminal \cup {"completed", "failed", "archived"}

Exists(m) == status[m] \in Statuses

\* Every UPDATE of the row refreshes updated_at (onupdate).
SetStatus(m, s) == /\ status' = [status EXCEPT ![m] = s]
                   /\ stale' = [stale EXCEPT ![m] = FALSE]

MutAlreadyDone(m) == status[m] = "completed"
AlreadyDone(m) == status[m] = "completed" \/ result[m]

\* mark_analysis_failed writes only over a status that is neither COMPLETED
\* (it returns) nor FAILED (assigning the same value emits no UPDATE).
MustMarkFailed(m) == Exists(m) /\ status[m] \notin {"completed", "failed"}

MutStuck(m) == status[m] = "pending" /\ stale[m]
\* The WHERE clause of the sweep.
Stuck(m) == status[m] \in NonTerminal /\ stale[m]

MutHasSlot(u) == used[u] <= Allowance
HasSlot(u) == used[u] < Allowance

\* refund_analysis: claim quota_refunded, then decrement; one transaction.
Claim(m) == /\ refunded' = [refunded EXCEPT ![m] = TRUE]
            /\ used' = [used EXCEPT ![Owner[m]] = @ - 1]
            /\ stale' = [stale EXCEPT ![m] = FALSE]

MutUnguarded(m) == Exists(m)
MutUnclaimed(m) == Exists(m) /\ used[Owner[m]] > 0
MutKeepsLast(m) == Exists(m) /\ ~refunded[m] /\ used[Owner[m]] > 1
Refundable(m) == Exists(m) /\ ~refunded[m] /\ used[Owner[m]] > 0

Refund(m) ==
    IF Refundable(m) THEN Claim(m) /\ UNCHANGED nts
                     ELSE UNCHANGED <<quota, stale>>

MutWithinBudget(u) == nts[u] <= Cap
WithinBudget(u) == nts[u] < Cap

\* refund_nothing_to_show: spend the capped budget first; one transaction.
RefundNothingToShow(m) ==
    IF Refundable(m) /\ WithinBudget(Owner[m])
    THEN Claim(m) /\ nts' = [nts EXCEPT ![Owner[m]] = @ + 1]
    ELSE UNCHANGED <<quota, stale>>

Fault(kind) == /\ kind \in FaultKinds
               /\ faults < MaxFaults
               /\ faults' = faults + 1

\* The refunds of these messages will not be tried again.
CutOff(ms) == cut' = cut \cup ms

-----------------------------------------------------------------------------
(* new_message: the submission request                                     *)

\* consume_and_create_message: conditional UPDATE and INSERT in one commit.
Submit(m) ==
    /\ status[m] = "absent"
    /\ HasSlot(Owner[m])
    /\ used' = [used EXCEPT ![Owner[m]] = @ + 1]
    /\ SetStatus(m, "pending")
    /\ route' = [route EXCEPT ![m] = "publish"]
    /\ UNCHANGED <<result, refunded, nts, edit, fleet, reaper, hist>>

FirstTry(m) == [msg |-> m, retries |-> 0]
Publish(t) == queue' = [queue EXCEPT ![t] = @ + 1]

Enqueue(m) ==
    /\ route[m] = "publish"
    /\ Publish(FirstTry(m))
    /\ route' = [route EXCEPT ![m] = "done"]
    /\ UNCHANGED <<rows, edit, pc, job, stamped, reaper, hist>>

\* delay() raised: the broker was unreachable ...
EnqueueFails(m) ==
    /\ route[m] = "publish"
    /\ route' = [route EXCEPT ![m] = "markRead"]
    /\ UNCHANGED <<rows, edit, fleet, reaper, hist>>

\* ... or it took the task and the connection broke before it said so.
EnqueueUnsure(m) ==
    /\ route[m] = "publish"
    /\ Fault("publish")
    /\ Publish(FirstTry(m))
    /\ route' = [route EXCEPT ![m] = "markRead"]
    /\ UNCHANGED <<rows, edit, pc, job, stamped, reaper, refused, cut>>

\* mark_analysis_failed(message.id): the read, then the write.
RouteMarkRead(m) ==
    /\ route[m] = "markRead"
    /\ route' = [route EXCEPT
          ![m] = IF MustMarkFailed(m) THEN "markWrite" ELSE "refund"]
    /\ UNCHANGED <<rows, edit, fleet, reaper, hist>>

RouteMarkWrite(m) ==
    /\ route[m] = "markWrite"
    /\ IF Exists(m) THEN SetStatus(m, "failed") ELSE UNCHANGED <<status, stale>>
    /\ route' = [route EXCEPT ![m] = "refund"]
    /\ UNCHANGED <<result, quota, edit, fleet, reaper, hist>>

RouteRefund(m) ==
    /\ route[m] = "refund"
    /\ Refund(m)
    /\ route' = [route EXCEPT ![m] = "done"]
    /\ UNCHANGED <<status, result, edit, fleet, reaper, hist>>

InRequest == {"publish", "markRead", "markWrite", "refund"}

\* The web process dies in the middle of the request.
RouteCrash(m) ==
    /\ route[m] \in InRequest
    /\ Fault("web")
    /\ route' = [route EXCEPT ![m] = "done"]
    /\ CutOff({x \in {m} : route[x] = "refund"})
    /\ UNCHANGED <<rows, edit, fleet, reaper, refused>>

\* A database error in its failure branch is swallowed by the helpers.
RouteDbError(m) ==
    /\ route[m] \in {"markRead", "markWrite", "refund"}
    /\ Fault("dberror")
    /\ route' = [route EXCEPT ![m] = IF @ = "refund" THEN "done" ELSE "refund"]
    /\ CutOff({x \in {m} : route[x] = "refund"})
    /\ UNCHANGED <<rows, edit, fleet, reaper, refused>>

Web(m) == \/ Enqueue(m) \/ EnqueueFails(m) \/ EnqueueUnsure(m)
          \/ RouteMarkRead(m) \/ RouteMarkWrite(m) \/ RouteRefund(m)

-----------------------------------------------------------------------------
(* analyze_message on an ML worker                                         *)

MsgOf(w) == job[w].msg
Goto(w, l) == pc' = [pc EXCEPT ![w] = l]

Deliver(w, t) ==
    /\ pc[w] = "idle"
    /\ queue[t] > 0
    /\ queue' = [queue EXCEPT ![t] = @ - 1]
    /\ job' = [job EXCEPT ![w] = t]
    /\ Goto(w, "guard")
    /\ UNCHANGED <<rows, web, stamped, reaper, hist>>

\* Re-fetch by id and the skip-if-done guard.
Guard(w) ==
    LET m == MsgOf(w) IN
    /\ pc[w] = "guard"
    /\ Goto(w, IF ~Exists(m) \/ AlreadyDone(m) THEN "ack"
               ELSE IF status[m] = "processing" THEN "run" ELSE "flip")
    /\ UNCHANGED <<rows, web, queue, job, stamped, reaper, hist>>

\* PROCESSING is committed.  A row deleted since the read makes the commit
\* raise outside the try block: the task ends.
Flip(w) ==
    LET m == MsgOf(w) IN
    /\ pc[w] = "flip"
    /\ IF Exists(m)
       THEN /\ SetStatus(m, "processing")
            /\ stamped' = [stamped EXCEPT ![w] = TRUE]
            /\ Goto(w, "run")
       ELSE Goto(w, "ack") /\ UNCHANGED <<status, stale, stamped>>
    /\ UNCHANGED <<result, quota, web, queue, job, reaper, hist>>

\* The pipeline ends well: _save_pipeline_results commits the result and
\* COMPLETED together.  analysis_results.message_id is unique.
Save(w) ==
    LET m == MsgOf(w) IN
    /\ pc[w] = "run"
    /\ Exists(m) /\ ~result[m]
    /\ result' = [result EXCEPT ![m] = TRUE]
    /\ SetStatus(m, "completed")
    /\ Goto(w, "ack")
    /\ UNCHANGED <<quota, web, queue, job, stamped, reaper, hist>>

\* _mark_failed_nothing_to_show: FAILED is committed, the refund is next.
NothingToShow(w) ==
    LET m == MsgOf(w) IN
    /\ pc[w] = "run"
    /\ Exists(m)
    /\ SetStatus(m, "failed")
    /\ Goto(w, "goodwill")
    /\ UNCHANGED <<result, quota, web, queue, job, stamped, reaper, hist>>

MutRetry(w) ==
    /\ pc[w] = "run"
    /\ job[w].retries < MaxRetries
    /\ Publish([job[w] EXCEPT !.retries = @ + 1])
    /\ Goto(w, "refund")
    /\ UNCHANGED <<rows, web, job, stamped, reaper, hist>>

\* A transient provider error with retries left: self.retry publishes anew.
Retry(w) ==
    /\ pc[w] = "run"
    /\ job[w].retries < MaxRetries
    /\ Publish([job[w] EXCEPT !.retries = @ + 1])
    /\ Goto(w, "ack")
    /\ UNCHANGED <<rows, web, job, stamped, reaper, hist>>

\* Every other end of the pipeline: soft time limit, retries exhausted,
\* rejected credentials, or any exception, a failed commit included.
Fail(w) ==
    /\ pc[w] = "run"
    /\ Goto(w, "markRead")
    /\ UNCHANGED <<rows, web, queue, job, stamped, reaper, hist>>

WorkerMarkRead(w) ==
    /\ pc[w] = "markRead"
    /\ Goto(w, IF MustMarkFailed(MsgOf(w)) THEN "markWrite" ELSE "refund")
    /\ UNCHANGED <<rows, web, queue, job, stamped, reaper, hist>>

WorkerMarkWrite(w) ==
    LET m == MsgOf(w) IN
    /\ pc[w] = "markWrite"
    /\ IF Exists(m) THEN SetStatus(m, "failed") ELSE UNCHANGED <<status, stale>>
    /\ Goto(w, "refund")
    /\ UNCHANGED <<result, quota, web, queue, job, stamped, reaper, hist>>

WorkerRefund(w) ==
    /\ pc[w] = "refund"
    /\ Refund(MsgOf(w))
    /\ Goto(w, "ack")
    /\ UNCHANGED <<status, result, web, queue, job, stamped, reaper, hist>>

WorkerGoodwill(w) ==
    /\ pc[w] = "goodwill"
    /\ RefundNothingToShow(MsgOf(w))
    /\ refused' = refused \cup {m \in {MsgOf(w)} : Exists(m) /\ ~refunded[m]
                                              /\ ~WithinBudget(Owner[m])}
    /\ Goto(w, "ack")
    /\ UNCHANGED <<status, result, web, queue, job, stamped, reaper, faults, cut>>

Release(w) == /\ Goto(w, "idle")
              /\ job' = [job EXCEPT ![w] = NoJob]
              /\ stamped' = [stamped EXCEPT ![w] = FALSE]

\* acks_late: the broker forgets the task only now.
Ack(w) ==
    /\ pc[w] = "ack"
    /\ Release(w)
    /\ UNCHANGED <<rows, web, queue, reaper, hist>>

\* The pool child dies (hard time limit, OOM): task_reject_on_worker_lost is
\* off, so the task is acknowledged and gone.
CrashLost(w) ==
    /\ pc[w] # "idle"
    /\ Fault("child")
    /\ Release(w)
    /\ CutOff({m \in {MsgOf(w)} : pc[w] \in {"refund", "goodwill"}})
    /\ UNCHANGED <<rows, web, queue, reaper, refused>>

\* The whole worker dies: the unacknowledged task is delivered again.
CrashRedelivered(w) ==
    /\ pc[w] # "idle"
    /\ Fault("worker")
    /\ Publish(job[w])
    /\ Release(w)
    /\ UNCHANGED <<rows, web, reaper, refused, cut>>

\* The visibility timeout expires while the task is still held.
Redeliver(w) ==
    /\ pc[w] # "idle"
    /\ Fault("duplicate")
    /\ Publish(job[w])
    /\ UNCHANGED <<rows, web, pc, job, stamped, reaper, refused, cut>>

\* Redis restarts from its last snapshot: a queued task is gone.
BrokerLoses(t) ==
    /\ queue[t] > 0
    /\ Fault("broker")
    /\ queue' = [queue EXCEPT ![t] = @ - 1]
    /\ UNCHANGED <<rows, web, pc, job, stamped, reaper, refused, cut>>

\* mark_analysis_failed and the refunds never raise: on a database error
\* they roll back, and the handler goes on.
WorkerDbError(w) ==
    /\ pc[w] \in {"markRead", "markWrite", "refund", "goodwill"}
    /\ Fault("dberror")
    /\ Goto(w, IF pc[w] \in {"markRead", "markWrite"} THEN "refund" ELSE "ack")
    /\ CutOff({m \in {MsgOf(w)} : pc[w] \in {"refund", "goodwill"}})
    /\ UNCHANGED <<rows, web, queue, job, stamped, reaper, refused>>

Work(w) ==
    \/ \E t \in Tasks : Deliver(w, t)
    \/ Guard(w) \/ Flip(w) \/ Save(w) \/ NothingToShow(w) \/ Retry(w) \/ Fail(w)
    \/ WorkerMarkRead(w) \/ WorkerMarkWrite(w)
    \/ WorkerRefund(w) \/ WorkerGoodwill(w) \/ Ack(w)

-----------------------------------------------------------------------------
(* sweep_stuck_analyses, and the passage of time that feeds it             *)

Holds(w, m) == pc[w] # "idle" /\ MsgOf(w) = m

MutMayAge(m) == route[m] = "done"

\* ANALYSIS_STUCK_AFTER_SECONDS (900) exceeds the hard limit of a run (300),
\* so a run that stamped the row cannot outlast it.  A task that waits in the
\* queue, or a later attempt that found PROCESSING and stamped nothing, can.
MayAge(m) ==
    /\ route[m] = "done"
    /\ \A w \in Workers : Holds(w, m) =>
          ~Patient /\ pc[w] \in {"guard", "run"} /\ ~stamped[w]
    /\ Patient => \A t \in Tasks : t.msg = m => queue[t] = 0

Age(m) ==
    /\ status[m] \in NonTerminal /\ ~stale[m]
    /\ MayAge(m)
    /\ stale' = [stale EXCEPT ![m] = TRUE]
    /\ UNCHANGED <<status, result, quota, web, fleet, reaper, hist>>

\* candidate_ids (a sweep that finds none changes nothing).
SweepSelect ==
    /\ sweep = "idle"
    /\ cand' = {m \in Messages : Stuck(m)}
    /\ cand' # {}
    /\ sweep' = "update"
    /\ UNCHANGED <<rows, web, fleet, hist>>

MutMatched(m) == m \in cand /\ Exists(m)
\* The UPDATE's WHERE clause is evaluated anew; its cutoff is the SELECT's,
\* so it can only match rows the SELECT saw.
Matched(m) == m \in cand /\ Stuck(m)

\* The atomic UPDATE.
SweepUpdate ==
    /\ sweep = "update"
    /\ status' = [m \in Messages |-> IF Matched(m) THEN "failed" ELSE status[m]]
    /\ stale' = [m \in Messages |-> stale[m] /\ ~Matched(m)]
    /\ sweep' = "refund"
    /\ UNCHANGED <<result, quota, web, fleet, cand, hist>>

MutReaped(m) == FALSE
\* The status is read again for every candidate before its refund.
Reaped(m) == status[m] = "failed"

SweepRefund(m) ==
    /\ sweep = "refund"
    /\ m \in cand
    /\ IF Reaped(m) THEN Refund(m) ELSE UNCHANGED <<quota, stale>>
    /\ cand' = cand \ {m}
    /\ sweep' = IF cand' = {} THEN "idle" ELSE "refund"
    /\ UNCHANGED <<status, result, web, fleet, hist>>

\* The sweep is killed, or its UPDATE fails and it returns 0.
SweepCrash ==
    /\ sweep # "idle"
    /\ Fault("sweeper")
    /\ sweep' = "idle"
    /\ cand' = {}
    /\ CutOff(IF sweep = "refund" THEN cand ELSE {})
    /\ UNCHANGED <<rows, web, fleet, refused>>

Sweep == SweepSelect \/ SweepUpdate \/ \E m \in Messages : SweepRefund(m)

-----------------------------------------------------------------------------
(* The user's other requests                                               *)

MutArchivable(m) == Exists(m) /\ status[m] # "archived"
Archivable(m) == status[m] \in {"completed", "failed"}

\* archive_message: the check ...
ArchiveRead(m) ==
    /\ "archive" \in UserOps
    /\ edit[m] = "none"
    /\ Archivable(m)
    /\ edit' = [edit EXCEPT ![m] = "archived"]
    /\ UNCHANGED <<rows, route, fleet, reaper, hist>>

MutRestored(m) == "completed"
\* The state unarchive_message restores.
Restored(m) == IF result[m] THEN "completed" ELSE "failed"

\* unarchive_message: the status it read is not checked.
UnarchiveRead(m) ==
    /\ "unarchive" \in UserOps
    /\ edit[m] = "none"
    /\ Exists(m) /\ status[m] # Restored(m)
    /\ edit' = [edit EXCEPT ![m] = Restored(m)]
    /\ UNCHANGED <<rows, route, fleet, reaper, hist>>

\* ... and the commit of either.
EditCommit(m) ==
    /\ edit[m] # "none"
    /\ IF Exists(m) THEN SetStatus(m, edit[m]) ELSE UNCHANGED <<status, stale>>
    /\ edit' = [edit EXCEPT ![m] = "none"]
    /\ UNCHANGED <<result, quota, route, fleet, reaper, hist>>

\* edit_note, delete_note: any UPDATE of the row refreshes updated_at.
EditNote(m) ==
    /\ "note" \in UserOps
    /\ Exists(m) /\ stale[m]
    /\ stale' = [stale EXCEPT ![m] = FALSE]
    /\ UNCHANGED <<status, result, quota, web, fleet, reaper, hist>>

\* delete_message: the result goes with the row, the consumed slot does not
\* come back.
Delete(m) ==
    /\ "delete" \in UserOps
    /\ Exists(m)
    /\ SetStatus(m, "deleted")
    /\ result' = [result EXCEPT ![m] = FALSE]
    /\ UNCHANGED <<quota, web, fleet, reaper, hist>>

User(m) == \/ Submit(m) \/ ArchiveRead(m) \/ UnarchiveRead(m) \/ EditCommit(m)
           \/ EditNote(m) \/ Delete(m)

-----------------------------------------------------------------------------

Init ==
    /\ status = [m \in Messages |-> "absent"]
    /\ result = [m \in Messages |-> FALSE]
    /\ refunded = [m \in Messages |-> FALSE]
    /\ stale = [m \in Messages |-> FALSE]
    /\ used = [u \in Users |-> 0]
    /\ nts = [u \in Users |-> 0]
    /\ route = [m \in Messages |-> "none"]
    /\ edit = [m \in Messages |-> "none"]
    /\ queue = [t \in Tasks |-> 0]
    /\ pc = [w \in Workers |-> "idle"]
    /\ job = [w \in Workers |-> NoJob]
    /\ stamped = [w \in Workers |-> FALSE]
    /\ sweep = "idle"
    /\ cand = {}
    /\ faults = 0
    /\ refused = {}
    /\ cut = {}

Faulty == \/ \E m \in Messages : RouteCrash(m) \/ RouteDbError(m)
          \/ \E w \in Workers : \/ CrashLost(w) \/ CrashRedelivered(w)
                                \/ Redeliver(w) \/ WorkerDbError(w)
          \/ \E t \in Tasks : BrokerLoses(t)
          \/ SweepCrash

Next == \/ \E m \in Messages : User(m) \/ Web(m) \/ Age(m)
        \/ \E w \in Workers : Work(w)
        \/ Sweep
        \/ Faulty

Spec == Init /\ [][Next]_vars

\* Requests run to their end, Beat keeps firing the sweep, time passes, and
\* a worker keeps consuming: every run is bounded by the task's time limits.
\* The user owes the system nothing.
Fairness == /\ \A m \in Messages : WF_vars(Web(m)) /\ WF_vars(EditCommit(m))
                                   /\ WF_vars(Age(m))
            /\ \A w \in Workers : WF_vars(Work(w))
            /\ WF_vars(Sweep)

FairSpec == Spec /\ Fairness

-----------------------------------------------------------------------------
(* Properties                                                              *)

\* Every variable keeps to the values the columns, the broker and the
\* processes can hold.
TypeOK ==
    /\ status \in [Messages -> Statuses \cup {"absent", "deleted"}]
    /\ result \in [Messages -> BOOLEAN]
    /\ refunded \in [Messages -> BOOLEAN]
    /\ stale \in [Messages -> BOOLEAN]
    /\ used \in [Users -> Nat]
    /\ nts \in [Users -> Nat]
    /\ route \in [Messages -> InRequest \cup {"none", "done"}]
    /\ edit \in [Messages -> {"none", "archived", "completed", "failed"}]
    /\ queue \in [Tasks -> Nat]
    /\ pc \in [Workers -> {"idle", "guard", "flip", "run", "goodwill",
                           "markRead", "markWrite", "refund", "ack"}]
    /\ job \in [Workers -> Tasks \cup {NoJob}]
    /\ \A w \in Workers : pc[w] # "idle" => job[w] \in Tasks
    /\ stamped \in [Workers -> BOOLEAN]
    /\ sweep \in {"idle", "update", "refund"}
    /\ cand \in SUBSET Messages
    /\ faults \in 0..MaxFaults
    /\ refused \in SUBSET Messages
    /\ cut \in SUBSET Messages

\* The messages whose slot user u still pays for, deleted ones included.
Held(u) == {m \in Messages :
              Owner[m] = u /\ status[m] # "absent" /\ ~refunded[m]}
Returned(u) == {m \in Messages : Owner[m] = u /\ refunded[m]}

\* The counter is the number of slots held: no consume without a message, no
\* message without a consume, and no slot returned twice, whatever is
\* redelivered, retried, reaped or killed (quota_service, "Consuming" and
\* "Refunding").
QuotaConserved == \A u \in Users : used[u] = Cardinality(Held(u))

\* Nobody holds more slots than the allowance, and the nothing-to-show budget
\* is never overdrawn nor spent on a refund that did not happen.
SlotsBounded ==
    \A u \in Users : /\ used[u] <= Allowance
                     /\ nts[u] <= Cap
                     /\ nts[u] <= Cardinality(Returned(u))

\* A message shown as COMPLETED has a result to show, also after it was
\* restored from the archive while a worker, the reaper or a deletion raced
\* the request (unarchive_message: "the state the message can render").
CompletedHasResult == \A m \in Messages : status[m] = "completed" => result[m]

\* The rows implement the abstract quota: counters against sets of slots.
Slot == [m \in Messages |-> IF status[m] = "absent" THEN "none"
                            ELSE IF refunded[m] THEN "returned" ELSE "spent"]
Ledger == INSTANCE QuotaLedger WITH slot <- Slot, goodwill <- nts
LedgerSpec == Ledger!Spec

\* No result comes for free: a message with a result has paid for it.
NoFreeResult == \A m \in Messages : ~(result[m] /\ refunded[m])

\* A message still being analysed, or failed, has no result: no write of
\* PROCESSING or FAILED ever lands on a finished message.
UnfinishedHasNoResult ==
    \A m \in Messages :
        status[m] \in NonTerminal \cup {"failed"} => ~result[m]

\* mark_analysis_failed "does NOT overwrite a message that already reached
\* COMPLETED", and neither does the reaper or the flip to PROCESSING.
CompletedIsFinal ==
    [][\A m \in Messages : status[m] = "completed" =>
            status'[m] \in {"completed", "archived", "deleted"}]_vars

\* The same promise for mark_analysis_failed alone, whose read and write are
\* not one statement: its write never lands on a COMPLETED message.
MarkKeepsCompleted ==
    [][\A m \in Messages :
          /\ status[m] = "completed"
          /\ \/ route[m] = "markWrite" /\ route'[m] = "refund"
             \/ \E w \in Workers : Holds(w, m) /\ pc[w] = "markWrite"
                                   /\ pc'[w] = "refund"
          => status'[m] = "completed"]_vars

\* What a user put away stays away until he restores it: no worker brings an
\* archived message back to the inbox (archive_message).
ArchivedStaysArchived ==
    [][\A m \in Messages : status[m] = "archived" =>
            \/ status'[m] \in {"archived", "deleted"}
            \/ edit[m] # "none" /\ edit'[m] = "none"]_vars

Dormant(m) == /\ route[m] = "done" /\ m \notin cand
              /\ \A t \in Tasks : t.msg = m => queue[t] = 0
              /\ \A w \in Workers : ~Holds(w, m)

\* "Every FAILED analysis returns its quota slot" (analyze_message): once
\* nothing is going to touch a FAILED message, its slot is back, unless it had
\* nothing to show and the budget for that was exhausted, or a crash or a
\* database error struck between FAILED and the refund.
SlotReturned ==
    \A m \in Messages :
        Dormant(m) /\ status[m] = "failed" =>
            refunded[m] \/ m \in refused \/ m \in cut

\* The same promise with no exception for crashes, and for every terminal
\* status without a result: also after the user archived the failed message.
NoSlotKept ==
    \A m \in Messages :
        (Dormant(m) /\ Exists(m) /\ status[m] \notin NonTerminal /\ ~result[m])
            => refunded[m] \/ m \in refused

\* Past the cap a nothing-to-show slot is consumed: no reaper and no retry
\* returns it behind the cap's back (_mark_failed_nothing_to_show).
RefusalIsFinal ==
    [][\A m \in refused : refunded'[m] = refunded[m]]_vars

\* The lifetime allowance bounds the analyses a user ever receives (ADR 0013,
\* "total spend per user is bounded").
ResultsBounded ==
    \A u \in Users :
        Cardinality({m \in Messages : Owner[m] = u /\ result[m]}) <= Allowance

\* Every message leaves PENDING and PROCESSING for good: the reaper settles
\* what crashes, lost tasks and dead requests leave behind.
Settles == \A m \in Messages : <>[](status[m] \notin NonTerminal)

\* A failure is compensated in the end, or the analysis is tried again, under
\* the same exceptions as SlotReturned.
FailureCompensated ==
    \A m \in Messages :
        status[m] = "failed" ~>
            refunded[m] \/ m \in refused \/ m \in cut \/ status[m] # "failed"
=============================================================================

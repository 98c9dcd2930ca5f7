--------------------------- MODULE AnalysisProofs ---------------------------
(***************************************************************************)
(* Proofs about Analysis, for every set of messages, users and workers,    *)
(* every allowance, cap and retry limit, every fault and every request of  *)
(* the user: types, the result of a completed message, and the quota       *)
(* (conservation of slots, the bounds on both counters, and that the rows  *)
(* implement QuotaLedger).                                                 *)
(*                                                                         *)
(* The argument for the quota: every step of the system takes one slot,    *)
(* gives one slot back or keeps all slots (StepKinds).  Each kind          *)
(* preserves QuotaInv, and each is a step of the ledger.                   *)
(***************************************************************************)
EXTENDS Analysis, FiniteSetTheorems, TLAPS

-----------------------------------------------------------------------------
(* Type correctness: first the helpers the actions share                   *)

\* Writing a status keeps the two columns it touches typed.
LEMMA SetStatusType ==
    ASSUME TypeOK, NEW m \in Messages,
           NEW s \in Statuses \cup {"absent", "deleted"}, SetStatus(m, s)
    PROVE  /\ status' \in [Messages -> Statuses \cup {"absent", "deleted"}]
           /\ stale' \in [Messages -> BOOLEAN]
  BY DEF TypeOK, SetStatus

\* A refund keeps its four columns typed: the clamp keeps the counter natural.
LEMMA ClaimType ==
    ASSUME TypeOK, NEW m \in Messages, Refundable(m), Claim(m)
    PROVE  /\ refunded' \in [Messages -> BOOLEAN]
           /\ used' \in [Users -> Nat]
           /\ stale' \in [Messages -> BOOLEAN]
<1>1. Owner[m] \in Users /\ used[Owner[m]] - 1 \in Nat
  BY ConstantsOK DEF TypeOK, Refundable
<1> QED BY <1>1 DEF TypeOK, Claim

\* The same for the two refunds of quota_service.
LEMMA RefundType ==
    ASSUME TypeOK, NEW m \in Messages, Refund(m) \/ RefundNothingToShow(m)
    PROVE  /\ refunded' \in [Messages -> BOOLEAN]
           /\ used' \in [Users -> Nat]
           /\ nts' \in [Users -> Nat]
           /\ stale' \in [Messages -> BOOLEAN]
<1>1. CASE Refundable(m) /\ Claim(m) /\ UNCHANGED nts
  BY <1>1, ClaimType DEF TypeOK
<1>2. CASE /\ Refundable(m) /\ Claim(m)
           /\ nts' = [nts EXCEPT ![Owner[m]] = @ + 1]
  <2>1. nts' \in [Users -> Nat]
    BY <1>2, ConstantsOK DEF TypeOK
  <2> QED BY <1>2, <2>1, ClaimType
<1>3. CASE UNCHANGED <<quota, stale>>
  BY <1>3 DEF TypeOK, quota
<1> QED BY <1>1, <1>2, <1>3 DEF Refund, RefundNothingToShow

\* A published task is one more copy in the queue.
LEMMA PublishType ==
    ASSUME TypeOK, NEW t \in Tasks, Publish(t)
    PROVE  queue' \in [Tasks -> Nat]
<1>1. queue[t] + 1 \in Nat
  BY DEF TypeOK
<1> QED BY <1>1 DEF TypeOK, Publish

LEMMA FirstTryType == ASSUME NEW m \in Messages PROVE FirstTry(m) \in Tasks
  BY ConstantsOK DEF FirstTry, Tasks

\* A committed fault stays within the bound.
LEMMA FaultType ==
    ASSUME TypeOK, NEW kind, Fault(kind)
    PROVE  faults' \in 0..MaxFaults
  BY ConstantsOK DEF TypeOK, Fault

\* A busy worker cuts off at most the refund of the message it holds.
LEMMA CutType ==
    ASSUME TypeOK, NEW w \in Workers, pc[w] # "idle",
           NEW S, S \subseteq {MsgOf(w)}, CutOff(S)
    PROVE  cut' \in SUBSET Messages
<1>1. MsgOf(w) \in Messages
  BY DEF TypeOK, MsgOf, Tasks
<1> QED BY <1>1 DEF TypeOK, CutOff

-----------------------------------------------------------------------------
(* ... then the actions                                                    *)

\* The requests of the user and of the web tier keep the types.
LEMMA WebTypes ==
    ASSUME TypeOK, NEW m \in Messages, User(m) \/ Web(m) \/ Age(m)
    PROVE  TypeOK'
<1> USE ConstantsOK DEF rows, quota, web, fleet, reaper, hist
<1>1. CASE Submit(m)
  <2>1. used' \in [Users -> Nat]
    BY <1>1 DEF Submit, TypeOK
  <2> QED BY <1>1, <2>1, SetStatusType DEF Submit, TypeOK, Statuses,
             NonTerminal, InRequest
<1>2. CASE ArchiveRead(m) \/ UnarchiveRead(m)
  BY <1>2 DEF ArchiveRead, UnarchiveRead, Restored, TypeOK
<1>3. CASE EditCommit(m)
  <2>1. edit[m] \in Statuses
    BY <1>3 DEF EditCommit, TypeOK, Statuses
  <2>2. /\ status' \in [Messages -> Statuses \cup {"absent", "deleted"}]
        /\ stale' \in [Messages -> BOOLEAN]
    BY <1>3, <2>1, SetStatusType DEF EditCommit, TypeOK
  <2> QED BY <1>3, <2>2 DEF EditCommit, TypeOK
<1>4. CASE EditNote(m) \/ Delete(m) \/ Age(m)
  BY <1>4 DEF EditNote, Delete, Age, SetStatus, TypeOK
<1>5. CASE Enqueue(m) \/ EnqueueFails(m)
  BY <1>5, PublishType, FirstTryType
     DEF Enqueue, EnqueueFails, TypeOK, InRequest
<1>6. CASE EnqueueUnsure(m)
  BY <1>6, PublishType, FirstTryType, FaultType
     DEF EnqueueUnsure, TypeOK, InRequest
<1>7. CASE RouteMarkRead(m)
  BY <1>7 DEF RouteMarkRead, TypeOK, InRequest
<1>8. CASE RouteMarkWrite(m)
  BY <1>8, SetStatusType DEF RouteMarkWrite, TypeOK, InRequest, Statuses
<1>9. CASE RouteRefund(m)
  BY <1>9, RefundType DEF RouteRefund, TypeOK
<1> QED BY <1>1, <1>2, <1>3, <1>4, <1>5, <1>6, <1>7, <1>8, <1>9 DEF User, Web

\* A worker's step keeps the types.
LEMMA WorkTypes ==
    ASSUME TypeOK, NEW w \in Workers, Work(w)
    PROVE  TypeOK'
<1> USE DEF rows, quota, web, fleet, reaper, hist, Goto
<1>1. ASSUME NEW t \in Tasks, Deliver(w, t) PROVE TypeOK'
  <2>1. queue' \in [Tasks -> Nat]
    BY <1>1 DEF Deliver, TypeOK
  <2> QED BY <1>1, <2>1 DEF Deliver, TypeOK
<1> DEFINE m == MsgOf(w)
<1>2. ASSUME pc[w] # "idle" PROVE m \in Messages /\ job[w] \in Tasks
  BY <1>2 DEF TypeOK, MsgOf, Tasks
<1> HIDE DEF m
<1>3. CASE Guard(w)
  BY <1>3 DEF Guard, TypeOK
<1>4. CASE Flip(w)
  <2>1. pc[w] = "flip" /\ IF Exists(m) THEN SetStatus(m, "processing")
                                      ELSE UNCHANGED <<status, stale>>
    BY <1>4 DEF Flip, m
  <2>2. /\ status' \in [Messages -> Statuses \cup {"absent", "deleted"}]
        /\ stale' \in [Messages -> BOOLEAN]
    BY <1>2, <2>1, SetStatusType DEF TypeOK, Statuses, NonTerminal
  <2> QED BY <1>4, <2>2 DEF Flip, TypeOK
<1>5. CASE Save(w) \/ NothingToShow(w)
  <2>1. pc[w] = "run" /\ (SetStatus(m, "completed") \/ SetStatus(m, "failed"))
    BY <1>5 DEF Save, NothingToShow, m
  <2>2. /\ status' \in [Messages -> Statuses \cup {"absent", "deleted"}]
        /\ stale' \in [Messages -> BOOLEAN]
    BY <1>2, <2>1, SetStatusType DEF Statuses
  <2> QED BY <1>5, <2>2 DEF Save, NothingToShow, TypeOK
<1>6. CASE Retry(w)
  <2>1. [job[w] EXCEPT !.retries = @ + 1] \in Tasks
    BY <1>2, <1>6, ConstantsOK DEF Retry, Tasks
  <2>2. queue' \in [Tasks -> Nat]
    BY <1>6, <2>1, PublishType DEF Retry
  <2> QED BY <1>6, <2>2 DEF Retry, TypeOK
<1>7. CASE Fail(w) \/ WorkerMarkRead(w)
  BY <1>7 DEF Fail, WorkerMarkRead, TypeOK
<1>8. CASE WorkerMarkWrite(w)
  <2>1. pc[w] = "markWrite" /\ (SetStatus(m, "failed") \/ UNCHANGED <<status, stale>>)
    BY <1>8 DEF WorkerMarkWrite, m
  <2>2. /\ status' \in [Messages -> Statuses \cup {"absent", "deleted"}]
        /\ stale' \in [Messages -> BOOLEAN]
    BY <1>2, <2>1, SetStatusType DEF TypeOK, Statuses
  <2> QED BY <1>8, <2>2 DEF WorkerMarkWrite, TypeOK
<1>9. CASE WorkerRefund(w) \/ WorkerGoodwill(w)
  <2>1. pc[w] # "idle" /\ (Refund(m) \/ RefundNothingToShow(m))
    BY <1>9 DEF WorkerRefund, WorkerGoodwill, m
  <2>2. /\ refunded' \in [Messages -> BOOLEAN]
        /\ used' \in [Users -> Nat]
        /\ nts' \in [Users -> Nat]
        /\ stale' \in [Messages -> BOOLEAN]
    BY <1>2, <2>1, RefundType
  <2>3. refused' \in SUBSET Messages
    BY <1>9, <1>2, <2>1 DEF WorkerRefund, WorkerGoodwill, TypeOK, m
  <2> QED BY <1>9, <2>2, <2>3 DEF WorkerRefund, WorkerGoodwill, TypeOK
<1>10. CASE Ack(w)
  BY <1>10 DEF Ack, Release, TypeOK
<1> QED BY <1>1, <1>3, <1>4, <1>5, <1>6, <1>7, <1>8, <1>9, <1>10 DEF Work

\* The reaper's step keeps the types.
LEMMA SweepTypes ==
    ASSUME TypeOK, Sweep
    PROVE  TypeOK'
<1> USE DEF rows, quota, web, fleet, reaper, hist
<1>1. CASE SweepSelect
  BY <1>1 DEF SweepSelect, TypeOK
<1>2. CASE SweepUpdate
  <2>1. /\ status' \in [Messages -> Statuses \cup {"absent", "deleted"}]
        /\ stale' \in [Messages -> BOOLEAN]
    BY <1>2 DEF SweepUpdate, TypeOK, Statuses
  <2> QED BY <1>2, <2>1 DEF SweepUpdate, TypeOK
<1>3. ASSUME NEW m \in Messages, SweepRefund(m) PROVE TypeOK'
  <2>1. /\ refunded' \in [Messages -> BOOLEAN]
        /\ used' \in [Users -> Nat]
        /\ nts' \in [Users -> Nat]
        /\ stale' \in [Messages -> BOOLEAN]
    BY <1>3, RefundType DEF SweepRefund, TypeOK
  <2> QED BY <1>3, <2>1 DEF SweepRefund, TypeOK
<1> QED BY <1>1, <1>2, <1>3 DEF Sweep

\* A fault keeps the types.
LEMMA FaultyTypes ==
    ASSUME TypeOK, Faulty
    PROVE  TypeOK'
<1> USE DEF rows, quota, web, fleet, reaper, hist, Goto
<1>1. ASSUME NEW m \in Messages, RouteCrash(m) \/ RouteDbError(m) PROVE TypeOK'
  BY <1>1, FaultType DEF RouteCrash, RouteDbError, CutOff, TypeOK, InRequest
<1>2. ASSUME NEW w \in Workers, CrashLost(w) PROVE TypeOK'
  <2>1. cut' \in SUBSET Messages
    BY <1>2, CutType DEF CrashLost
  <2> QED BY <1>2, <2>1, FaultType DEF CrashLost, Release, TypeOK
<1>3. ASSUME NEW w \in Workers, CrashRedelivered(w) \/ Redeliver(w) PROVE TypeOK'
  <2>1. job[w] \in Tasks /\ Publish(job[w])
    BY <1>3 DEF CrashRedelivered, Redeliver, TypeOK
  <2>2. queue' \in [Tasks -> Nat] /\ faults' \in 0..MaxFaults
    BY <1>3, <2>1, PublishType, FaultType DEF CrashRedelivered, Redeliver
  <2> QED BY <1>3, <2>2 DEF CrashRedelivered, Redeliver, Release, TypeOK
<1>4. ASSUME NEW w \in Workers, WorkerDbError(w) PROVE TypeOK'
  <2>1. cut' \in SUBSET Messages
    BY <1>4, CutType DEF WorkerDbError
  <2> QED BY <1>4, <2>1, FaultType DEF WorkerDbError, TypeOK
<1>5. ASSUME NEW t \in Tasks, BrokerLoses(t) PROVE TypeOK'
  BY <1>5, FaultType DEF BrokerLoses, TypeOK
<1>6. CASE SweepCrash
  BY <1>6, FaultType DEF SweepCrash, CutOff, TypeOK
<1> QED BY <1>1, <1>2, <1>3, <1>4, <1>5, <1>6 DEF Faulty

LEMMA StutterTypes == TypeOK /\ UNCHANGED vars => TypeOK'
  BY DEF TypeOK, vars, rows, web, fleet, reaper, hist

LEMMA NextTypes == TypeOK /\ [Next]_vars => TypeOK'
  BY WebTypes, WorkTypes, SweepTypes, FaultyTypes, StutterTypes DEF Next

LEMMA InitTypes == Init => TypeOK
  BY ConstantsOK DEF Init, TypeOK, Statuses, InRequest

\* Every reachable state is well typed: rows, counters, program counters and
\* the queue keep to their domains under every interleaving and fault.
THEOREM TypeCorrect == Spec => []TypeOK
  BY InitTypes, NextTypes, PTL DEF Spec

-----------------------------------------------------------------------------
(* A completed message has its result                                      *)

\* A restore request that is about to write COMPLETED saw the result; only a
\* deletion removes it, and nothing brings a deleted row back.
ResultInv == /\ CompletedHasResult
             /\ \A m \in Messages :
                   edit[m] = "completed" => result[m] \/ status[m] = "deleted"

\* What a step may do to a message without endangering ResultInv.
KeepsResults ==
    \A m \in Messages :
        /\ status'[m] = "completed" => status[m] = "completed" \/ result'[m]
        /\ result[m] => result'[m] \/ status'[m] = "deleted"
        /\ status[m] = "deleted" => status'[m] = "deleted"
        /\ edit'[m] = "completed" => edit[m] = "completed" \/ result'[m]

LEMMA KeepsResultsSuffices ==
    ASSUME ResultInv, KeepsResults
    PROVE  ResultInv'
<1>1. CompletedHasResult'
  BY DEF ResultInv, KeepsResults, CompletedHasResult
<1> QED BY <1>1 DEF ResultInv, KeepsResults

LEMMA WebResults ==
    ASSUME TypeOK, ResultInv, NEW m \in Messages, User(m) \/ Web(m) \/ Age(m)
    PROVE  KeepsResults
<1> USE DEF KeepsResults, TypeOK
<1>1. CASE Submit(m)
  BY <1>1 DEF Submit, SetStatus
<1>6. CASE Delete(m)
  BY <1>6 DEF Delete, SetStatus, Exists, Statuses, NonTerminal, web
<1>7. CASE RouteMarkWrite(m)
  BY <1>7 DEF RouteMarkWrite, SetStatus, Exists, Statuses, NonTerminal
<1>2. CASE ArchiveRead(m) \/ UnarchiveRead(m)
  BY <1>2 DEF ArchiveRead, UnarchiveRead, Restored, rows
<1>3. CASE EditCommit(m)
  BY <1>3 DEF EditCommit, SetStatus, Exists, Statuses, NonTerminal, ResultInv
<1>4. CASE EditNote(m) \/ Age(m) \/ RouteRefund(m)
  BY <1>4 DEF EditNote, Age, RouteRefund, web
<1>5. CASE Enqueue(m) \/ EnqueueFails(m) \/ EnqueueUnsure(m) \/ RouteMarkRead(m)
  BY <1>5 DEF Enqueue, EnqueueFails, EnqueueUnsure, RouteMarkRead, rows
<1> QED BY <1>1, <1>2, <1>3, <1>4, <1>5, <1>6, <1>7 DEF User, Web

LEMMA WorkResults ==
    ASSUME TypeOK, ResultInv, NEW w \in Workers, Work(w)
    PROVE  KeepsResults
<1> USE DEF KeepsResults, web
<1> DEFINE m == MsgOf(w)
<1>1. ASSUME pc[w] # "idle" PROVE m \in Messages
  BY <1>1 DEF TypeOK, MsgOf, Tasks
<1> HIDE DEF m
<1>2. ASSUME NEW t \in Tasks, Deliver(w, t) PROVE KeepsResults
  BY <1>2 DEF Deliver, rows
<1>3. CASE Guard(w) \/ Retry(w) \/ Fail(w) \/ WorkerMarkRead(w) \/ Ack(w)
  BY <1>3 DEF Guard, Retry, Fail, WorkerMarkRead, Ack, rows
<1>4. CASE Flip(w) \/ NothingToShow(w) \/ WorkerMarkWrite(w)
  <2>1. /\ pc[w] # "idle" /\ UNCHANGED <<result, edit>>
        /\ \/ Exists(m) /\ \E s \in {"processing", "failed"} : SetStatus(m, s)
           \/ UNCHANGED status
    BY <1>4 DEF Flip, NothingToShow, WorkerMarkWrite, m
  <2> QED BY <1>1, <2>1 DEF SetStatus, Exists, Statuses, NonTerminal, TypeOK
<1>5. CASE Save(w)
  <2>1. /\ pc[w] # "idle" /\ Exists(m) /\ SetStatus(m, "completed")
        /\ result' = [result EXCEPT ![m] = TRUE] /\ UNCHANGED edit
    BY <1>5 DEF Save, m
  <2> QED BY <1>1, <2>1 DEF SetStatus, Exists, Statuses, NonTerminal, TypeOK
<1>6. CASE WorkerRefund(w) \/ WorkerGoodwill(w)
  BY <1>6 DEF WorkerRefund, WorkerGoodwill
<1> QED BY <1>2, <1>3, <1>4, <1>5, <1>6 DEF Work

LEMMA SweepResults ==
    ASSUME TypeOK, ResultInv, Sweep
    PROVE  KeepsResults
<1> USE DEF KeepsResults, web
<1>1. CASE SweepSelect
  BY <1>1 DEF SweepSelect, rows
<1>2. CASE SweepUpdate
  BY <1>2 DEF SweepUpdate, Matched, Stuck, NonTerminal, TypeOK
<1>3. ASSUME NEW m \in Messages, SweepRefund(m) PROVE KeepsResults
  BY <1>3 DEF SweepRefund
<1> QED BY <1>1, <1>2, <1>3 DEF Sweep

LEMMA FaultyResults ==
    ASSUME Faulty
    PROVE  KeepsResults
<1>1. UNCHANGED <<status, result, edit>>
  BY DEF Faulty, RouteCrash, RouteDbError, CrashLost, CrashRedelivered,
         Redeliver, WorkerDbError, BrokerLoses, SweepCrash, rows, web
<1> QED BY <1>1 DEF KeepsResults

LEMMA InitResults == Init => ResultInv
  BY DEF Init, ResultInv, CompletedHasResult

LEMMA NextResults == TypeOK /\ ResultInv /\ [Next]_vars => ResultInv'
<1> SUFFICES ASSUME TypeOK, ResultInv, [Next]_vars PROVE ResultInv'
  OBVIOUS
<1>1. CASE UNCHANGED vars
  BY <1>1 DEF vars, rows, web, KeepsResults, ResultInv, CompletedHasResult
<1>2. CASE Next
  BY <1>2, WebResults, WorkResults, SweepResults, FaultyResults,
     KeepsResultsSuffices DEF Next
<1> QED BY <1>1, <1>2

\* Nothing ever shows COMPLETED without a result: not the restore of an
\* archived message whose row a worker, the reaper or a deletion is changing,
\* and not the pipeline.
THEOREM CompletedSound == Spec => []CompletedHasResult
<1>1. ResultInv => CompletedHasResult
  BY DEF ResultInv
<1>2. Spec => []ResultInv
  BY TypeCorrect, InitResults, NextResults, PTL DEF Spec
<1> QED BY <1>1, <1>2, PTL

-----------------------------------------------------------------------------
(* The three kinds of step                                                 *)

TakesSlot(m) ==
    /\ status[m] = "absent"
    /\ used[Owner[m]] < Allowance
    /\ status' = [status EXCEPT ![m] = "pending"]
    /\ used' = [used EXCEPT ![Owner[m]] = @ + 1]
    /\ UNCHANGED <<refunded, nts>>

GivesBackSlot(m) ==
    /\ status[m] # "absent"
    /\ ~refunded[m]
    /\ used[Owner[m]] > 0
    /\ refunded' = [refunded EXCEPT ![m] = TRUE]
    /\ used' = [used EXCEPT ![Owner[m]] = @ - 1]
    /\ UNCHANGED status
    /\ \/ UNCHANGED nts
       \/ nts[Owner[m]] < Cap /\ nts' = [nts EXCEPT ![Owner[m]] = @ + 1]

KeepsSlots ==
    /\ UNCHANGED quota
    /\ \A m \in Messages : status'[m] = "absent" <=> status[m] = "absent"

SlotStep == \/ \E m \in Messages : TakesSlot(m) \/ GivesBackSlot(m)
            \/ KeepsSlots

\* A refund transaction that leaves the status alone gives a slot back or
\* changes nothing about slots.
LEMMA RefundKind ==
    ASSUME NEW m \in Messages, UNCHANGED status,
           Refund(m) \/ RefundNothingToShow(m)
    PROVE  GivesBackSlot(m) \/ KeepsSlots
  BY DEF Refund, RefundNothingToShow, Refundable, Claim, Exists, Statuses,
         NonTerminal, WithinBudget, GivesBackSlot, KeepsSlots, quota

\* Writing a status over an existing row keeps every slot.
LEMMA SetStatusKind ==
    ASSUME TypeOK, NEW m \in Messages, Exists(m), UNCHANGED quota,
           NEW s, s # "absent", SetStatus(m, s)
    PROVE  KeepsSlots
  BY DEF TypeOK, SetStatus, Exists, Statuses, NonTerminal, KeepsSlots

\* Steps of the user, the web tier and the clock.
LEMMA WebKinds ==
    ASSUME TypeOK, NEW m \in Messages, User(m) \/ Web(m) \/ Age(m)
    PROVE  SlotStep
<1> USE DEF SlotStep
<1>1. CASE Submit(m)
  BY <1>1 DEF Submit, HasSlot, SetStatus, TakesSlot
<1>2. CASE ArchiveRead(m) \/ UnarchiveRead(m) \/ EditNote(m) \/ Age(m)
  BY <1>2 DEF ArchiveRead, UnarchiveRead, EditNote, Age, KeepsSlots, rows, quota
<1>3. CASE EditCommit(m)
  <2>1. edit[m] # "absent" /\ UNCHANGED quota
    BY <1>3 DEF EditCommit, TypeOK
  <2> QED BY <1>3, <2>1, SetStatusKind DEF EditCommit, KeepsSlots
<1>4. CASE Delete(m)
  BY <1>4, SetStatusKind DEF Delete
<1>5. CASE Enqueue(m) \/ EnqueueFails(m) \/ EnqueueUnsure(m) \/ RouteMarkRead(m)
  BY <1>5 DEF Enqueue, EnqueueFails, EnqueueUnsure, RouteMarkRead, KeepsSlots,
          rows, quota
<1>6. CASE RouteMarkWrite(m)
  BY <1>6, SetStatusKind DEF RouteMarkWrite, KeepsSlots
<1>7. CASE RouteRefund(m)
  BY <1>7, RefundKind DEF RouteRefund
<1> QED BY <1>1, <1>2, <1>3, <1>4, <1>5, <1>6, <1>7 DEF User, Web

\* Steps of a worker.
LEMMA WorkKinds ==
    ASSUME TypeOK, NEW w \in Workers, Work(w)
    PROVE  SlotStep
<1> USE DEF SlotStep
<1> DEFINE m == MsgOf(w)
<1>1. ASSUME pc[w] # "idle" PROVE m \in Messages
  BY <1>1 DEF TypeOK, MsgOf, Tasks
<1> HIDE DEF m
<1>2. ASSUME NEW t \in Tasks, Deliver(w, t) PROVE SlotStep
  BY <1>2 DEF Deliver, KeepsSlots, rows, quota
<1>3. CASE Guard(w) \/ Retry(w) \/ Fail(w) \/ WorkerMarkRead(w) \/ Ack(w)
  BY <1>3 DEF Guard, Retry, Fail, WorkerMarkRead, Ack, KeepsSlots, rows, quota
<1>4. CASE Flip(w) \/ Save(w) \/ NothingToShow(w) \/ WorkerMarkWrite(w)
  <2>1. /\ pc[w] # "idle" /\ UNCHANGED quota
        /\ \/ Exists(m) /\ \E s \in Statuses : SetStatus(m, s)
           \/ UNCHANGED status
    BY <1>4 DEF Flip, Save, NothingToShow, WorkerMarkWrite, m, Statuses, NonTerminal
  <2> QED BY <1>1, <2>1, SetStatusKind DEF KeepsSlots, Statuses, NonTerminal
<1>5. CASE WorkerRefund(w) \/ WorkerGoodwill(w)
  <2>1. /\ pc[w] # "idle" /\ UNCHANGED status
        /\ Refund(m) \/ RefundNothingToShow(m)
    BY <1>5 DEF WorkerRefund, WorkerGoodwill, m
  <2> QED BY <1>1, <2>1, RefundKind
<1> QED BY <1>2, <1>3, <1>4, <1>5 DEF Work

\* Steps of the reaper.
LEMMA SweepKinds ==
    ASSUME TypeOK, Sweep
    PROVE  SlotStep
<1> USE DEF SlotStep
<1>1. CASE SweepSelect
  BY <1>1 DEF SweepSelect, KeepsSlots, rows, quota
<1>2. CASE SweepUpdate
  BY <1>2 DEF SweepUpdate, Matched, Stuck, NonTerminal, KeepsSlots, TypeOK
<1>3. ASSUME NEW m \in Messages, SweepRefund(m) PROVE SlotStep
  BY <1>3, RefundKind DEF SweepRefund, KeepsSlots
<1> QED BY <1>1, <1>2, <1>3 DEF Sweep

\* Whatever happens, slots are taken one at a time, returned one at a time,
\* or left alone.
LEMMA StepKinds == TypeOK /\ [Next]_vars => SlotStep
<1>1. ASSUME Faulty PROVE UNCHANGED rows
  BY <1>1 DEF Faulty, RouteCrash, RouteDbError, CrashLost, CrashRedelivered,
          Redeliver, WorkerDbError, BrokerLoses, SweepCrash
<1>2. UNCHANGED rows => SlotStep
  BY DEF rows, quota, KeepsSlots, SlotStep
<1>3. UNCHANGED vars => UNCHANGED rows
  BY DEF vars
<1> QED BY <1>1, <1>2, <1>3, WebKinds, WorkKinds, SweepKinds DEF Next

-----------------------------------------------------------------------------
(* Conservation                                                            *)

\* The inductive invariant: conservation needs to know that a message not yet
\* submitted carries no refund marker.
QuotaInv == /\ TypeOK
            /\ QuotaConserved
            /\ SlotsBounded
            /\ \A m \in Messages : status[m] = "absent" => ~refunded[m]

LEMMA SlotSetsFinite ==
    \A u \in Users : /\ IsFiniteSet(Held(u)) /\ Cardinality(Held(u)) \in Nat
                     /\ IsFiniteSet(Returned(u)) /\ Cardinality(Returned(u)) \in Nat
<1> SUFFICES ASSUME NEW u \in Users
             PROVE  /\ IsFiniteSet(Held(u)) /\ Cardinality(Held(u)) \in Nat
                    /\ IsFiniteSet(Returned(u)) /\ Cardinality(Returned(u)) \in Nat
  OBVIOUS
<1>1. Held(u) \in SUBSET Messages /\ Returned(u) \in SUBSET Messages
  BY DEF Held, Returned
<1> QED BY <1>1, ConstantsOK, FS_Subset, FS_CardinalityType

\* Taking a slot adds its message to what the owner holds.
LEMMA TakeConserves ==
    ASSUME QuotaInv, NEW m \in Messages, TakesSlot(m), TypeOK'
    PROVE  QuotaInv'
<1> DEFINE o == Owner[m]
<1>1. o \in Users
  BY ConstantsOK
<1>2. /\ Held(o)' = Held(o) \cup {m} /\ m \notin Held(o)
      /\ \A u \in Users \ {o} : Held(u)' = Held(u)
      /\ \A u \in Users : Returned(u)' = Returned(u)
  BY DEF QuotaInv, TypeOK, TakesSlot, Held, Returned
<1>3. Cardinality(Held(o)') = Cardinality(Held(o)) + 1
  BY <1>1, <1>2, SlotSetsFinite, FS_AddElement
<1>4. QuotaConserved'
  <2> SUFFICES ASSUME NEW u \in Users
               PROVE  used'[u] = Cardinality(Held(u)')
    BY DEF QuotaConserved
  <2>1. used[u] = Cardinality(Held(u))
    BY DEF QuotaInv, QuotaConserved
  <2>2. CASE u = o
    BY <1>3, <2>1, <2>2 DEF QuotaInv, TypeOK, TakesSlot
  <2>3. CASE u # o
    BY <1>2, <2>1, <2>3 DEF QuotaInv, TypeOK, TakesSlot
  <2> QED BY <2>2, <2>3
<1>5. SlotsBounded'
  BY <1>1, <1>2, ConstantsOK DEF QuotaInv, TypeOK, TakesSlot, SlotsBounded
<1>6. \A n \in Messages : status'[n] = "absent" => ~refunded'[n]
  BY DEF QuotaInv, TypeOK, TakesSlot
<1> QED BY <1>4, <1>5, <1>6 DEF QuotaInv

\* Giving a slot back moves its message from the held to the returned ones.
LEMMA GiveBackConserves ==
    ASSUME QuotaInv, NEW m \in Messages, GivesBackSlot(m), TypeOK'
    PROVE  QuotaInv'
<1> DEFINE o == Owner[m]
<1>1. o \in Users
  BY ConstantsOK
<1>2. /\ Held(o)' = Held(o) \ {m} /\ m \in Held(o)
      /\ Returned(o)' = Returned(o) \cup {m} /\ m \notin Returned(o)
      /\ \A u \in Users \ {o} : Held(u)' = Held(u) /\ Returned(u)' = Returned(u)
  BY DEF QuotaInv, TypeOK, GivesBackSlot, Held, Returned
<1>3. /\ Cardinality(Held(o)') = Cardinality(Held(o)) - 1
      /\ Cardinality(Returned(o)') = Cardinality(Returned(o)) + 1
  <2>1. IsFiniteSet(Held(o)) /\ IsFiniteSet(Returned(o))
    BY <1>1, SlotSetsFinite
  <2>2. Cardinality(Held(o) \ {m}) = Cardinality(Held(o)) - 1
    BY <1>2, <2>1, FS_RemoveElement
  <2>3. Cardinality(Returned(o) \cup {m}) = Cardinality(Returned(o)) + 1
    BY <1>2, <2>1, FS_AddElement
  <2> QED BY <1>2, <2>2, <2>3
<1>4. QuotaConserved'
  <2> SUFFICES ASSUME NEW u \in Users
               PROVE  used'[u] = Cardinality(Held(u)')
    BY DEF QuotaConserved
  <2>1. used[u] = Cardinality(Held(u))
    BY DEF QuotaInv, QuotaConserved
  <2>2. CASE u = o
    BY <1>3, <2>1, <2>2 DEF QuotaInv, TypeOK, GivesBackSlot
  <2>3. CASE u # o
    BY <1>2, <2>1, <2>3 DEF QuotaInv, TypeOK, GivesBackSlot
  <2> QED BY <2>2, <2>3
<1>5. SlotsBounded'
  <2>1. \A u \in Users : used'[u] <= used[u] /\ used'[u] \in Nat
    BY <1>1 DEF QuotaInv, TypeOK, GivesBackSlot
  <2>2. \A u \in Users : nts'[u] <= Cap
    BY <1>1, ConstantsOK DEF QuotaInv, TypeOK, GivesBackSlot, SlotsBounded
  <2>3. \A u \in Users : nts'[u] <= Cardinality(Returned(u)')
    <3> SUFFICES ASSUME NEW u \in Users
                 PROVE  nts'[u] <= Cardinality(Returned(u)')
      OBVIOUS
    <3>1. nts[u] <= Cardinality(Returned(u)) /\ Cardinality(Returned(u)) \in Nat
      BY SlotSetsFinite DEF QuotaInv, SlotsBounded
    <3>2. CASE u = o
      BY <1>3, <3>1, <3>2 DEF QuotaInv, TypeOK, GivesBackSlot
    <3>3. CASE u # o
      BY <1>2, <3>1, <3>3 DEF QuotaInv, TypeOK, GivesBackSlot
    <3> QED BY <3>2, <3>3
  <2> QED BY <2>1, <2>2, <2>3, ConstantsOK DEF QuotaInv, TypeOK, SlotsBounded
<1>6. \A n \in Messages : status'[n] = "absent" => ~refunded'[n]
  BY DEF QuotaInv, TypeOK, GivesBackSlot
<1> QED BY <1>4, <1>5, <1>6 DEF QuotaInv

\* A step that keeps the slots keeps what is said about them.
LEMMA KeepConserves ==
    ASSUME QuotaInv, KeepsSlots, TypeOK'
    PROVE  QuotaInv'
<1>1. \A u \in Users : Held(u)' = Held(u) /\ Returned(u)' = Returned(u)
  BY DEF KeepsSlots, quota, Held, Returned
<1> QED BY <1>1 DEF QuotaInv, QuotaConserved, SlotsBounded, KeepsSlots, quota

LEMMA InitQuota == Init => QuotaInv
<1> SUFFICES ASSUME Init PROVE QuotaInv
  OBVIOUS
<1>1. TypeOK
  BY InitTypes
<1>2. \A u \in Users : Held(u) = {} /\ Returned(u) = {}
  BY DEF Init, Held, Returned
<1>3. Cardinality({}) = 0
  BY FS_EmptySet
<1>4. QuotaConserved
  BY <1>2, <1>3 DEF Init, QuotaConserved
<1>5. SlotsBounded
  <2> SUFFICES ASSUME NEW u \in Users
               PROVE  /\ used[u] <= Allowance /\ nts[u] <= Cap
                      /\ nts[u] <= Cardinality(Returned(u))
    BY DEF SlotsBounded
  <2>1. used[u] = 0 /\ nts[u] = 0 /\ Cardinality(Returned(u)) = 0
    BY <1>2, <1>3 DEF Init
  <2> QED BY <2>1, ConstantsOK
<1> QED BY <1>1, <1>4, <1>5 DEF Init, QuotaInv

LEMMA NextQuota == QuotaInv /\ [Next]_vars => QuotaInv'
<1> SUFFICES ASSUME QuotaInv, [Next]_vars PROVE QuotaInv'
  OBVIOUS
<1>1. TypeOK /\ TypeOK'
  BY NextTypes DEF QuotaInv
<1>2. SlotStep
  BY <1>1, StepKinds
<1> QED BY <1>1, <1>2, TakeConserves, GiveBackConserves, KeepConserves
        DEF SlotStep

LEMMA QuotaInvariant == Spec => []QuotaInv
  BY InitQuota, NextQuota, PTL DEF Spec

\* users.analyses_used is at every moment the number of submitted messages
\* whose slot was not given back: no crash, redelivery, duplicate, retry,
\* reaper or user request makes a slot appear, vanish or return twice.
THEOREM Conservation == Spec => []QuotaConserved
<1>1. QuotaInv => QuotaConserved
  BY DEF QuotaInv
<1> QED BY <1>1, QuotaInvariant, PTL

\* Nobody ever holds more than the allowance, and the nothing-to-show budget
\* is neither overdrawn nor spent without a refund.
THEOREM Bounds == Spec => []SlotsBounded
<1>1. QuotaInv => SlotsBounded
  BY DEF QuotaInv
<1> QED BY <1>1, QuotaInvariant, PTL

-----------------------------------------------------------------------------
(* The rows implement the ledger                                           *)

\* The ledger's count of held slots is the counter's value.
LEMMA LedgerHeld ==
    ASSUME QuotaInv, NEW u \in Users
    PROVE  Ledger!Cardinality(Ledger!Held(u)) = used[u]
<1>1. Ledger!Held(u) = Held(u)
  BY DEF Ledger!Held, Slot, Held
<1>2. Ledger!Cardinality(Held(u)) = Cardinality(Held(u))
  BY DEF Ledger!Cardinality, Ledger!IsFiniteSet, Cardinality, IsFiniteSet
<1> QED BY <1>1, <1>2 DEF QuotaInv, QuotaConserved

LEMMA LedgerInit == Init => Ledger!Init
  BY DEF Init, Ledger!Init, Slot

LEMMA LedgerStep == QuotaInv /\ [Next]_vars => [Ledger!Next]_(Ledger!vars)
<1> SUFFICES ASSUME QuotaInv, [Next]_vars
             PROVE  [Ledger!Next]_(Ledger!vars)
  OBVIOUS
<1>1. SlotStep /\ TypeOK
  BY StepKinds DEF QuotaInv
<1>2. ASSUME NEW m \in Messages, TakesSlot(m) PROVE Ledger!Take(m)
  <2>1. Slot[m] = "none" /\ Slot' = [Slot EXCEPT ![m] = "spent"]
    BY <1>1, <1>2 DEF QuotaInv, TypeOK, TakesSlot, Slot
  <2>2. Ledger!Cardinality(Ledger!Held(Owner[m])) < Allowance
    BY <1>2, LedgerHeld, ConstantsOK DEF TakesSlot
  <2> QED BY <1>2, <2>1, <2>2 DEF TakesSlot, Ledger!Take
<1>3. ASSUME NEW m \in Messages, GivesBackSlot(m)
      PROVE  Ledger!GiveBack(m) \/ Ledger!GiveBackCapped(m)
  <2>1. Slot[m] = "spent" /\ Slot' = [Slot EXCEPT ![m] = "returned"]
    BY <1>1, <1>3 DEF TypeOK, GivesBackSlot, Slot
  <2> QED BY <1>3, <2>1
          DEF GivesBackSlot, Ledger!GiveBack, Ledger!GiveBackCapped
<1>4. ASSUME KeepsSlots PROVE UNCHANGED Ledger!vars
  BY <1>4 DEF KeepsSlots, quota, Slot, Ledger!vars
<1> QED BY <1>1, <1>2, <1>3, <1>4 DEF SlotStep, Ledger!Next

\* The counters, the marker and the transactions around them implement the
\* ledger: slots taken below the allowance, each returned at most once, the
\* capped budget never exceeded.
THEOREM ImplementsLedger == Spec => LedgerSpec
  BY LedgerInit, LedgerStep, QuotaInvariant, PTL
     DEF Spec, LedgerSpec, Ledger!Spec
=============================================================================

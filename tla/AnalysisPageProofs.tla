------------------------- MODULE AnalysisPageProofs -------------------------
(***************************************************************************)
(* The tab next to the analysis: its banner and its poller.                *)
(*                                                                         *)
(* Every step of the tab leaves Analysis alone, so its invariants hold     *)
(* here too.  HeardInv says what the poller's terminal answer promises:    *)
(* the page it reloads into is one where nothing is waiting any more.      *)
(***************************************************************************)
EXTENDS AnalysisPage, AnalysisOutcomeProofs

\* The tab changes nothing: every step of the page is a step of Analysis or
\* leaves it alone.
LEMMA PageImplements == PageSpec => Spec
<1>1. PageInit => Init
  BY DEF PageInit
<1>2. [PageNext]_allVars => [Next]_vars
  BY DEF PageNext, allVars
<1> QED BY <1>1, <1>2, PTL DEF PageSpec, Spec

-----------------------------------------------------------------------------
(* Banner and poller                                                       *)

\* A poller belongs to the page of a message, and its timer is armed only
\* while it has a question left.
PageInv == /\ PageTypeOK
           /\ poller # "off" => viewed \in Paged
           /\ poller = "armed" => polls < MaxPolls

LEMMA RenderTypes ==
    ASSUME NEW m \in Paged, Render(m)
    PROVE  PageInv'
<1>1. /\ viewed' = m /\ shows' = Banner(m) /\ claim' = Claims(m) /\ polls' = 0
      /\ poller' = IF Banner(m) = "waiting" THEN "armed" ELSE "off"
  BY DEF Render
<1>2. Banner(m) \in {"none", "waiting", "failed", "missing"}
  BY DEF Banner
<1>3. Claims(m) \in BOOLEAN /\ (Claims(m) => Banner(m) = "failed")
  BY DEF Claims
<1>4. 0 < MaxPolls /\ 0 \in 0..MaxPolls
  BY PageConstantsOK
<1>5. /\ viewed' \in Paged /\ poller' \in {"off", "armed"}
      /\ shows' \in {"none", "waiting", "failed", "missing"}
      /\ shows' = "waiting" <=> poller' # "off"
      /\ polls' \in 0..MaxPolls /\ polls' < MaxPolls
  BY <1>1, <1>2, <1>4
<1>6. claim' \in BOOLEAN /\ (claim' => shows' = "failed")
  BY <1>1, <1>3, Zenon
<1> QED BY <1>5, <1>6 DEF PageInv, PageTypeOK

LEMMA NextPage == PageInv /\ [PageNext]_allVars => PageInv'
<1> SUFFICES ASSUME PageInv, [PageNext]_allVars PROVE PageInv'
  OBVIOUS
<1>1. CASE UNCHANGED tab
  BY <1>1 DEF tab, PageInv, PageTypeOK
<1>2. CASE Finish \/ AskAgain \/ GiveUp
  BY <1>2, PageConstantsOK DEF Finish, AskAgain, GiveUp, PageInv, PageTypeOK
<1>3. CASE Reload
  BY <1>3, RenderTypes DEF Reload, PageInv, PageTypeOK
<1>4. ASSUME NEW m \in Paged, Visit(m) PROVE PageInv'
  BY <1>4, RenderTypes DEF Visit
<1> QED BY <1>1, <1>2, <1>3, <1>4 DEF PageNext, Tab, allVars

LEMMA PageInvariant == PageSpec => []PageInv
<1>1. PageInit => PageInv
  <2> SUFFICES ASSUME PageInit PROVE PageInv
    OBVIOUS
  <2>1. 0 \in 0..MaxPolls
    BY PageConstantsOK
  <2> QED BY <2>1 DEF PageInit, PageInv, PageTypeOK
<1> QED BY <1>1, NextPage, PTL DEF PageSpec

\* The page polls exactly while it waits, never asks more than MAX_ATTEMPTS
\* times, and claims a slot only next to a failure.
THEOREM PageCorrect == PageSpec => []PageTypeOK
<1>1. PageInv => PageTypeOK
  BY DEF PageInv
<1> QED BY <1>1, PageInvariant, PTL

-----------------------------------------------------------------------------
(* One navigation                                                          *)

\* A message that was submitted and left PENDING and PROCESSING.
Settled(m) == status[m] \notin NonTerminal \cup {"absent"}

\* Only a submission and the flip to PROCESSING write such a status, and a run
\* flips only a message that is undecided.
LEMMA SettledLasts ==
    ASSUME TypeOK, FateInv, AwayInv, [Next]_vars, NEW m \in Messages, Settled(m)
    PROVE  Settled(m)'
<1> USE DEF TypeOK, Settled, NonTerminal, rows
<1>1. ASSUME NEW n \in Messages, User(n) \/ Web(n) \/ Age(n) PROVE Settled(m)'
  BY <1>1 DEF User, Web, Submit, ArchiveRead, UnarchiveRead, EditCommit, EditNote,
     Delete, Enqueue, EnqueueFails, EnqueueUnsure, RouteMarkRead, RouteMarkWrite,
     RouteRefund, Age, SetStatus
<1>2. ASSUME NEW w \in Workers, Work(w) PROVE Settled(m)'
  <2>1. CASE Flip(w)
    <3>1. MsgOf(w) = m => status[m] = "deleted"
      BY <2>1 DEF Flip, AwayInv, Undecided, Holds, Deciding
    <3> QED BY <2>1, <3>1 DEF Flip, SetStatus, Exists, Statuses
  <2> QED BY <1>2, <2>1 DEF Work, Deliver, Guard, Save, NothingToShow, Retry, Fail,
        WorkerMarkRead, WorkerMarkWrite, WorkerRefund, WorkerGoodwill, Ack, SetStatus
<1>3. CASE Sweep
  BY <1>3 DEF Sweep, SweepSelect, SweepUpdate, SweepRefund
<1>4. CASE Faulty
  BY <1>4 DEF Faulty, RouteCrash, RouteDbError, CrashLost, CrashRedelivered,
     Redeliver, WorkerDbError, BrokerLoses, SweepCrash
<1>5. CASE UNCHANGED vars
  BY <1>5 DEF vars
<1> QED BY <1>1, <1>2, <1>3, <1>4, <1>5 DEF Next

\* A poller that is about to reload has heard that the message is settled.
HeardInv == poller = "reload" => viewed \in Messages /\ Settled(viewed)

LEMMA NextHeard ==
    TypeOK /\ FateInv /\ AwayInv /\ PageInv /\ HeardInv /\ [PageNext]_allVars
        => HeardInv'
<1> SUFFICES ASSUME TypeOK, FateInv, AwayInv, PageInv, HeardInv, [PageNext]_allVars
             PROVE  HeardInv'
  OBVIOUS
<1>1. CASE Next /\ UNCHANGED tab
  BY <1>1, SettledLasts DEF HeardInv, tab, Settled
<1>2. CASE Finish /\ UNCHANGED vars
  <2>1. PICK answer \in Answers(viewed) : Over(answer)
    BY <1>2 DEF Finish
  <2>2. Exists(viewed) /\ status[viewed] = answer
    BY <2>1 DEF Answers, Over
  <2>3. viewed \in Messages
    BY <1>2, PageConstantsOK DEF Finish, PageInv
  <2> QED BY <1>2, <2>1, <2>2, <2>3
          DEF Finish, HeardInv, Settled, Over, vars, rows, NonTerminal
<1>3. CASE (AskAgain \/ GiveUp \/ Reload \/ \E m \in Paged : Visit(m)) /\ UNCHANGED vars
  BY <1>3 DEF AskAgain, GiveUp, Reload, Visit, Render, HeardInv
<1>4. CASE UNCHANGED allVars
  BY <1>4 DEF allVars, tab, vars, rows, HeardInv, Settled
<1> QED BY <1>1, <1>2, <1>3, <1>4 DEF PageNext, Tab

LEMMA HeardInvariant ==
    ASSUME Patient, NoCopies, NeverRestores
    PROVE  PageSpec => []HeardInv
<1>1. PageInit => HeardInv
  BY DEF PageInit, HeardInv
<1> QED BY <1>1, NextHeard, PageImplements, TypeCorrect, FateInvariant,
        AwayInvariant, PageInvariant, PTL DEF PageSpec

\* One full navigation renders the finished page: the reload never brings the
\* spinner back.
THEOREM NavigatesOnce ==
    ASSUME Patient, NoCopies, NeverRestores
    PROVE  PageSpec => OneNavigation
<1>1. HeardInv /\ [PageNext]_allVars =>
        [poller = "reload" /\ poller' # "reload" /\ viewed' = viewed
           => shows' # "waiting"]_allVars
  <2> SUFFICES ASSUME HeardInv, PageNext, poller = "reload", poller' # "reload",
                      viewed' = viewed
               PROVE  shows' # "waiting"
    BY DEF allVars
  <2>1. Render(viewed)
    BY DEF PageNext, Tab, Finish, AskAgain, GiveUp, Reload, Visit, Render, tab
  <2> QED BY <2>1 DEF HeardInv, Settled, Render, Banner
<1> QED BY <1>1, HeardInvariant, PTL DEF PageSpec, OneNavigation
=============================================================================

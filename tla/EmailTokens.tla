---------------------------- MODULE EmailTokens ----------------------------
(***************************************************************************)
(* The two mails of one account that carry a link, email verification and  *)
(* password reset: requests queue a task, an email worker commits a fresh  *)
(* token and then sends the mail with it, the user follows links, an       *)
(* operator may verify the account by hand (ADR 0006, ADR 0007).           *)
(*                                                                         *)
(* A token is the number of the commit that stored it; 0 is NULL.  One     *)
(* action is one statement, transaction, broker call or provider call.     *)
(* Operators named Mut... are the definition below them with a slip.       *)
(***************************************************************************)
EXTENDS Naturals, FiniteSets

CONSTANTS
    Kinds,        \* which of the two mails
    Workers,      \* email worker processes (compose.yaml: two)
    MaxRetries,   \* max_retries of _EMAIL_TASK_OPTS
    MaxRequests,  \* bound: requests the user makes, in all
    FaultKinds,   \* which faults the environment commits
    MaxFaults,    \* bound: how many of them
    NoJob         \* an idle worker's task

AllFaults == {"child", "worker", "duplicate", "broker", "transient", "unsure",
              "permanent", "dberror"}

ASSUME ConstantsOK ==
    /\ Kinds \subseteq {"verify", "reset"}
    /\ MaxRetries \in Nat /\ MaxRequests \in Nat /\ MaxFaults \in Nat
    /\ FaultKinds \subseteq AllFaults

Tasks == [kind : Kinds, retries : 0..MaxRetries]
ASSUME NoJobIsNoTask == NoJob \notin Tasks

VARIABLES
    account,   \* the users row: "unverified", "verified" or "deleted"
    token,     \* users.verification_token and users.password_reset_token
    expired,   \* the expiry stored with the token has passed
    last,      \* how many tokens were ever committed
    queue,     \* copies of each task waiting for delivery
    pc,        \* where each worker is in its task
    job,       \* the task each worker runs
    mine,      \* the token this attempt committed
    mailed,    \* tokens in the user's mailbox
    newest,    \* the one that arrived last
    click,     \* a link request that found its token valid, and that token
    operator,  \* where verify-user is
    requests,  \* requests made so far
    owed,      \* history: a request whose mail is still to come
    lost,      \* history: an attempt or a task ended without its mail, and the
               \* stored token has not arrived since
    crossed,   \* history: the stored token was committed while another
               \* attempt had committed its own and not yet sent it
    faults     \* faults committed so far

row     == <<account, token, expired, last>>
fleet   == <<queue, pc, job, mine>>
mailbox == <<mailed, newest>>
people  == <<click, operator, requests>>
hist    == <<owed, lost, crossed>>
vars    == <<row, fleet, mailbox, people, hist, faults>>

-----------------------------------------------------------------------------
(* Requests                                                                *)

Exists == account # "deleted"

\* Who still needs this mail: the route asks when it queues the task, the
\* worker asks again before it makes a token.
Wanted(k) == Exists /\ (k = "verify" => account = "unverified")

FirstTry(k) == [kind |-> k, retries |-> 0]

\* register, resend_verification, forgot_password.
Request(k) ==
    /\ Wanted(k)
    /\ requests < MaxRequests
    /\ requests' = requests + 1
    /\ queue' = [queue EXCEPT ![FirstTry(k)] = @ + 1]
    /\ owed' = [owed EXCEPT ![k] = TRUE]
    /\ UNCHANGED <<row, pc, job, mine, mailbox, click, operator, lost, crossed,
                   faults>>

-----------------------------------------------------------------------------
(* The email tasks                                                         *)

KindOf(w) == job[w].kind

Goto(w, place) == pc' = [pc EXCEPT ![w] = place]

Release(w) == /\ Goto(w, "idle")
              /\ job' = [job EXCEPT ![w] = NoJob]
              /\ mine' = [mine EXCEPT ![w] = 0]

Deliver(w, t) ==
    /\ pc[w] = "idle"
    /\ queue[t] > 0
    /\ queue' = [queue EXCEPT ![t] = @ - 1]
    /\ job' = [job EXCEPT ![w] = t]
    /\ Goto(w, "read")
    /\ UNCHANGED <<row, mine, mailbox, people, hist, faults>>

\* The task re-reads the user and skips a mail nobody needs any more.
ReadUser(w) ==
    /\ pc[w] = "read"
    /\ Goto(w, IF Wanted(KindOf(w)) THEN "commit" ELSE "ack")
    /\ owed' = IF Wanted(KindOf(w)) THEN owed
               ELSE [owed EXCEPT ![KindOf(w)] = FALSE]
    /\ UNCHANGED <<row, queue, job, mine, mailbox, people, lost, crossed,
                   faults>>

MutStore(w, k) ==
    /\ last' = last + 1
    /\ token' = [token EXCEPT ![k] = last + 1]
    /\ expired' = [expired EXCEPT ![k] = FALSE]
    /\ UNCHANGED mine
\* generate_..._token: a fresh token and its expiry, on the row and in hand.
Store(w, k) ==
    /\ last' = last + 1
    /\ token' = [token EXCEPT ![k] = last + 1]
    /\ expired' = [expired EXCEPT ![k] = FALSE]
    /\ mine' = [mine EXCEPT ![w] = last + 1]

\* Another attempt has committed a token for this mail and holds it unsent.
Overlaps(w) == \E v \in Workers \ {w} : pc[v] = "send" /\ KindOf(v) = KindOf(w)

\* The token is stored, whatever the row holds by now; a row deleted
\* meanwhile ends the task without a mail.
CommitToken(w) ==
    /\ pc[w] = "commit"
    /\ IF Exists
       THEN /\ Store(w, KindOf(w))
            /\ Goto(w, "send")
            /\ crossed' = [crossed EXCEPT ![KindOf(w)] = Overlaps(w)]
            /\ UNCHANGED owed
       ELSE /\ Goto(w, "ack")
            /\ owed' = [owed EXCEPT ![KindOf(w)] = FALSE]
            /\ UNCHANGED <<token, expired, last, mine, crossed>>
    /\ UNCHANGED <<account, queue, job, mailbox, people, lost, faults>>

MutTaken(w) == job[w].retries = 0 \/ mailed[KindOf(w)] = {}
\* The provider takes every mail it is given: no idempotency key is passed.
Taken(w) == TRUE

Arrives(w) ==
    LET k == KindOf(w) IN
    /\ lost' = [lost EXCEPT ![k] = @ /\ mine[w] # token[k]]
    /\ IF Taken(w)
       THEN /\ mailed' = [mailed EXCEPT ![k] = @ \cup {mine[w]}]
            /\ newest' = [newest EXCEPT ![k] = mine[w]]
       ELSE UNCHANGED mailbox

\* The mail carries the token this attempt stored.
Send(w) ==
    /\ pc[w] = "send"
    /\ Arrives(w)
    /\ owed' = [owed EXCEPT ![KindOf(w)] = FALSE]
    /\ Goto(w, "ack")
    /\ UNCHANGED <<row, queue, job, mine, people, crossed, faults>>

Ack(w) == /\ pc[w] = "ack"
          /\ Release(w)
          /\ UNCHANGED <<row, queue, mailbox, people, hist, faults>>

-----------------------------------------------------------------------------
(* Faults of the provider, the database, the broker and the processes      *)

Fault(kind) == /\ kind \in FaultKinds
               /\ faults < MaxFaults
               /\ faults' = faults + 1

Retriable(w) == job[w].retries < MaxRetries

\* autoretry_for: publish the next attempt, or give up after the last one.
RetrySend(w) ==
    /\ IF Retriable(w)
       THEN /\ queue' = [queue EXCEPT
                  ![[job[w] EXCEPT !.retries = @ + 1]] = @ + 1]
            /\ UNCHANGED owed
       ELSE /\ owed' = [owed EXCEPT ![KindOf(w)] = FALSE]
            /\ UNCHANGED queue
    /\ Release(w)

\* A temporary error: the mail was not accepted ...
SendFails(w) ==
    /\ pc[w] = "send"
    /\ Fault("transient")
    /\ RetrySend(w)
    /\ lost' = [lost EXCEPT ![KindOf(w)] = @ \/ ~Retriable(w)]
    /\ UNCHANGED <<row, mailbox, people, crossed>>

\* ... or it was, and only the answer got lost.
SendUnsure(w) ==
    /\ pc[w] = "send"
    /\ Fault("unsure")
    /\ Arrives(w)
    /\ RetrySend(w)
    /\ UNCHANGED <<row, people, crossed>>

\* Permanent errors of the provider, and a token that could not be stored,
\* are logged and end the task.
SendRejected(w) ==
    /\ \/ pc[w] = "send" /\ Fault("permanent")
       \/ pc[w] = "commit" /\ Fault("dberror")
    /\ Goto(w, "ack")
    /\ owed' = [owed EXCEPT ![KindOf(w)] = FALSE]
    /\ lost' = [lost EXCEPT ![KindOf(w)] = TRUE]
    /\ UNCHANGED <<row, queue, job, mine, mailbox, people, crossed>>

\* A killed pool child: Celery acknowledges its task (no
\* task_reject_on_worker_lost).
CrashLost(w) ==
    /\ pc[w] # "idle"
    /\ Fault("child")
    /\ Release(w)
    /\ lost' = [lost EXCEPT ![KindOf(w)] = TRUE]
    /\ UNCHANGED <<row, queue, mailbox, people, owed, crossed>>

MutUnacked(w) == queue
\* What Redis hands out again: acks_late keeps the task until it has ended.
Unacked(w) == [queue EXCEPT ![job[w]] = @ + 1]

\* A worker gone as a whole: its task was not acknowledged.
CrashRedelivered(w) ==
    /\ pc[w] # "idle"
    /\ Fault("worker")
    /\ queue' = Unacked(w)
    /\ Release(w)
    /\ UNCHANGED <<row, mailbox, people, hist>>

\* The visibility timeout expires while the task is still held.
Redeliver(w) ==
    /\ pc[w] # "idle"
    /\ Fault("duplicate")
    /\ queue' = Unacked(w)
    /\ UNCHANGED <<row, pc, job, mine, mailbox, people, hist>>

\* Redis restarts from a snapshot without the task.
BrokerLoses(t) ==
    /\ queue[t] > 0
    /\ Fault("broker")
    /\ queue' = [queue EXCEPT ![t] = @ - 1]
    /\ lost' = [lost EXCEPT ![t.kind] = TRUE]
    /\ UNCHANGED <<row, pc, job, mine, mailbox, people, owed, crossed>>

Work(w) == \/ \E t \in Tasks : Deliver(w, t)
           \/ ReadUser(w) \/ CommitToken(w) \/ Send(w) \/ Ack(w)
Faulty == \/ \E w \in Workers : \/ SendFails(w) \/ SendUnsure(w)
                                \/ SendRejected(w) \/ CrashLost(w)
                                \/ CrashRedelivered(w) \/ Redeliver(w)
          \/ \E t \in Tasks : BrokerLoses(t)

-----------------------------------------------------------------------------
(* The people                                                              *)

\* verify_email, and reset_password on POST: the token is looked up ...
Follow(k, t) ==
    /\ click[k] = 0
    /\ Exists /\ token[k] = t /\ ~expired[k]
    /\ click' = [click EXCEPT ![k] = t]
    /\ UNCHANGED <<row, fleet, mailbox, operator, requests, hist, faults>>

\* ... and the commit clears it by primary key, whatever it is by then.
FollowCommit(k) ==
    /\ click[k] # 0
    /\ click' = [click EXCEPT ![k] = 0]
    /\ IF Exists
       THEN /\ token' = [token EXCEPT ![k] = 0]
            /\ account' = IF k = "verify" THEN "verified" ELSE account
       ELSE UNCHANGED <<token, account>>
    /\ UNCHANGED <<expired, last, fleet, mailbox, operator, requests, hist,
                   faults>>

\* verify-user reads the row; the ORM writes NULL over the token only when it
\* has read one.
OperatorRead ==
    /\ operator = "idle" /\ "verify" \in Kinds
    /\ account = "unverified"
    /\ operator' = IF token["verify"] # 0 THEN "clear" ELSE "keep"
    /\ UNCHANGED <<row, fleet, mailbox, click, requests, hist, faults>>

OperatorCommit ==
    /\ operator # "idle"
    /\ operator' = "idle"
    /\ account' = IF Exists THEN "verified" ELSE account
    /\ token' = IF Exists /\ operator = "clear"
                THEN [token EXCEPT !["verify"] = 0] ELSE token
    /\ UNCHANGED <<expired, last, fleet, mailbox, click, requests, hist,
                   faults>>

\* delete_account: only a verified user can be logged in.
DeleteAccount ==
    /\ account = "verified"
    /\ account' = "deleted"
    /\ token' = [k \in Kinds |-> 0]
    /\ UNCHANGED <<expired, last, fleet, mailbox, people, hist, faults>>

Expire(k) ==
    /\ token[k] # 0 /\ ~expired[k]
    /\ expired' = [expired EXCEPT ![k] = TRUE]
    /\ UNCHANGED <<account, token, last, fleet, mailbox, people, hist, faults>>

People == \/ \E k \in Kinds : \/ Request(k)
                              \/ \E t \in mailed[k] : Follow(k, t)
                              \/ FollowCommit(k)
                              \/ Expire(k)
          \/ OperatorRead \/ OperatorCommit \/ DeleteAccount

-----------------------------------------------------------------------------
Init ==
    /\ account \in {"unverified", "verified"}
    /\ token = [k \in Kinds |-> 0]
    /\ expired = [k \in Kinds |-> FALSE]
    /\ last = 0
    /\ queue = [t \in Tasks |-> 0]
    /\ pc = [w \in Workers |-> "idle"]
    /\ job = [w \in Workers |-> NoJob]
    /\ mine = [w \in Workers |-> 0]
    /\ mailed = [k \in Kinds |-> {}]
    /\ newest = [k \in Kinds |-> 0]
    /\ click = [k \in Kinds |-> 0]
    /\ operator = "idle"
    /\ requests = 0
    /\ owed = [k \in Kinds |-> FALSE]
    /\ lost = [k \in Kinds |-> FALSE]
    /\ crossed = [k \in Kinds |-> FALSE]
    /\ faults = 0

Next == (\E w \in Workers : Work(w)) \/ Faulty \/ People

Spec == Init /\ [][Next]_vars

\* Every provider and database call is bounded by a timeout, and an idle
\* worker takes the next task.  Nobody is bound to ask, click or fail.
FairSpec == Spec /\ \A w \in Workers : WF_vars(Work(w))

-----------------------------------------------------------------------------
(* Properties                                                              *)

\* Every variable keeps to what its column, the broker or a process can hold.
TypeOK ==
    /\ account \in {"unverified", "verified", "deleted"}
    /\ token \in [Kinds -> 0..last]
    /\ expired \in [Kinds -> BOOLEAN]
    /\ last \in Nat
    /\ queue \in [Tasks -> Nat]
    /\ pc \in [Workers -> {"idle", "read", "commit", "send", "ack"}]
    /\ job \in [Workers -> Tasks \cup {NoJob}]
    /\ \A w \in Workers : pc[w] # "idle" => job[w] \in Tasks
    /\ mine \in [Workers -> 0..last]
    /\ mailed \in [Kinds -> SUBSET (1..last)]
    /\ newest \in [Kinds -> 0..last]
    /\ click \in [Kinds -> 0..last]
    /\ operator \in {"idle", "clear", "keep"}
    /\ requests \in 0..MaxRequests
    /\ owed \in [Kinds -> BOOLEAN]
    /\ lost \in [Kinds -> BOOLEAN]
    /\ crossed \in [Kinds -> BOOLEAN]
    /\ faults \in 0..MaxFaults

Quiet(k) == /\ \A t \in Tasks : t.kind = k => queue[t] = 0
            /\ \A w \in Workers : pc[w] # "idle" => KindOf(w) # k

\* Its tasks have run, somebody still needs the mail, and the attempt that
\* stored the token did not get lost.
Settled(k) == Quiet(k) /\ Wanted(k) /\ ~lost[k] /\ token[k] # 0

\* The committed-token-but-no-email case of ADR 0007 is the only dead end:
\* after any retries and redeliveries a stored token is in the mailbox, unless
\* the attempts were exhausted, refused or lost.
StoredWasMailed == \A k \in Kinds : Settled(k) => token[k] \in mailed[k]

\* Of several mails the one that arrived last works, unless two attempts ran
\* at once: only a token stored while another attempt held an unsent one can
\* end up under an older mail.  Retries, redeliveries, unsure sends, crashes,
\* links and expiries of any number do not make the newest link a dead one.
OnlyOverlapSwaps ==
    \A k \in Kinds :
        Settled(k) /\ newest[k] # 0 => newest[k] = token[k] \/ crossed[k]

\* As ADR 0007 has it, without the exception: "the worst case is a
\* harmless duplicate email whose older link is dead" (ADR 0007).
NewestMailWorks ==
    \A k \in Kinds : Settled(k) /\ newest[k] # 0 => newest[k] = token[k]

\* Latest token wins: a link is honoured only while its token is the stored
\* one, "earlier attempts' links go stale and fail closed" (ADR 0007).
EarlierLinksFail ==
    [][\A k \in Kinds : click[k] # 0 /\ click'[k] = 0 /\ token[k] # 0
          => token[k] = click[k] \/ token' = token]_vars

\* Verification leaves no token behind (verify_email_token, and verify-user:
\* "a live token left behind would still be redeemable, so clear it here").
VerifiedKeepsNoToken ==
    "verify" \in Kinds =>
        (account = "verified" /\ Quiet("verify") => token["verify"] = 0)

\* Every request is answered: a mail follows it, unless the account no longer
\* needs one, the provider refuses (ADR 0007, "redeliver, don't drop"), or its
\* task got lost with a killed child or the broker.
Answered == \A k \in Kinds : owed[k] ~> ~owed[k] \/ lost[k]

\* "A lost task cannot be reconstructed" is what late acknowledgement is there
\* for: no request is forgotten, whichever process dies (ADR 0007).
NoRequestForgotten == \A k \in Kinds : owed[k] ~> ~owed[k]
=============================================================================

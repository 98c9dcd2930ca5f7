------------------------- MODULE EmailTokensProofs -------------------------
(***************************************************************************)
(* Proofs about EmailTokens, for any number of workers, retries, requests  *)
(* and faults.                                                             *)
(***************************************************************************)
EXTENDS EmailTokens, TLAPS

-----------------------------------------------------------------------------
(* Type correctness                                                        *)

\* The task of a worker that is not idle is for one of the two mails.
LEMMA JobType ==
    ASSUME TypeOK, NEW w \in Workers, pc[w] # "idle"
    PROVE  job[w] \in Tasks /\ KindOf(w) \in Kinds
  BY DEF TypeOK, KindOf, Tasks

LEMMA FaultType ==
    ASSUME TypeOK, NEW kind, Fault(kind)
    PROVE  faults' \in 0..MaxFaults
  BY ConstantsOK DEF TypeOK, Fault

\* A freed worker is typed.
LEMMA ReleaseType ==
    ASSUME TypeOK, NEW w \in Workers, Release(w)
    PROVE  /\ pc' \in [Workers -> {"idle", "read", "commit", "send", "ack"}]
           /\ job' \in [Workers -> Tasks \cup {NoJob}]
           /\ \A v \in Workers : pc'[v] # "idle" => job'[v] \in Tasks
           /\ mine' \in [Workers -> 0..last]
  BY DEF TypeOK, Release, Goto

\* A task handed out again, or published again, is one more copy.
LEMMA UnackedType ==
    ASSUME TypeOK, NEW w \in Workers, pc[w] # "idle", queue' = Unacked(w)
    PROVE  queue' \in [Tasks -> Nat]
<1>1. queue[job[w]] + 1 \in Nat
  BY JobType DEF TypeOK
<1> QED BY <1>1 DEF TypeOK, Unacked

LEMMA RetryType ==
    ASSUME TypeOK, NEW w \in Workers, pc[w] # "idle", RetrySend(w)
    PROVE  queue' \in [Tasks -> Nat] /\ owed' \in [Kinds -> BOOLEAN]
<1>1. CASE Retriable(w)
  <2> DEFINE t == [job[w] EXCEPT !.retries = @ + 1]
  <2>1. t \in Tasks
    BY <1>1, JobType, ConstantsOK DEF Tasks, Retriable
  <2>2. queue[t] + 1 \in Nat
    BY <2>1 DEF TypeOK
  <2> QED BY <1>1, <2>2 DEF RetrySend, TypeOK
<1>2. CASE ~Retriable(w)
  BY <1>2 DEF RetrySend, TypeOK
<1> QED BY <1>1, <1>2

\* Mails carry stored tokens only.
LEMMA ArrivesType ==
    ASSUME TypeOK, NEW w \in Workers, pc[w] = "send", mine[w] # 0, Arrives(w)
    PROVE  /\ mailed' \in [Kinds -> SUBSET (1..last)]
           /\ newest' \in [Kinds -> 0..last]
           /\ lost' \in [Kinds -> BOOLEAN]
<1>1. KindOf(w) \in Kinds /\ mine[w] \in 1..last
  BY JobType DEF TypeOK
<1> QED BY <1>1 DEF Arrives, Taken, TypeOK

\* The strengthening TypeOK needs: an attempt about to send has its token.
HoldsToken == \A w \in Workers : pc[w] = "send" => mine[w] # 0

\* The steps of a worker keep the types.
LEMMA WorkTypes ==
    ASSUME TypeOK, HoldsToken, NEW w \in Workers, Work(w)
    PROVE  TypeOK' /\ HoldsToken'
<1> USE DEF row, fleet, mailbox, people, hist, Goto
<1>1. ASSUME NEW t \in Tasks, Deliver(w, t) PROVE TypeOK' /\ HoldsToken'
  <2>1. queue' \in [Tasks -> Nat]
    BY <1>1 DEF Deliver, TypeOK
  <2> QED BY <1>1, <2>1 DEF Deliver, TypeOK, HoldsToken
<1>2. CASE ReadUser(w)
  BY <1>2 DEF ReadUser, TypeOK, HoldsToken
<1>3. CASE CommitToken(w)
  <2>1. KindOf(w) \in Kinds
    BY <1>3, JobType DEF CommitToken
  <2>2. CASE Exists
    <3>1. /\ last' = last + 1 /\ last' \in Nat
          /\ token' = [token EXCEPT ![KindOf(w)] = last + 1]
          /\ mine' = [mine EXCEPT ![w] = last + 1]
      BY <1>3, <2>2 DEF CommitToken, Store, TypeOK
    <3>2. /\ 0..last \subseteq 0..last' /\ 1..last \subseteq 1..last'
          /\ last + 1 \in 1..last'
      BY <3>1 DEF TypeOK
    <3>3. token' \in [Kinds -> 0..last'] /\ mine' \in [Workers -> 0..last']
      <4>1. last + 1 \in 0..last'
        BY <3>1 DEF TypeOK
      <4>2. token \in [Kinds -> 0..last'] /\ mine \in [Workers -> 0..last']
        BY <3>2 DEF TypeOK
      <4> QED BY <3>1, <4>1, <4>2
    <3>4. /\ mailed' \in [Kinds -> SUBSET (1..last')]
          /\ newest' \in [Kinds -> 0..last'] /\ click' \in [Kinds -> 0..last']
      BY <1>3, <3>2 DEF CommitToken, TypeOK
    <3>5. expired' \in [Kinds -> BOOLEAN]
      BY <1>3, <2>2 DEF CommitToken, Store, TypeOK
    <3>6. HoldsToken'
      BY <1>3, <2>2, <3>1 DEF CommitToken, TypeOK, HoldsToken
    <3>7. crossed' \in [Kinds -> BOOLEAN]
      <4>1. Overlaps(w) \in BOOLEAN
        BY DEF Overlaps
      <4>2. crossed' = [crossed EXCEPT ![KindOf(w)] = Overlaps(w)]
        BY <1>3, <2>2 DEF CommitToken
      <4> QED BY <4>1, <4>2 DEF TypeOK
    <3> HIDE DEF Goto
    <3>8. /\ pc' \in [Workers -> {"idle", "read", "commit", "send", "ack"}]
          /\ \A v \in Workers : pc'[v] # "idle" => pc[v] # "idle"
      BY <1>3, <2>2 DEF CommitToken, TypeOK, Goto
    <3> QED BY <1>3, <2>2, <3>1, <3>3, <3>4, <3>5, <3>6, <3>7, <3>8
            DEF CommitToken, TypeOK
  <2>3. CASE ~Exists
    BY <1>3, <2>3 DEF CommitToken, TypeOK, HoldsToken
  <2> QED BY <2>2, <2>3
<1>4. CASE Send(w)
  <2>1. /\ mailed' \in [Kinds -> SUBSET (1..last)]
        /\ newest' \in [Kinds -> 0..last]
        /\ lost' \in [Kinds -> BOOLEAN]
    BY <1>4, ArrivesType DEF Send, HoldsToken
  <2> QED BY <1>4, <2>1 DEF Send, TypeOK, HoldsToken
<1>5. CASE Ack(w)
  BY <1>5, ReleaseType DEF Ack, TypeOK, HoldsToken, Release
<1> QED BY <1>1, <1>2, <1>3, <1>4, <1>5 DEF Work

\* The faults keep the types.
LEMMA FaultTypes ==
    ASSUME TypeOK, HoldsToken, Faulty
    PROVE  TypeOK' /\ HoldsToken'
<1> USE DEF row, fleet, mailbox, people, hist
<1>1. ASSUME NEW w \in Workers, SendFails(w) \/ CrashLost(w)
      PROVE  TypeOK' /\ HoldsToken'
  <2>1. CASE SendFails(w)
    <3>1. Release(w) /\ lost' \in [Kinds -> BOOLEAN]
      BY <2>1 DEF SendFails, RetrySend, TypeOK
    <3>2. queue' \in [Tasks -> Nat] /\ owed' \in [Kinds -> BOOLEAN]
      BY <2>1, RetryType DEF SendFails
    <3> QED BY <2>1, <3>1, <3>2, ReleaseType, FaultType
            DEF SendFails, TypeOK, HoldsToken, Release, Goto
  <2>2. CASE CrashLost(w)
    BY <2>2, ReleaseType, FaultType
       DEF CrashLost, TypeOK, HoldsToken, Release, Goto
  <2> QED BY <1>1, <2>1, <2>2
<1>2. ASSUME NEW w \in Workers, SendUnsure(w) PROVE TypeOK' /\ HoldsToken'
  <2>1. queue' \in [Tasks -> Nat] /\ owed' \in [Kinds -> BOOLEAN]
    BY <1>2, RetryType DEF SendUnsure
  <2>2. /\ mailed' \in [Kinds -> SUBSET (1..last)]
        /\ newest' \in [Kinds -> 0..last]
        /\ lost' \in [Kinds -> BOOLEAN]
    BY <1>2, ArrivesType DEF SendUnsure, HoldsToken
  <2>3. Release(w)
    BY <1>2 DEF SendUnsure, RetrySend
  <2> QED BY <1>2, <2>1, <2>2, <2>3, ReleaseType, FaultType
          DEF SendUnsure, TypeOK, HoldsToken, Release, Goto
<1>3. ASSUME NEW w \in Workers, SendRejected(w) PROVE TypeOK' /\ HoldsToken'
  <2>1. faults' \in 0..MaxFaults
    BY <1>3, FaultType DEF SendRejected
  <2> QED BY <1>3, <2>1 DEF SendRejected, TypeOK, HoldsToken, Goto
<1>4. ASSUME NEW w \in Workers, CrashRedelivered(w)
      PROVE  TypeOK' /\ HoldsToken'
  BY <1>4, ReleaseType, UnackedType, FaultType
     DEF CrashRedelivered, TypeOK, HoldsToken, Release, Goto
<1>5. ASSUME NEW w \in Workers, Redeliver(w) PROVE TypeOK' /\ HoldsToken'
  BY <1>5, UnackedType, FaultType DEF Redeliver, TypeOK, HoldsToken
<1>6. ASSUME NEW t \in Tasks, BrokerLoses(t) PROVE TypeOK' /\ HoldsToken'
  <2>1. queue' \in [Tasks -> Nat]
    BY <1>6 DEF BrokerLoses, TypeOK
  <2> QED BY <1>6, <2>1, FaultType DEF BrokerLoses, TypeOK, HoldsToken
<1> QED BY <1>1, <1>2, <1>3, <1>4, <1>5, <1>6 DEF Faulty

\* The requests, the links, the operator and time keep the types.
LEMMA PeopleTypes ==
    ASSUME TypeOK, HoldsToken, People
    PROVE  TypeOK' /\ HoldsToken'
<1> USE DEF row, fleet, mailbox, people, hist
<1>1. ASSUME NEW k \in Kinds, Request(k) PROVE TypeOK' /\ HoldsToken'
  <2>1. FirstTry(k) \in Tasks
    BY ConstantsOK DEF FirstTry, Tasks
  <2>2. queue' \in [Tasks -> Nat]
    BY <1>1, <2>1 DEF Request, TypeOK
  <2>3. requests' \in 0..MaxRequests
    BY <1>1, ConstantsOK DEF Request, TypeOK
  <2> QED BY <1>1, <2>2, <2>3 DEF Request, TypeOK, HoldsToken
<1>2. ASSUME NEW k \in Kinds, NEW t \in mailed[k], Follow(k, t)
      PROVE  TypeOK' /\ HoldsToken'
  BY <1>2 DEF Follow, TypeOK, HoldsToken
<1>3. ASSUME NEW k \in Kinds, FollowCommit(k) PROVE TypeOK' /\ HoldsToken'
  BY <1>3 DEF FollowCommit, TypeOK, HoldsToken
<1>4. ASSUME NEW k \in Kinds, Expire(k) PROVE TypeOK' /\ HoldsToken'
  BY <1>4 DEF Expire, TypeOK, HoldsToken
<1>5. CASE OperatorRead
  BY <1>5 DEF OperatorRead, TypeOK, HoldsToken
<1>6. CASE OperatorCommit
  <2>1. token' \in [Kinds -> 0..last]
    <3>1. 0 \in 0..last /\ token \in [Kinds -> 0..last]
      BY DEF TypeOK
    <3>2. [token EXCEPT !["verify"] = 0] \in [Kinds -> 0..last]
      BY <3>1
    <3> QED BY <1>6, <3>1, <3>2 DEF OperatorCommit
  <2>2. account' \in {"unverified", "verified", "deleted"}
    BY <1>6 DEF OperatorCommit, TypeOK
  <2> QED BY <1>6, <2>1, <2>2 DEF OperatorCommit, TypeOK, HoldsToken
<1>7. CASE DeleteAccount
  BY <1>7 DEF DeleteAccount, TypeOK, HoldsToken
<1> QED BY <1>1, <1>2, <1>3, <1>4, <1>5, <1>6, <1>7 DEF People

\* Every reachable state is well typed; in particular only tokens that were
\* stored are ever mailed.
THEOREM TypeCorrect == Spec => [](TypeOK /\ HoldsToken)
<1>1. Init => TypeOK /\ HoldsToken
  BY ConstantsOK DEF Init, TypeOK, HoldsToken
<1>2. ASSUME TypeOK /\ HoldsToken, [Next]_vars PROVE (TypeOK /\ HoldsToken)'
  <2>1. CASE Next
    BY <1>2, <2>1, WorkTypes, FaultTypes, PeopleTypes DEF Next
  <2>2. CASE UNCHANGED vars
    BY <1>2, <2>2 DEF vars, row, fleet, mailbox, people, hist, TypeOK, HoldsToken
  <2> QED BY <1>2, <2>1, <2>2
<1> QED BY <1>1, <1>2, PTL DEF Spec

-----------------------------------------------------------------------------
(* A stored token is mailed, or an attempt that will mail it is pending     *)

\* The attempt of w will still mail the token stored for k, or replace it.
InHand(w, k) == /\ pc[w] # "idle" /\ KindOf(w) = k
                /\ \/ pc[w] \in {"read", "commit"}
                   \/ pc[w] = "send" /\ mine[w] = token[k]

Queued(k) == \E t \in Tasks : t.kind = k /\ queue[t] > 0

Pending(k) == Queued(k) \/ \E w \in Workers : InHand(w, k)

Safe(k) == token[k] \in mailed[k] \/ Pending(k)

\* The strengthening of StoredWasMailed, which speaks of rest only.
MailInv == \A k \in Kinds : Wanted(k) /\ ~lost[k] /\ token[k] # 0 => Safe(k)

\* An account never goes back to needing a mail.
LEMMA WantedStays ==
    ASSUME TypeOK, Next, NEW k \in Kinds, Wanted(k)'
    PROVE  Wanted(k)
<1> USE DEF row
<1>1. ASSUME UNCHANGED account PROVE Wanted(k)
  BY <1>1 DEF Wanted, Exists
<1>2. ASSUME Exists' => Exists, account' # "unverified" \/ account = "unverified"
      PROVE  Wanted(k)
  BY <1>2 DEF Wanted
<1>3. ASSUME NEW w \in Workers, Work(w) PROVE Wanted(k)
  BY <1>1, <1>3 DEF Work, Deliver, ReadUser, CommitToken, Send, Ack
<1>4. CASE Faulty
  BY <1>1, <1>4 DEF Faulty, SendFails, SendUnsure, SendRejected, CrashLost,
                    CrashRedelivered, Redeliver, BrokerLoses
<1>5. ASSUME NEW j \in Kinds, FollowCommit(j) PROVE Wanted(k)
  BY <1>2, <1>5 DEF FollowCommit, Exists
<1>6. CASE OperatorCommit
  BY <1>2, <1>6 DEF OperatorCommit, Exists
<1>7. CASE DeleteAccount
  BY <1>2, <1>7 DEF DeleteAccount, Exists
<1>8. ASSUME NEW j \in Kinds,
             Request(j) \/ Expire(j) \/ \E t \in mailed[j] : Follow(j, t)
      PROVE  Wanted(k)
  BY <1>1, <1>8 DEF Request, Expire, Follow
<1>9. CASE OperatorRead
  BY <1>1, <1>9 DEF OperatorRead
<1> QED BY <1>3, <1>4, <1>5, <1>6, <1>7, <1>8, <1>9 DEF Next, People

\* A step of w leaves the attempts of the others as they are: only what w and
\* the queue held for k has to be looked after.
LEMMA OthersKeep ==
    ASSUME NEW w \in Workers, NEW k \in Kinds, Safe(k),
           \A v \in Workers \ {w} : /\ pc'[v] = pc[v] /\ job'[v] = job[v]
                                    /\ mine'[v] = mine[v],
           token'[k] = token[k], mailed[k] \subseteq mailed'[k],
           Queued(k) => Safe(k)', InHand(w, k) => Safe(k)'
    PROVE  Safe(k)'
<1>1. CASE token[k] \in mailed[k]
  BY <1>1 DEF Safe
<1>2. CASE Queued(k)
  BY <1>2
<1>3. ASSUME NEW v \in Workers \ {w}, InHand(v, k) PROVE Safe(k)'
  <2>1. InHand(v, k)'
    BY <1>3 DEF InHand, KindOf
  <2> QED BY <2>1 DEF Safe, Pending
<1> QED BY <1>1, <1>2, <1>3 DEF Safe, Pending

\* A step that adds to the queue only keeps what waits for k.
LEMMA QueueGrows ==
    ASSUME NEW k \in Kinds, Queued(k),
           \A t \in Tasks : queue[t] > 0 => queue'[t] > 0
    PROVE  Safe(k)'
  BY DEF Safe, Pending, Queued

\* A task published or handed out again waits for its kind.
LEMMA Requeued ==
    ASSUME TypeOK, NEW t \in Tasks, queue' = [queue EXCEPT ![t] = @ + 1],
           NEW k \in Kinds
    PROVE  /\ \A u \in Tasks : queue[u] > 0 => queue'[u] > 0
           /\ t.kind = k => Safe(k)'
<1>1. queue[t] \in Nat /\ queue'[t] = queue[t] + 1
  BY DEF TypeOK
<1> QED BY <1>1 DEF Safe, Pending, Queued, TypeOK

LEMMA RetryQueues ==
    ASSUME TypeOK, NEW w \in Workers, pc[w] # "idle", RetrySend(w),
           NEW k \in Kinds
    PROVE  /\ \A u \in Tasks : queue[u] > 0 => queue'[u] > 0
           /\ Retriable(w) /\ KindOf(w) = k => Safe(k)'
<1>1. CASE Retriable(w)
  <2> DEFINE next == [job[w] EXCEPT !.retries = @ + 1]
  <2>1. next \in Tasks
    BY <1>1, JobType, ConstantsOK DEF Tasks, Retriable
  <2>2. PICK t \in Tasks : t = next
    BY <2>1
  <2>3. t.kind = KindOf(w)
    BY <2>2, JobType DEF KindOf, Tasks
  <2>4. queue' = [queue EXCEPT ![t] = @ + 1]
    BY <1>1, <2>2 DEF RetrySend
  <2> QED BY <2>3, <2>4, Requeued
<1>2. CASE ~Retriable(w)
  BY <1>2 DEF RetrySend
<1> QED BY <1>1, <1>2

\* The steps of a worker keep the tokens safe.
LEMMA WorkSafe ==
    ASSUME TypeOK, NEW w \in Workers, Work(w), NEW k \in Kinds,
           Wanted(k)', Wanted(k), ~lost'[k], token'[k] # 0,
           ~lost[k] /\ token[k] # 0 => Safe(k)
    PROVE  Safe(k)'
<1> USE DEF row, fleet, mailbox, people, hist, Goto
<1>1. ASSUME NEW t \in Tasks, Deliver(w, t) PROVE Safe(k)'
  <2>1. Safe(k) /\ token'[k] = token[k] /\ mailed' = mailed
    BY <1>1 DEF Deliver
  <2>2. CASE t.kind = k
    BY <1>1, <2>2 DEF Deliver, Safe, Pending, InHand, KindOf, TypeOK
  <2>3. CASE t.kind # k
    <3>1. Queued(k) => Safe(k)'
      BY <1>1, <2>3 DEF Deliver, Safe, Pending, Queued, TypeOK
    <3>2. ~InHand(w, k)
      BY <1>1 DEF Deliver, InHand
    <3>3. \A v \in Workers \ {w} :
              pc'[v] = pc[v] /\ job'[v] = job[v] /\ mine'[v] = mine[v]
      BY <1>1 DEF Deliver, TypeOK
    <3> QED BY <2>1, <3>1, <3>2, <3>3, OthersKeep
  <2> QED BY <2>2, <2>3
<1>2. CASE ReadUser(w)
  <2>1. /\ Safe(k) /\ token'[k] = token[k] /\ mailed' = mailed
        /\ queue' = queue
    BY <1>2 DEF ReadUser
  <2>2. InHand(w, k) => Safe(k)'
    <3>1. InHand(w, k) => InHand(w, k)'
      BY <1>2 DEF ReadUser, InHand, KindOf, TypeOK
    <3> QED BY <3>1 DEF Safe, Pending
  <2>3. \A v \in Workers \ {w} :
            pc'[v] = pc[v] /\ job'[v] = job[v] /\ mine'[v] = mine[v]
    BY <1>2 DEF ReadUser, TypeOK
  <2> QED BY <2>1, <2>2, <2>3, OthersKeep, QueueGrows
<1>3. CASE CommitToken(w)
  <2>1. CASE KindOf(w) = k /\ Exists
    <3>1. InHand(w, k)'
      BY <1>3, <2>1 DEF CommitToken, Store, InHand, KindOf, TypeOK
    <3> QED BY <3>1 DEF Safe, Pending
  <2>2. CASE ~(KindOf(w) = k /\ Exists)
    <3>1. KindOf(w) # k
      BY <2>2 DEF Wanted
    <3>2. /\ token'[k] = token[k] /\ lost' = lost /\ mailed' = mailed
          /\ queue' = queue
      BY <1>3, <3>1 DEF CommitToken, Store, TypeOK
    <3>3. Safe(k) /\ ~InHand(w, k)
      BY <3>1, <3>2 DEF InHand
    <3>4. \A v \in Workers \ {w} :
              pc'[v] = pc[v] /\ job'[v] = job[v] /\ mine'[v] = mine[v]
      BY <1>3 DEF CommitToken, Store, TypeOK
    <3> QED BY <3>2, <3>3, <3>4, OthersKeep, QueueGrows
  <2> QED BY <2>1, <2>2
<1>4. CASE Send(w)
  <2>1. CASE KindOf(w) = k /\ mine[w] = token[k]
    BY <1>4, <2>1 DEF Send, Arrives, Taken, Safe, TypeOK
  <2>2. CASE ~(KindOf(w) = k /\ mine[w] = token[k])
    <3>1. ~InHand(w, k)
      BY <1>4, <2>2 DEF Send, InHand
    <3>2. token' = token /\ mailed[k] \subseteq mailed'[k] /\ lost[k] = lost'[k]
      BY <1>4, <2>2 DEF Send, Arrives, Taken, TypeOK
    <3>3. \A v \in Workers \ {w} :
              pc'[v] = pc[v] /\ job'[v] = job[v] /\ mine'[v] = mine[v]
      BY <1>4 DEF Send, TypeOK
    <3>4. queue' = queue
      BY <1>4 DEF Send
    <3> QED BY <3>1, <3>2, <3>3, <3>4, OthersKeep, QueueGrows
  <2> QED BY <2>1, <2>2
<1>5. CASE Ack(w)
  <2>1. ~InHand(w, k)
    BY <1>5 DEF Ack, InHand
  <2>2. /\ token' = token /\ mailed' = mailed /\ lost' = lost
        /\ queue' = queue
    BY <1>5 DEF Ack
  <2>3. \A v \in Workers \ {w} :
            pc'[v] = pc[v] /\ job'[v] = job[v] /\ mine'[v] = mine[v]
    BY <1>5 DEF Ack, Release, TypeOK
  <2> QED BY <2>1, <2>2, <2>3, OthersKeep, QueueGrows
<1> QED BY <1>1, <1>2, <1>3, <1>4, <1>5 DEF Work

\* So do the faults, except those that lose an attempt or a task for good.
LEMMA FaultSafe ==
    ASSUME TypeOK, HoldsToken, Faulty, NEW k \in Kinds,
           Wanted(k)', Wanted(k), ~lost'[k], token'[k] # 0,
           ~lost[k] /\ token[k] # 0 => Safe(k)
    PROVE  Safe(k)'
<1> USE DEF row, fleet, mailbox, people, hist, Goto
<1>1. ASSUME NEW w \in Workers, SendFails(w) PROVE Safe(k)'
  <2>1. /\ Safe(k) /\ token' = token /\ mailed' = mailed
        /\ RetrySend(w) /\ pc[w] = "send" /\ pc[w] # "idle"
        /\ KindOf(w) = k => Retriable(w)
    BY <1>1 DEF SendFails, TypeOK
  <2>2. /\ Queued(k) => Safe(k)'
        /\ InHand(w, k) => Safe(k)'
    BY <2>1, RetryQueues, QueueGrows DEF InHand
  <2>3. \A v \in Workers \ {w} :
            pc'[v] = pc[v] /\ job'[v] = job[v] /\ mine'[v] = mine[v]
    BY <2>1 DEF RetrySend, Release, TypeOK
  <2> QED BY <2>1, <2>2, <2>3, OthersKeep
<1>2. ASSUME NEW w \in Workers, SendUnsure(w) PROVE Safe(k)'
  <2>1. CASE KindOf(w) = k /\ mine[w] = token[k]
    BY <1>2, <2>1 DEF SendUnsure, Arrives, Taken, Safe, TypeOK
  <2>2. CASE ~(KindOf(w) = k /\ mine[w] = token[k])
    <3>1. ~InHand(w, k)
      BY <1>2, <2>2 DEF SendUnsure, InHand
    <3>2. token' = token /\ mailed[k] \subseteq mailed'[k] /\ lost[k] = lost'[k]
      BY <1>2, <2>2 DEF SendUnsure, Arrives, Taken, TypeOK
    <3>3. \A v \in Workers \ {w} :
              pc'[v] = pc[v] /\ job'[v] = job[v] /\ mine'[v] = mine[v]
      BY <1>2 DEF SendUnsure, RetrySend, Release, TypeOK
    <3>4. Queued(k) => Safe(k)'
      BY <1>2, RetryQueues, QueueGrows DEF SendUnsure
    <3> QED BY <3>1, <3>2, <3>3, <3>4, OthersKeep
  <2> QED BY <2>1, <2>2
<1>3. ASSUME NEW w \in Workers, SendRejected(w) \/ CrashLost(w)
      PROVE  Safe(k)'
  <2>1. /\ token' = token /\ mailed' = mailed /\ queue' = queue
        /\ pc[w] # "idle" /\ lost' = [lost EXCEPT ![KindOf(w)] = TRUE]
    BY <1>3 DEF SendRejected, CrashLost
  <2>2. Safe(k) /\ ~InHand(w, k)
    BY <2>1 DEF TypeOK, InHand
  <2>3. \A v \in Workers \ {w} :
            pc'[v] = pc[v] /\ job'[v] = job[v] /\ mine'[v] = mine[v]
    BY <1>3 DEF SendRejected, CrashLost, Release, TypeOK
  <2> QED BY <2>1, <2>2, <2>3, OthersKeep, QueueGrows
<1>4. ASSUME NEW w \in Workers, CrashRedelivered(w) \/ Redeliver(w)
      PROVE  Safe(k)'
  <2>1. /\ token' = token /\ mailed' = mailed /\ lost' = lost
        /\ pc[w] # "idle" /\ queue' = [queue EXCEPT ![job[w]] = @ + 1]
    BY <1>4 DEF CrashRedelivered, Redeliver, Unacked
  <2>2. /\ \A u \in Tasks : queue[u] > 0 => queue'[u] > 0
        /\ InHand(w, k) => Safe(k)'
    <3>1. PICK t \in Tasks : t = job[w]
      BY <2>1, JobType
    <3> QED BY <2>1, <3>1, Requeued DEF InHand, KindOf
  <2>3. \A v \in Workers \ {w} :
            pc'[v] = pc[v] /\ job'[v] = job[v] /\ mine'[v] = mine[v]
    BY <1>4 DEF CrashRedelivered, Redeliver, Release, TypeOK
  <2> QED BY <2>1, <2>2, <2>3, OthersKeep, QueueGrows
<1>5. ASSUME NEW t \in Tasks, BrokerLoses(t) PROVE Safe(k)'
  <2>1. /\ t.kind # k /\ Safe(k) /\ token' = token /\ mailed' = mailed
        /\ pc' = pc /\ job' = job /\ mine' = mine
    BY <1>5 DEF BrokerLoses, TypeOK, Tasks
  <2>2. Queued(k) => Queued(k)'
    BY <1>5, <2>1 DEF BrokerLoses, Queued, TypeOK
  <2> QED BY <2>1, <2>2 DEF Safe, Pending, InHand, KindOf
<1> QED BY <1>1, <1>2, <1>3, <1>4, <1>5 DEF Faulty

\* And so does everything people and time do.
LEMMA PeopleSafe ==
    ASSUME TypeOK, People, NEW k \in Kinds,
           Wanted(k)', Wanted(k), ~lost'[k], token'[k] # 0,
           ~lost[k] /\ token[k] # 0 => Safe(k)
    PROVE  Safe(k)'
<1> USE DEF row, fleet, mailbox, people, hist
<1>1. /\ UNCHANGED <<pc, job, mine, mailed, lost>>
      /\ \A t \in Tasks : queue[t] > 0 => queue'[t] > 0
  <2>1. ASSUME NEW j \in Kinds, Request(j)
        PROVE  \A t \in Tasks : queue[t] > 0 => queue'[t] > 0
    <3>1. FirstTry(j) \in Tasks
      BY ConstantsOK DEF FirstTry, Tasks
    <3>2. queue[FirstTry(j)] + 1 > 0
      BY <3>1 DEF TypeOK
    <3> QED BY <2>1, <3>1, <3>2 DEF Request, TypeOK
  <2>2. CASE ~\E j \in Kinds : Request(j)
    BY <2>2 DEF People, Follow, FollowCommit, Expire, OperatorRead,
                OperatorCommit, DeleteAccount
  <2>3. UNCHANGED <<pc, job, mine, mailed, lost>>
    BY DEF People, Request, Follow, FollowCommit, Expire, OperatorRead,
           OperatorCommit, DeleteAccount
  <2> QED BY <2>1, <2>2, <2>3
<1>2. token'[k] = token[k]
  BY DEF People, Request, Follow, FollowCommit, Expire, OperatorRead,
     OperatorCommit, DeleteAccount, TypeOK
<1> QED BY <1>1, <1>2 DEF Safe, Pending, Queued, InHand, KindOf

LEMMA MailInvStep ==
    ASSUME TypeOK, HoldsToken, MailInv, [Next]_vars PROVE MailInv'
<1>1. CASE UNCHANGED vars
  BY <1>1 DEF vars, row, fleet, mailbox, people, hist, MailInv, Wanted, Exists,
     Safe, Pending, Queued, InHand, KindOf
<1>2. CASE Next
  <2> SUFFICES ASSUME NEW k \in Kinds, Wanted(k)', ~lost'[k], token'[k] # 0
               PROVE  Safe(k)'
    BY DEF MailInv
  <2>1. Wanted(k) /\ (~lost[k] /\ token[k] # 0 => Safe(k))
    BY <1>2, WantedStays DEF MailInv
  <2> QED BY <1>2, <2>1, WorkSafe, FaultSafe, PeopleSafe DEF Next
<1> QED BY <1>1, <1>2

\* After any retries, redeliveries, links, expiries and operator commands a
\* stored token is in the mailbox, unless the attempts ended without a mail.
THEOREM MailReachesUser == Spec => []StoredWasMailed
<1>1. Init => MailInv
  BY DEF Init, MailInv
<1>2. TypeOK /\ HoldsToken /\ MailInv /\ [Next]_vars => MailInv'
  BY MailInvStep
<1>3. TypeOK /\ MailInv => StoredWasMailed
  BY DEF MailInv, StoredWasMailed, Settled, Quiet, Safe, Pending, Queued,
     InHand, TypeOK
<1> QED BY <1>1, <1>2, <1>3, TypeCorrect, PTL DEF Spec

-----------------------------------------------------------------------------
(* Only overlapping attempts swap mails                                    *)

\* As long as the token stored for k was stored with no other attempt about
\* to send, every attempt about to send holds that token, unless it has been
\* cleared since, and if it was mailed it was mailed last.
NewestIn(k) ==
    /\ \A w \in Workers : pc[w] = "send" /\ KindOf(w) = k
                              => token[k] \in {0, mine[w]}
    /\ token[k] \in mailed[k] => newest[k] = token[k]

NewestInv == \A k \in Kinds : ~crossed[k] => NewestIn(k)

\* A mail that arrives for k carries the stored token, if there is one.
LEMMA ArrivesNewest ==
    ASSUME TypeOK, NEW w \in Workers, pc[w] = "send", NEW k \in Kinds,
           NewestIn(k), Arrives(w)
    PROVE  token[k] \in mailed'[k] => newest'[k] = token[k]
<1>1. 0 \notin mailed[k] /\ KindOf(w) \in Kinds
  BY JobType DEF TypeOK
<1>2. CASE KindOf(w) = k
  <2>1. mailed'[k] = mailed[k] \cup {mine[w]} /\ newest'[k] = mine[w]
    BY <1>2 DEF Arrives, Taken, TypeOK
  <2>2. token[k] \in {0, mine[w]}
    BY <1>2 DEF NewestIn
  <2> QED BY <1>1, <2>1, <2>2
<1>3. CASE KindOf(w) # k
  BY <1>1, <1>3 DEF Arrives, Taken, NewestIn, TypeOK
<1> QED BY <1>2, <1>3

\* A step that stores nothing, hands no attempt a token and mails only what
\* the lemma above speaks of keeps the invariant of k.
LEMMA NewestKept ==
    ASSUME TypeOK, NEW k \in Kinds, NewestIn(k),
           \A w \in Workers : pc'[w] = "send" => /\ pc[w] = "send"
                                                 /\ job'[w] = job[w]
                                                 /\ mine'[w] = mine[w],
           token'[k] \in {0, token[k]}, 0 \notin mailed'[k],
           token[k] \in mailed'[k] => newest'[k] = token[k]
    PROVE  NewestIn(k)'
  BY DEF NewestIn, KindOf

\* A worker's steps keep it.  A commit that sees no other attempt about to
\* send is the only one left to mail the token it stores.
LEMMA WorkNewest ==
    ASSUME TypeOK, HoldsToken, NEW w \in Workers, Work(w), NEW k \in Kinds,
           ~crossed'[k], ~crossed[k] => NewestIn(k)
    PROVE  NewestIn(k)'
<1> USE DEF row, fleet, mailbox, people, hist, Goto
<1>1. 0 \notin mailed[k]
  BY DEF TypeOK
<1>2. CASE (\E t \in Tasks : Deliver(w, t)) \/ ReadUser(w) \/ Ack(w)
  <2>1. /\ crossed' = crossed /\ token' = token
        /\ mailed' = mailed /\ newest' = newest
        /\ \A v \in Workers : pc'[v] = "send" => /\ pc[v] = "send"
                                                 /\ job'[v] = job[v]
                                                 /\ mine'[v] = mine[v]
    BY <1>2 DEF Deliver, ReadUser, Ack, Release, TypeOK
  <2>2. NewestIn(k)
    BY <2>1
  <2> QED BY <1>1, <2>1, <2>2, NewestKept DEF NewestIn
<1>3. CASE CommitToken(w)
  <2>1. pc[w] = "commit" /\ KindOf(w) \in Kinds
    BY <1>3, JobType DEF CommitToken
  <2>2. CASE Exists /\ KindOf(w) = k
    <3>1. /\ token'[k] = last + 1 /\ mine'[w] = last + 1
          /\ mailed' = mailed /\ job' = job
          /\ \A v \in Workers \ {w} : pc'[v] = pc[v]
      BY <1>3, <2>2 DEF CommitToken, Store, TypeOK
    <3>2. \A v \in Workers \ {w} : ~(pc[v] = "send" /\ KindOf(v) = k)
      BY <1>3, <2>2 DEF CommitToken, Overlaps, TypeOK
    <3>3. last + 1 \notin mailed[k]
      BY DEF TypeOK
    <3> QED BY <3>1, <3>2, <3>3 DEF NewestIn, KindOf
  <2>3. CASE Exists /\ KindOf(w) # k
    <3>1. /\ token'[k] = token[k] /\ crossed'[k] = crossed[k]
          /\ mailed' = mailed /\ newest' = newest /\ job' = job
          /\ \A v \in Workers \ {w} : pc'[v] = pc[v] /\ mine'[v] = mine[v]
      BY <1>3, <2>3 DEF CommitToken, Store, TypeOK
    <3> QED BY <2>3, <3>1 DEF NewestIn, KindOf
  <2>4. CASE ~Exists
    <3>1. /\ crossed' = crossed /\ token' = token
          /\ mailed' = mailed /\ newest' = newest
          /\ \A v \in Workers : pc'[v] = "send" => /\ pc[v] = "send"
                                                   /\ job'[v] = job[v]
                                                   /\ mine'[v] = mine[v]
      BY <1>3, <2>4 DEF CommitToken, TypeOK
    <3>2. NewestIn(k)
      BY <3>1
    <3> QED BY <1>1, <3>1, <3>2, NewestKept DEF NewestIn
  <2> QED BY <2>2, <2>3, <2>4
<1>4. CASE Send(w)
  <2>1. /\ crossed' = crossed /\ token' = token
        /\ pc[w] = "send" /\ Arrives(w)
        /\ \A v \in Workers : pc'[v] = "send" => /\ pc[v] = "send"
                                                 /\ job'[v] = job[v]
                                                 /\ mine'[v] = mine[v]
    BY <1>4 DEF Send, TypeOK
  <2>2. NewestIn(k)
    BY <2>1
  <2>3. 0 \notin mailed'[k]
    BY <1>1, <2>1 DEF Arrives, Taken, HoldsToken, TypeOK
  <2> QED BY <2>1, <2>2, <2>3, ArrivesNewest, NewestKept
<1> QED BY <1>2, <1>3, <1>4 DEF Work

\* The faults keep it: a mail of a lost answer is one more mail, and an
\* attempt that ends holds nothing any more.
LEMMA FaultNewest ==
    ASSUME TypeOK, HoldsToken, Faulty, NEW k \in Kinds,
           ~crossed'[k], ~crossed[k] => NewestIn(k)
    PROVE  NewestIn(k)'
<1> USE DEF row, fleet, mailbox, people, hist, Goto
<1>1. 0 \notin mailed[k]
  BY DEF TypeOK
<1>2. NewestIn(k) /\ token' = token
  BY DEF Faulty, SendFails, SendUnsure, SendRejected, CrashLost,
     CrashRedelivered, Redeliver, BrokerLoses
<1>3. ASSUME NEW w \in Workers, SendUnsure(w) PROVE NewestIn(k)'
  <2>1. /\ pc[w] = "send" /\ Arrives(w)
        /\ \A v \in Workers : pc'[v] = "send" => /\ pc[v] = "send"
                                                 /\ job'[v] = job[v]
                                                 /\ mine'[v] = mine[v]
    BY <1>3 DEF SendUnsure, RetrySend, Release, TypeOK
  <2>2. 0 \notin mailed'[k]
    BY <1>1, <2>1 DEF Arrives, Taken, HoldsToken, TypeOK
  <2> QED BY <1>2, <2>1, <2>2, ArrivesNewest, NewestKept
<1>4. CASE ~\E w \in Workers : SendUnsure(w)
  <2>1. mailed' = mailed /\ newest' = newest
    BY <1>4 DEF Faulty, SendFails, SendRejected, CrashLost, CrashRedelivered,
       Redeliver, BrokerLoses
  <2>2. \A v \in Workers : pc'[v] = "send" => /\ pc[v] = "send"
                                              /\ job'[v] = job[v]
                                              /\ mine'[v] = mine[v]
    BY <1>4 DEF Faulty, SendFails, SendRejected, CrashLost, CrashRedelivered,
       Redeliver, BrokerLoses, RetrySend, Release, TypeOK
  <2> QED BY <1>1, <1>2, <2>1, <2>2, NewestKept DEF NewestIn
<1> QED BY <1>3, <1>4

\* Requests, links, the operator, time and a deletion keep it: they clear a
\* token or leave it.
LEMMA PeopleNewest ==
    ASSUME TypeOK, People, NEW k \in Kinds, NewestIn(k)
    PROVE  NewestIn(k)'
<1>1. /\ UNCHANGED <<pc, job, mine, mailed, newest>>
      /\ token'[k] \in {0, token[k]}
  BY DEF People, Request, Follow, FollowCommit, Expire, OperatorRead,
     OperatorCommit, DeleteAccount, TypeOK, row, fleet, mailbox
<1>2. 0 \notin mailed[k]
  BY DEF TypeOK
<1> QED BY <1>1, <1>2, NewestKept DEF NewestIn

LEMMA NewestInvStep ==
    ASSUME TypeOK, HoldsToken, NewestInv, [Next]_vars PROVE NewestInv'
<1> SUFFICES ASSUME NEW k \in Kinds, ~crossed'[k] PROVE NewestIn(k)'
  BY DEF NewestInv
<1>1. ~crossed[k] => NewestIn(k)
  BY DEF NewestInv
<1>2. CASE UNCHANGED vars
  BY <1>1, <1>2 DEF vars, row, fleet, mailbox, hist, NewestIn, KindOf
<1>3. CASE People
  <2>1. crossed' = crossed
    BY <1>3 DEF People, Request, Follow, FollowCommit, Expire, OperatorRead,
       OperatorCommit, DeleteAccount, hist
  <2> QED BY <1>1, <1>3, <2>1, PeopleNewest
<1> QED BY <1>1, <1>2, <1>3, WorkNewest, FaultNewest DEF Next

\* Whatever the number of workers, retries, redeliveries, links and expiries:
\* the mail that arrived last carries the link that works, unless the stored
\* token was committed while another attempt still held an unsent one.
THEOREM NewestUnlessOverlap == Spec => []OnlyOverlapSwaps
<1>1. Init => NewestInv
  BY DEF Init, NewestInv, NewestIn
<1>2. TypeOK /\ HoldsToken /\ NewestInv /\ [Next]_vars => NewestInv'
  BY NewestInvStep
<1>3. TypeOK /\ NewestInv /\ StoredWasMailed => OnlyOverlapSwaps
  BY DEF NewestInv, NewestIn, StoredWasMailed, OnlyOverlapSwaps, TypeOK
<1> QED BY <1>1, <1>2, <1>3, TypeCorrect, MailReachesUser, PTL DEF Spec
=============================================================================

---------------------- MODULE ApplicationTrackerProofs ----------------------
(***************************************************************************)
(* Proofs about ApplicationTracker, for every set of messages,             *)
(* applications, names and workers, every scoring table and every request. *)
(***************************************************************************)
EXTENDS ApplicationTracker, TLAPS

-----------------------------------------------------------------------------
(* What a worker has in hand, and what the pipeline's rules return         *)

\* A run that has decided holds a message, a category and perhaps a link.
LEMMA DecidedType ==
    ASSUME TypeOK, NEW w \in Workers, run[w].at = "decided"
    PROVE  /\ run[w].msg \in Messages /\ run[w].cat \in Categories
           /\ run[w].app \in Apps \cup {None}
           /\ run[w].to \in Statuses \cup {None}
<1>1. run[w] \in Runs
  BY DEF TypeOK
<1> QED BY <1>1 DEF Runs, Idle

\* A run that is still reading holds a message.
LEMMA ReadingType ==
    ASSUME TypeOK, NEW w \in Workers, run[w].at = "reading"
    PROVE  run[w].msg \in Messages
<1>1. run[w] \in Runs
  BY DEF TypeOK
<1> QED BY <1>1 DEF Runs, Idle

\* _auto_update_status answers with an application status, or with None.
LEMMA NewStatusType ==
    ASSUME NEW s \in Statuses, NEW c \in Categories
    PROVE  NewStatus(s, c) \in Statuses \cup {None}
<1>1. ASSUME c \in DOMAIN Target PROVE Target[c] \in Statuses
  BY <1>1 DEF Target, Statuses, Active, Locked
<1> QED BY <1>1 DEF NewStatus

\* Only an existing application wins a match: an absent one scores nothing.
LEMMA MatchExists ==
    ASSUME NEW m \in Messages, NEW e, NEW a \in Matches(m, e)
    PROVE  a \in Apps /\ Exists(a)
<1>1. a \in Top(e)
  BY DEF Matches, Known
<1> QED BY <1>1 DEF Top, Score

-----------------------------------------------------------------------------
(* Type correctness                                                        *)

\* The worker steps keep the types.
LEMMA WorkTypes ==
    ASSUME TypeOK, NEW w \in Workers, Work(w)
    PROVE  TypeOK'
<1> USE DEF rows, user, Finish
<1>0. Idle \in Runs
  BY DEF Runs
<1>1. ASSUME NEW m \in Messages, Start(w, m) PROVE TypeOK'
  <2>1. [at |-> "reading", msg |-> m] \in Runs
    BY DEF Runs
  <2> QED BY <1>1, <2>1 DEF Start, TypeOK, Exists
<1>2. ASSUME NEW e \in Names \cup {None}, NEW c \in Categories,
             AutoLink(w, e, c)
      PROVE  TypeOK'
  <2> DEFINE m == run[w].msg
  <2>1. m \in Messages
    BY <1>2, ReadingType DEF AutoLink
  <2>2. ASSUME NEW a \in Apps \cup {None}, NEW s \in Statuses \cup {None}
        PROVE  [at |-> "decided", msg |-> m, app |-> a, to |-> s, cat |-> c]
                   \in Runs
    BY <2>1 DEF Runs
  <2>3. ASSUME NEW a \in Matches(m, e)
        PROVE  a \in Apps /\ NewStatus(status[a], c) \in Statuses \cup {None}
    BY <2>1, MatchExists, NewStatusType DEF Exists
  <2>4. \E a \in Apps \cup {None}, s \in Statuses \cup {None} :
          run' = [run EXCEPT ![w] =
                    [at |-> "decided", msg |-> m, app |-> a, to |-> s, cat |-> c]]
    <3>1. CASE Matches(m, e) = {}
      BY <1>2, <3>1 DEF AutoLink
    <3>2. CASE Matches(m, e) # {}
      BY <1>2, <2>3, <3>2 DEF AutoLink
    <3> QED BY <3>1, <3>2
  <2>5. run' \in [Workers -> Runs]
    BY <2>2, <2>4 DEF TypeOK
  <2> QED BY <1>2, <2>5 DEF AutoLink, TypeOK, Exists
<1>3. CASE Save(w)
  <2> DEFINE r == run[w]
  <2>1. /\ r.msg \in Messages /\ r.cat \in Categories
        /\ r.app \in Apps \cup {None} /\ r.to \in Statuses \cup {None}
    BY <1>3, DecidedType DEF Save
  <2>2. r.app # None => Exists(r.app)
    BY <1>3 DEF Save, Saveable
  <2>3. notes' \in SUBSET (Messages \X Announced) /\ told' \in [Messages -> Nat]
    BY <1>3, <2>1 DEF Save, Notify, TypeOK
  <2>4. status' \in [Apps -> Statuses \cup {"absent", "deleted"}]
    BY <1>3, <2>1 DEF Save, TypeOK
  <2>5. \A a \in Apps : Exists(a)' => name[a] \in Names
    <3> SUFFICES ASSUME NEW a \in Apps, Exists(a)' PROVE name[a] \in Names
      OBVIOUS
    <3>1. CASE status'[a] = status[a]
      BY <3>1 DEF Exists, TypeOK
    <3>2. CASE status'[a] # status[a]
      <4>1. status' = [status EXCEPT ![r.app] = r.to]
        BY <3>2, <1>3 DEF Save
      <4>2. a = r.app
        BY <3>2, <4>1 DEF TypeOK
      <4> QED BY <2>2, <4>2, ConstantsOK DEF TypeOK
    <3> QED BY <3>1, <3>2
  <2> HIDE DEF r
  <2>6. /\ message' \in [Messages -> Categories \cup {"waiting", "deleted"}]
        /\ link' \in [Messages -> Apps \cup {None}]
    BY <1>3, <2>1 DEF Save, TypeOK, r
  <2> QED BY <1>0, <1>3, <2>3, <2>4, <2>5, <2>6 DEF Save, TypeOK
<1>4. CASE Abandon(w)
  BY <1>0, <1>4 DEF Abandon, Discard, TypeOK, Exists
<1> QED BY <1>1, <1>2, <1>3, <1>4 DEF Work

\* The requests keep the types.
LEMMA RequestTypes ==
    ASSUME TypeOK, NEW a \in Apps, Request(a)
    PROVE  TypeOK'
<1> USE DEF rows, user
<1>1. ASSUME NEW s \in Statuses, NEW n \in Names, Create(a, s, n)
      PROVE  TypeOK'
  BY <1>1 DEF Create, TypeOK, Exists
<1>2. CASE OpenForm(a)
  BY <1>2 DEF OpenForm, TypeOK, Exists
<1>3. ASSUME NEW n \in Names, SubmitForm(a, n) PROVE TypeOK'
  <2>1. CASE Exists(a)
    <3>1. PICK s \in page[a] : status' = [status EXCEPT ![a] = s]
      BY <1>3, <2>1 DEF SubmitForm
    <3>2. s \in Statuses
      BY <3>1 DEF TypeOK
    <3> QED BY <1>3, <2>1, <3>1, <3>2 DEF SubmitForm, TypeOK, Exists
  <2>2. CASE ~Exists(a)
    BY <1>3, <2>2 DEF SubmitForm, TypeOK, Exists
  <2> QED BY <2>1, <2>2
<1>4. ASSUME NEW s \in Statuses, SetStatus(a, s) PROVE TypeOK'
  BY <1>4 DEF SetStatus, TypeOK, Exists
<1>5. CASE DeleteRead(a)
  BY <1>5 DEF DeleteRead, TypeOK, Exists
<1>6. CASE DeleteCommit(a)
  BY <1>6 DEF DeleteCommit, TypeOK, Exists, Statuses, Active, Locked
<1> QED BY <1>1, <1>2, <1>3, <1>4, <1>5, <1>6 DEF Request

LEMMA MessageTypes ==
    ASSUME TypeOK,
           \/ \E m \in Messages : DeleteMessage(m)
           \/ \E n \in notes : Dismiss(n)
    PROVE  TypeOK'
  BY DEF rows, user, DeleteMessage, Dismiss, TypeOK, Exists

LEMMA TypeInit == Init => TypeOK
  BY DEF Init, TypeOK, Runs, Exists, Statuses, Active, Locked

LEMMA TypeStep == TypeOK /\ [Next]_vars => TypeOK'
<1>1. ASSUME TypeOK, Next PROVE TypeOK'
  BY <1>1, WorkTypes, RequestTypes, MessageTypes DEF Next
<1>2. ASSUME TypeOK, UNCHANGED vars PROVE TypeOK'
  BY <1>2 DEF vars, rows, user, TypeOK, Exists
<1> QED BY <1>1, <1>2

\* Every reachable state of the tracker is well typed: a run in hand always
\* names a message, an application and a status that could be written.
THEOREM TypeCorrect == Spec => []TypeOK
  BY TypeInit, TypeStep, PTL DEF Spec

-----------------------------------------------------------------------------
(* Links                                                                   *)

\* The worker steps keep every link valid: only a commit writes one, and the
\* database lets it through only for an application that is still there.
LEMMA WorkLinks ==
    ASSUME TypeOK, LinkValid, NEW w \in Workers, Work(w)
    PROVE  LinkValid'
<1> USE DEF rows, user, Finish
<1>1. ASSUME NEW m \in Messages, Start(w, m) PROVE LinkValid'
  BY <1>1 DEF Start, LinkValid, Exists, HasResult
<1>2. ASSUME NEW e, NEW c, AutoLink(w, e, c) PROVE LinkValid'
  BY <1>2 DEF AutoLink, LinkValid, Exists, HasResult
<1>3. CASE Save(w)
  <2> DEFINE r == run[w]
  <2>1. /\ r.msg \in Messages /\ r.cat \in Categories
        /\ r.app \in Apps \cup {None} /\ r.to \in Statuses \cup {None}
    BY <1>3, DecidedType DEF Save
  <2>2. r.app # None => Exists(r.app)
    BY <1>3 DEF Save, Saveable
  <2>3. \A a \in Apps : Exists(a) => Exists(a)'
    BY <1>3, <2>1 DEF Save, Exists, TypeOK
  <2>4. \A m \in Messages : HasResult(m) => HasResult(m)'
    BY <1>3, <2>1 DEF Save, HasResult, TypeOK
  <2>5. message'[r.msg] \in Categories
    BY <1>3, <2>1 DEF Save, TypeOK
  <2>6. ASSUME NEW m \in Messages, link'[m] # None
        PROVE  Exists(link[m])' /\ HasResult(m)'
    <3>1. CASE link'[m] = link[m]
      <4>1. link[m] \in Apps
        BY <2>6, <3>1 DEF TypeOK
      <4>2. Exists(link[m]) /\ HasResult(m)
        BY <2>6, <3>1 DEF LinkValid
      <4> QED BY <2>3, <2>4, <3>1, <4>1, <4>2 DEF Exists
    <3>2. CASE link'[m] # link[m]
      <4>1. link' = [link EXCEPT ![r.msg] = r.app] /\ r.app # None
        BY <1>3, <3>2 DEF Save
      <4>2. m = r.msg /\ link'[m] = r.app
        BY <2>1, <3>2, <4>1 DEF TypeOK
      <4>3. status'[r.app] \in Statuses
        BY <2>1, <2>2, <2>3, <4>1 DEF Exists
      <4> QED BY <2>5, <4>2, <4>3 DEF Exists, HasResult
    <3> QED BY <3>1, <3>2
  <2> QED BY <2>6 DEF LinkValid
<1>4. CASE Abandon(w)
  BY <1>4 DEF Abandon, Discard, LinkValid, Exists, HasResult
<1> QED BY <1>1, <1>2, <1>3, <1>4 DEF Work

\* The requests keep every link valid: a deletion that would leave one
\* dangling is refused, every other write keeps the application.
LEMMA RequestLinks ==
    ASSUME TypeOK, LinkValid, NEW a \in Apps, Request(a)
    PROVE  LinkValid'
<1> USE DEF rows, user
<1>1. ASSUME UNCHANGED <<link, message>>,
             \A b \in Apps : Exists(b) => Exists(b)'
      PROVE  LinkValid'
  BY <1>1 DEF LinkValid, TypeOK, Exists, HasResult
<1>2. ASSUME NEW s \in Statuses, NEW n, Create(a, s, n) PROVE LinkValid'
  BY <1>1, <1>2 DEF Create, TypeOK, Exists
<1>3. CASE OpenForm(a) \/ DeleteRead(a)
  BY <1>1, <1>3 DEF OpenForm, DeleteRead, Exists
<1>4. ASSUME NEW n, SubmitForm(a, n) PROVE LinkValid'
  BY <1>1, <1>4 DEF SubmitForm, TypeOK, Exists
<1>5. ASSUME NEW s \in Statuses, SetStatus(a, s) PROVE LinkValid'
  BY <1>1, <1>5 DEF SetStatus, TypeOK, Exists
<1>6. CASE DeleteCommit(a)
  <2>1. PICK loaded \in deleting[a] :
          IF Deletable(a, loaded)
          THEN /\ status' = [status EXCEPT ![a] = "deleted"]
               /\ link' = [m \in Messages |-> IF m \in loaded THEN None
                                                              ELSE link[m]]
          ELSE UNCHANGED <<status, link>>
    BY <1>6 DEF DeleteCommit
  <2>2. CASE Deletable(a, loaded)
    <3>1. SUFFICES ASSUME NEW m \in Messages, link'[m] # None
                   PROVE  Exists(link[m])' /\ HasResult(m)'
      BY DEF LinkValid
    <3>2. m \notin loaded /\ link'[m] = link[m]
      BY <2>1, <2>2, <3>1
    <3>3. link[m] # a /\ link[m] \in Apps
      BY <2>2, <3>1, <3>2 DEF Deletable, TypeOK
    <3>4. Exists(link[m]) /\ HasResult(m)
      BY <3>1, <3>2 DEF LinkValid
    <3>5. status'[link[m]] = status[link[m]] /\ message' = message
      BY <1>6, <2>1, <2>2, <3>3 DEF DeleteCommit, TypeOK
    <3> QED BY <3>2, <3>4, <3>5 DEF Exists, HasResult
  <2>3. CASE ~Deletable(a, loaded)
    BY <1>1, <1>6, <2>1, <2>3 DEF DeleteCommit, Exists
  <2> QED BY <2>2, <2>3
<1> QED BY <1>2, <1>3, <1>4, <1>5, <1>6 DEF Request

LEMMA MessageLinks ==
    ASSUME TypeOK, LinkValid,
           \/ \E m \in Messages : DeleteMessage(m)
           \/ \E n \in notes : Dismiss(n)
    PROVE  LinkValid'
  BY DEF DeleteMessage, Dismiss, LinkValid, TypeOK, Exists, HasResult

\* A link always leads to an application that exists, and comes from a
\* finished analysis, whatever is deleted while analyses run.
THEOREM LinksSound == Spec => []LinkValid
<1>1. Init => LinkValid
  BY DEF Init, LinkValid
<1>2. ASSUME TypeOK, LinkValid, [Next]_vars PROVE LinkValid'
  <2>1. CASE Next
    BY <1>2, <2>1, WorkLinks, RequestLinks, MessageLinks DEF Next
  <2>2. CASE UNCHANGED vars
    BY <1>2, <2>2 DEF vars, rows, LinkValid, Exists, HasResult
  <2> QED BY <1>2, <2>1, <2>2
<1> QED BY <1>1, <1>2, TypeCorrect, PTL DEF Spec

-----------------------------------------------------------------------------
(* Notifications                                                           *)

\* The strengthening ToldOnce needs: a notification that is still there is
\* the one of the result, so a message without a result has none, and the
\* probe of _stage_notification never suppresses the first one.
NotesMatchResult == \A n \in notes : message[n[1]] = n[2]

TellInv == ToldOnce /\ NotesMatchResult

\* A commit writes the one notification its category calls for.
LEMMA SaveTells ==
    ASSUME TypeOK, TellInv, NEW w \in Workers, Save(w)
    PROVE  TellInv'
<1> DEFINE m == run[w].msg
           c == run[w].cat
<1>1. m \in Messages /\ c \in Categories
  BY DecidedType DEF Save
<1>2. message[m] = "waiting" /\ message' = [message EXCEPT ![m] = c]
  BY DEF Save, Saveable
<1>3. Notify(m, c)
  BY DEF Save
<1>4. c \notin {"waiting", "deleted"} /\ "waiting" \notin Announced
  BY <1>1 DEF Categories, Announced
<1>5. told[m] = 0
  BY <1>1, <1>2, <1>4 DEF TellInv, ToldOnce
<1>6. \A n \in notes : n[1] # m
  BY <1>2, <1>4 DEF TellInv, NotesMatchResult, TypeOK
<1> HIDE DEF m, c
<1>7. CASE c \in Announced
  <2>1. /\ notes' = notes \cup {<<m, c>>}
        /\ told' = [told EXCEPT ![m] = 1]
    BY <1>1, <1>3, <1>5, <1>6, <1>7 DEF Notify, TypeOK
  <2>2. ToldOnce'
    BY <1>1, <1>2, <1>7, <2>1 DEF TellInv, ToldOnce, TypeOK
  <2>3. NotesMatchResult'
    BY <1>1, <1>2, <1>6, <2>1 DEF TellInv, NotesMatchResult, TypeOK
  <2> QED BY <2>2, <2>3 DEF TellInv
<1>8. CASE c \notin Announced
  <2>1. UNCHANGED <<notes, told>>
    BY <1>3, <1>8 DEF Notify
  <2>2. ToldOnce'
    BY <1>1, <1>2, <1>5, <1>8, <2>1 DEF TellInv, ToldOnce, TypeOK
  <2>3. NotesMatchResult'
    BY <1>1, <1>2, <1>6, <2>1 DEF TellInv, NotesMatchResult, TypeOK
  <2> QED BY <2>2, <2>3 DEF TellInv
<1> QED BY <1>7, <1>8

\* No other step writes a notification or a result.
LEMMA OthersTell ==
    ASSUME TypeOK, TellInv,
           \/ UNCHANGED <<message, notes, told>>
           \/ \E m \in Messages : DeleteMessage(m)
           \/ \E n \in notes : Dismiss(n)
    PROVE  TellInv'
<1>1. CASE UNCHANGED <<message, notes, told>>
  BY <1>1 DEF TellInv, ToldOnce, NotesMatchResult
<1>2. ASSUME NEW m \in Messages, DeleteMessage(m) PROVE TellInv'
  BY <1>2 DEF DeleteMessage, TellInv, ToldOnce, NotesMatchResult, TypeOK
<1>3. ASSUME NEW n \in notes, Dismiss(n) PROVE TellInv'
  BY <1>3 DEF Dismiss, TellInv, ToldOnce, NotesMatchResult
<1> QED BY <1>1, <1>2, <1>3

\* Exactly one notification is ever written for each invitation or offer,
\* however often the message is analysed and whatever the user dismisses.
THEOREM OneNotification == Spec => []ToldOnce
<1>1. Init => TellInv
  BY DEF Init, TellInv, ToldOnce, NotesMatchResult, Announced
<1>2. ASSUME TypeOK, TellInv, [Next]_vars PROVE TellInv'
  <2>1. ASSUME NEW w \in Workers, Work(w) PROVE TellInv'
    <3>1. CASE Save(w)
      BY <1>2, <3>1, SaveTells
    <3>2. CASE ~Save(w)
      BY <1>2, <2>1, <3>2, OthersTell DEF Work, Start, AutoLink, Abandon, rows
    <3> QED BY <3>1, <3>2
  <2>2. ASSUME NEW a \in Apps, Request(a) PROVE TellInv'
    BY <1>2, <2>2, OthersTell DEF Request, Create, OpenForm, SubmitForm,
       SetStatus, DeleteRead, DeleteCommit, rows
  <2>3. CASE UNCHANGED vars
    BY <1>2, <2>3, OthersTell DEF vars, rows
  <2> QED BY <1>2, <2>1, <2>2, <2>3, OthersTell DEF Next
<1>3. TellInv => ToldOnce
  BY DEF TellInv
<1> QED BY <1>1, <1>2, <1>3, TypeCorrect, PTL DEF Spec

-----------------------------------------------------------------------------
(* The pipeline moves an application forward                               *)

\* As far as only the pipeline moves applications, and one run at a time: the
\* single ML worker of compose.yaml, and a user who edits no status.
OneRun == \A v, w \in Workers : v = w
OnlyPipelineMoves == UserOps \cap {"edit", "status"} = {}

\* What _auto_update_status decides for an application in status s: it moves
\* only active ones, never back to APPLIED, and far enough for the mail.
Moved(s, c) == IF NewStatus(s, c) = None THEN s ELSE NewStatus(s, c)

LEMMA MovedForward ==
    ASSUME NEW s \in Statuses, NEW c \in Categories
    PROVE  /\ Moved(s, c) \in Statuses
           /\ s \notin Active => Moved(s, c) = s
           /\ s # "applied" => Moved(s, c) # "applied"
           /\ c = "interview_invitation" => Moved(s, c) # "applied"
           /\ c \in {"offer", "rejection"} => Moved(s, c) \notin Active
<1> USE DEF Moved
<1>1. CASE c = "other"
  BY <1>1, NoneIsNoStatus DEF NewStatus, Target
<1>2. CASE c = "interview_invitation"
  <2>1. Target[c] = "interviewing" /\ c \in DOMAIN Target
    BY <1>2 DEF Target
  <2>2. s = "applied" => NewStatus(s, c) = "interviewing"
    BY <2>1 DEF NewStatus, Movable, Active, Rank, Ranked
  <2>3. s # "applied" => NewStatus(s, c) = None
    BY <2>1 DEF NewStatus, Movable, Active, Rank, Ranked
  <2> QED BY <1>2, <2>2, <2>3, NoneIsNoStatus DEF Statuses, Active, Locked
<1>3. CASE c = "offer"
  <2>1. Target[c] = "offered" /\ c \in DOMAIN Target
    BY <1>3 DEF Target
  <2>2. NewStatus(s, c) = IF s \in Active THEN "offered" ELSE None
    BY <2>1 DEF NewStatus, Movable, Active, Rank, Ranked
  <2> QED BY <1>3, <2>2, NoneIsNoStatus DEF Statuses, Active, Locked
<1>4. CASE c = "rejection"
  <2>1. Target[c] = "rejected" /\ c \in DOMAIN Target
    BY <1>4 DEF Target
  <2>2. NewStatus(s, c) = IF s \in Active THEN "rejected" ELSE None
    BY <2>1 DEF NewStatus, Movable
  <2> QED BY <1>4, <2>2, NoneIsNoStatus DEF Statuses, Active, Locked
<1> QED BY <1>1, <1>2, <1>3, <1>4 DEF Categories, Announced

\* The run that has decided still knows the status of its application, unless
\* that was deleted meanwhile, and no edit form is open.
FreshInv ==
    /\ \A a \in Apps : page[a] = {}
    /\ \A w \in Workers : run[w].at = "decided" =>
          /\ run[w].app = None => run[w].to = None
          /\ run[w].app # None =>
                \/ status[run[w].app] = "deleted"
                \/ /\ Exists(run[w].app)
                   /\ run[w].to = NewStatus(status[run[w].app], run[w].cat)

\* What the database lets through was decided on the status it is written over.
LEMMA SaveFresh ==
    ASSUME TypeOK, FreshInv, NEW w \in Workers, Save(w), run[w].app # None
    PROVE  /\ run[w].msg \in Messages /\ run[w].cat \in Categories
           /\ run[w].app \in Apps /\ status[run[w].app] \in Statuses
           /\ status' = [status EXCEPT ![run[w].app] = Moved(@, run[w].cat)]
<1>1. run[w].at = "decided" /\ Exists(run[w].app)
  BY DEF Save, Saveable
<1>2. run[w].app \in Apps /\ run[w].msg \in Messages /\ run[w].cat \in Categories
  BY <1>1, DecidedType
<1>3. status[run[w].app] \in Statuses /\ status[run[w].app] # "deleted"
  BY <1>1 DEF Exists, Statuses, Active, Locked
<1>4. run[w].to = NewStatus(status[run[w].app], run[w].cat)
  BY <1>1, <1>3 DEF FreshInv
<1>5. status' = [status EXCEPT ![run[w].app] = Moved(@, run[w].cat)]
  BY <1>2, <1>4 DEF Save, TypeOK, Moved
<1> QED BY <1>2, <1>3, <1>5

LEMMA NextFresh ==
    ASSUME OneRun, OnlyPipelineMoves
    PROVE  TypeOK /\ FreshInv /\ [Next]_vars => FreshInv'
<1> SUFFICES ASSUME TypeOK, FreshInv, [Next]_vars PROVE FreshInv'
  OBVIOUS
<1>1. ASSUME NEW w \in Workers, Work(w) PROVE FreshInv'
  <2>1. UNCHANGED page /\ \A v \in Workers : v = w
    BY <1>1 DEF Work, Start, AutoLink, Save, Abandon, user, OneRun
  <2>2. CASE run'[w] = Idle
    BY <2>1, <2>2 DEF FreshInv, Idle
  <2>3. ASSUME NEW m \in Messages, Start(w, m) PROVE FreshInv'
    BY <2>1, <2>3 DEF Start, FreshInv, TypeOK
  <2>4. ASSUME NEW e, NEW c \in Categories, AutoLink(w, e, c) PROVE FreshInv'
    <3> DEFINE m == run[w].msg
    <3>1. m \in Messages /\ UNCHANGED status
      BY <2>4, ReadingType DEF AutoLink, rows
    <3>2. \/ run'[w] = [at |-> "decided", msg |-> m, app |-> None, to |-> None, cat |-> c]
          \/ \E a \in Matches(m, e) : run'[w] =
               [at |-> "decided", msg |-> m, app |-> a, to |-> NewStatus(status[a], c), cat |-> c]
      BY <2>4 DEF AutoLink, TypeOK
    <3>3. \A a \in Matches(m, e) : a \in Apps /\ Exists(a)
      BY <3>1, MatchExists
    <3>4. /\ run'[w].app = None => run'[w].to = None
          /\ run'[w].app # None =>
                /\ Exists(run'[w].app)
                /\ run'[w].to = NewStatus(status[run'[w].app], run'[w].cat)
      <4>1. CASE run'[w] = [at |-> "decided", msg |-> m, app |-> None, to |-> None,
                            cat |-> c]
        BY <4>1
      <4>2. ASSUME NEW a \in Matches(m, e),
                   run'[w] = [at |-> "decided", msg |-> m, app |-> a,
                              to |-> NewStatus(status[a], c), cat |-> c]
            PROVE  <3>4!:
        BY <3>3, <4>2, ConstantsOK
      <4> QED BY <3>2, <4>1, <4>2
    <3> QED BY <2>1, <3>1, <3>4 DEF FreshInv, Exists
  <2>5. CASE Save(w) \/ Abandon(w)
    BY <2>2, <2>5 DEF Save, Abandon, Finish, TypeOK
  <2> QED BY <1>1, <2>3, <2>4, <2>5 DEF Work
<1>2. ASSUME UNCHANGED <<run, page>>,
             \A a \in Apps : status[a] = "absent" \/ status'[a] = status[a]
                             \/ status'[a] = "deleted"
      PROVE  FreshInv'
  <2>1. ASSUME NEW w \in Workers, run[w].at = "decided", run[w].app # None
        PROVE  \/ status'[run[w].app] = "deleted"
               \/ /\ Exists(run[w].app)'
                  /\ run[w].to = NewStatus(status'[run[w].app], run[w].cat)
    <3>1. run[w].app \in Apps
      BY <2>1, DecidedType
    <3>2. status[run[w].app] # "absent"
      BY <2>1 DEF FreshInv, Exists, Statuses, Active, Locked
    <3>3. CASE status'[run[w].app] = status[run[w].app]
      BY <1>2, <2>1, <3>3 DEF FreshInv, Exists
    <3> QED BY <1>2, <3>1, <3>2, <3>3
  <2> QED BY <1>2, <2>1 DEF FreshInv
<1>3. ASSUME NEW a \in Apps, Request(a) PROVE FreshInv'
  <2>1. /\ UNCHANGED <<run, page>>
        /\ \A b \in Apps : status[b] = "absent" \/ status'[b] = status[b]
                            \/ status'[b] = "deleted"
    BY <1>3 DEF Request, Create, OpenForm, SubmitForm, SetStatus, DeleteRead,
       DeleteCommit, FreshInv, OnlyPipelineMoves, TypeOK, rows, user
  <2> QED BY <1>2, <2>1
<1>4. ASSUME \/ \E m \in Messages : DeleteMessage(m)
             \/ \E n \in notes : Dismiss(n)
      PROVE  FreshInv'
  BY <1>2, <1>4 DEF DeleteMessage, Dismiss, user
<1>5. CASE UNCHANGED vars
  BY <1>2, <1>5 DEF vars, rows, user
<1> QED BY <1>1, <1>3, <1>4, <1>5 DEF Next

LEMMA FreshInvariant ==
    ASSUME OneRun, OnlyPipelineMoves
    PROVE  Spec => []FreshInv
<1>1. Init => FreshInv
  BY DEF Init, FreshInv, Idle
<1> QED BY <1>1, NextFresh, TypeCorrect, PTL DEF Spec

\* SAVED, OFFERED and WITHDRAWN are never overwritten by a commit of the
\* pipeline.
THEOREM LocksHold ==
    ASSUME OneRun, OnlyPipelineMoves
    PROVE  Spec => LockedUntouched
<1>1. ASSUME TypeOK, FreshInv, [Next]_vars, NEW w \in Workers,
             run[w].at = "decided", run' # run, NEW a \in Apps, status[a] \in Locked
      PROVE  status'[a] = status[a]
  <2>1. PICK v \in Workers : Work(v)
    BY <1>1 DEF Next, Request, Create, OpenForm, SubmitForm, SetStatus, DeleteRead,
       DeleteCommit, DeleteMessage, Dismiss, vars
  <2>2. CASE Save(v) /\ run[v].app # None
    <3>1. status[a] \in Statuses \ Active
      BY <1>1 DEF Statuses, Locked, Active
    <3>2. \A c \in Categories : Moved(status[a], c) = status[a]
      BY <3>1, MovedForward
    <3>3. a = run[v].app => status'[a] = status[a]
      BY <1>1, <2>2, <3>2, SaveFresh DEF TypeOK
    <3>4. a # run[v].app => status'[a] = status[a]
      BY <1>1, <2>2, SaveFresh DEF TypeOK
    <3> QED BY <3>3, <3>4
  <2>3. CASE Save(v) /\ run[v].app = None
    BY <1>1, <2>3 DEF Save, FreshInv
  <2> QED BY <2>1, <2>2, <2>3 DEF Work, Start, AutoLink, Abandon, Discard, rows
<1>2. TypeOK /\ FreshInv /\ [Next]_vars =>
        [\A w \in Workers : run[w].at = "decided" /\ run' # run =>
            \A a \in Apps : status[a] \in Locked => status'[a] = status[a]]_vars
  BY <1>1
<1> QED BY <1>2, TypeCorrect, FreshInvariant, PTL DEF Spec, LockedUntouched

\* Deletions, dismissals and new applications take no evidence away.
LEMMA OthersReflect ==
    ASSUME TypeOK, LinkValid, EvidenceReflected, UNCHANGED message,
           \A m \in Messages : link'[m] \in {link[m], None},
           \A a \in Apps : status[a] = "absent" \/ status'[a] = status[a]
                           \/ ~\E m \in Messages : link'[m] = a
    PROVE  EvidenceReflected'
<1> SUFFICES ASSUME NEW m \in Messages, link'[m] # None
             PROVE  /\ message'[m] = "interview_invitation" => status'[link'[m]] # "applied"
                    /\ message'[m] \in {"offer", "rejection"} =>
                          status'[link'[m]] \notin Active
  BY DEF EvidenceReflected
<1>1. link'[m] = link[m] /\ link[m] \in Apps /\ Exists(link[m])
  BY DEF TypeOK, LinkValid
<1>2. status'[link[m]] = status[link[m]]
  BY <1>1 DEF Exists, Statuses, Active, Locked
<1> QED BY <1>1, <1>2 DEF EvidenceReflected

\* The commit that links a mail moves its application far enough, and takes no
\* other mail's evidence back.
LEMMA SaveReflects ==
    ASSUME TypeOK, LinkValid, FreshInv, EvidenceReflected, NEW w \in Workers, Save(w)
    PROVE  EvidenceReflected'
<1>1. PICK m \in Messages, c \in Categories :
        /\ m = run[w].msg /\ c = run[w].cat
        /\ message[m] = "waiting" /\ message' = [message EXCEPT ![m] = c]
  BY DecidedType DEF Save, Saveable
<1>2. link[m] = None
  BY <1>1 DEF LinkValid, HasResult, Categories, Announced
<1>3. CASE run[w].app = None
  <2>1. UNCHANGED <<link, status>>
    BY <1>3 DEF Save, FreshInv
  <2> QED BY <1>1, <1>2, <2>1 DEF EvidenceReflected, TypeOK
<1>4. CASE run[w].app # None
  <2>1. PICK a \in Apps : /\ a = run[w].app /\ status[a] \in Statuses
                          /\ status' = [status EXCEPT ![a] = Moved(@, c)]
    BY <1>1, <1>4, SaveFresh
  <2>2. link' = [link EXCEPT ![m] = a]
    BY <1>1, <1>4, <2>1 DEF Save
  <2>3. status'[a] = Moved(status[a], c)
    BY <2>1 DEF TypeOK
  <2>4. ASSUME NEW n \in Messages, link'[n] # None
        PROVE  /\ message'[n] = "interview_invitation" => status'[link'[n]] # "applied"
               /\ message'[n] \in {"offer", "rejection"} =>
                     status'[link'[n]] \notin Active
    <3>1. CASE n = m
      <4>1. link'[n] = a /\ message'[n] = c
        BY <1>1, <2>2, <3>1 DEF TypeOK
      <4> QED BY <2>1, <2>3, <4>1, MovedForward
    <3>2. CASE n # m /\ link[n] = a
      <4>1. link'[n] = a /\ message'[n] = message[n] /\ a # None
        BY <1>1, <2>2, <3>2, ConstantsOK DEF TypeOK
      <4>2. /\ message[n] = "interview_invitation" => status[a] # "applied"
            /\ message[n] \in {"offer", "rejection"} => status[a] \notin Active
        BY <3>2, <4>1 DEF EvidenceReflected
      <4> QED BY <2>1, <2>3, <4>1, <4>2, MovedForward
    <3>3. CASE n # m /\ link[n] # a
      <4>1. /\ link'[n] = link[n] /\ message'[n] = message[n] /\ link[n] \in Apps
            /\ status'[link[n]] = status[link[n]]
        BY <1>1, <2>1, <2>2, <2>4, <3>3 DEF TypeOK
      <4> QED BY <2>4, <4>1 DEF EvidenceReflected
    <3> QED BY <3>1, <3>2, <3>3
  <2> QED BY <2>4 DEF EvidenceReflected
<1> QED BY <1>3, <1>4

\* An application shows what its linked mails say: an invitation has taken it
\* past APPLIED, an offer or a rejection out of the active states.
THEOREM EvidenceShown ==
    ASSUME OneRun, OnlyPipelineMoves
    PROVE  Spec => []EvidenceReflected
<1>1. Init => EvidenceReflected
  BY DEF Init, EvidenceReflected
<1>2. ASSUME TypeOK, LinkValid, FreshInv, EvidenceReflected, [Next]_vars
      PROVE  EvidenceReflected'
  <2>1. ASSUME NEW w \in Workers, Work(w) PROVE EvidenceReflected'
    <3>1. CASE Save(w)
      BY <1>2, <3>1, SaveReflects
    <3> QED BY <1>2, <2>1, <3>1 DEF Work, Start, AutoLink, Abandon, Discard, rows,
            EvidenceReflected
  <2>2. ASSUME NEW a \in Apps, Request(a) PROVE EvidenceReflected'
    <3>1. CASE DeleteCommit(a)
      <4>1. PICK loaded \in deleting[a] :
              IF Deletable(a, loaded)
              THEN /\ status' = [status EXCEPT ![a] = "deleted"]
                   /\ link' = [m \in Messages |-> IF m \in loaded THEN None
                                                                  ELSE link[m]]
              ELSE UNCHANGED <<status, link>>
        BY <3>1 DEF DeleteCommit
      <4>2. CASE Deletable(a, loaded)
        <5>1. ~\E m \in Messages : link'[m] = a
          BY <4>1, <4>2, ConstantsOK DEF Deletable
        <5> QED BY <1>2, <3>1, <4>1, <4>2, <5>1, OthersReflect DEF DeleteCommit, TypeOK
      <4>3. CASE ~Deletable(a, loaded)
        BY <1>2, <3>1, <4>1, <4>3 DEF DeleteCommit, EvidenceReflected
      <4> QED BY <4>2, <4>3
    <3>2. CASE \E s \in Statuses, n \in Names : Create(a, s, n)
      BY <1>2, <3>2, OthersReflect DEF Create, TypeOK
    <3>3. CASE OpenForm(a) \/ DeleteRead(a)
      BY <1>2, <3>3 DEF OpenForm, DeleteRead, rows, EvidenceReflected
    <3> QED BY <1>2, <2>2, <3>1, <3>2, <3>3
            DEF Request, SubmitForm, SetStatus, FreshInv, OnlyPipelineMoves
  <2>3. ASSUME NEW m \in Messages, DeleteMessage(m) PROVE EvidenceReflected'
    BY <1>2, <2>3 DEF DeleteMessage, EvidenceReflected, TypeOK
  <2>4. CASE UNCHANGED <<message, link, status>>
    BY <1>2, <2>4 DEF EvidenceReflected
  <2> QED BY <1>2, <2>1, <2>2, <2>3, <2>4 DEF Next, Dismiss, vars, rows
<1> QED BY <1>1, <1>2, TypeCorrect, LinksSound, FreshInvariant, PTL DEF Spec
=============================================================================

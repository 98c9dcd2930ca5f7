------------------------- MODULE ApplicationTracker -------------------------
(***************************************************************************)
(* Job applications, the messages the pipeline links to them, and the      *)
(* notifications it leaves.  The pipeline reads the applications, decides  *)
(* on a link and a new status, spends minutes in LLM calls, and writes     *)
(* everything in the one transaction that saves the result; the user       *)
(* creates, edits, moves and deletes applications meanwhile.               *)
(*                                                                         *)
(* Analysis is reduced to what matters here: a task may run for every      *)
(* message without a result, any number of times and on several workers    *)
(* (redelivery), and may end without a commit at any point.                *)
(*                                                                         *)
(* Operators named Mut... are the definition below them with a slip.       *)
(***************************************************************************)
EXTENDS Naturals, FiniteSets

CONSTANTS
    Messages,    \* message ids of one user
    Apps,        \* application ids of that user
    Names,       \* (company, role) pairs, typed by the user or extracted
    Fit,         \* Fit[e][n]: points for company and role of e against n
    SenderOf,    \* sender_email of a message, or None
    Workers,     \* ML worker processes
    UserOps,     \* which requests the user makes
    None         \* no link, no name, no sender

AllUserOps == {"create", "edit", "status", "delete", "message", "dismiss"}

ASSUME ConstantsOK ==
    /\ IsFiniteSet(Apps)
    /\ Fit \in [Names -> [Names -> 0..4]]
    /\ None \notin Apps /\ None \notin Names
    /\ UserOps \subseteq AllUserOps

VARIABLES
    status,    \* job_applications.status, or "absent" / "deleted"
    name,      \* (company, role) of the application
    message,   \* "waiting", the category of its analysis_results, "deleted"
    link,      \* messages.job_application_id
    notes,     \* notifications, as (message, category) pairs
    told,      \* history: notifications ever written for a message
    run,       \* the analysis each worker has in hand
    page,      \* the edit form the user has open, per application
    deleting   \* a delete request and the messages it has loaded

rows == <<status, name, message, link, notes, told>>
user == <<page, deleting>>
vars == <<rows, run, user>>

-----------------------------------------------------------------------------
(* Rules of the pipeline                                                   *)

Active   == {"applied", "interviewing"}
Locked   == {"saved", "offered", "withdrawn"}
Statuses == Active \cup Locked \cup {"rejected"}

ASSUME NoneIsNoStatus == None \notin Statuses

\* NOTIFICATION_MAP, STATUS_MAP and the categories neither of them names.
Announced  == {"interview_invitation", "offer"}
Categories == Announced \cup {"rejection", "other"}
Target == [interview_invitation |-> "interviewing", offer |-> "offered",
           rejection |-> "rejected"]
Ranked == [applied |-> 1, interviewing |-> 2, offered |-> 3]
Rank(s) == IF s \in DOMAIN Ranked THEN Ranked[s] ELSE 0

Exists(a) == status[a] \in Statuses
HasResult(m) == message[m] \in Categories

\* Stage 1: company and role first, an active status as the extra point.
Score(e, a) == IF e = None \/ ~Exists(a) THEN 0
               ELSE IF Fit[e][name[a]] = 0 THEN 0
               ELSE Fit[e][name[a]] + (IF status[a] \in Active THEN 1 ELSE 0)

Top(e) == {a \in Apps : /\ Score(e, a) >= 3
                        /\ \A b \in Apps : Score(e, b) <= Score(e, a)}

\* Stage 3: the tied applications with an earlier message of this sender.
Known(m, e) == {a \in Top(e) : \E o \in Messages \ {m} :
                   /\ link[o] = a
                   /\ SenderOf[o] = SenderOf[m] /\ SenderOf[m] # None}

\* The single winner, if there is one.
Matches(m, e) == IF Cardinality(Top(e)) = 1 THEN Top(e)
                 ELSE IF Cardinality(Known(m, e)) = 1 THEN Known(m, e) ELSE {}

MutMovable(s) == s \notin {"saved", "withdrawn"}
Movable(s) == s \in Active

MutNewStatus(s, c) ==
    IF Movable(s) /\ c \in DOMAIN Target /\ Rank(Target[c]) > Rank(s)
    THEN Target[c] ELSE None
\* _auto_update_status: the status to write, or None.
NewStatus(s, c) ==
    IF /\ Movable(s) /\ c \in DOMAIN Target
       /\ Target[c] # "rejected" => Rank(Target[c]) > Rank(s)
    THEN Target[c] ELSE None

-----------------------------------------------------------------------------
(* The workers                                                             *)

Idle == [at |-> "idle"]
Runs == {Idle} \cup [at : {"reading"}, msg : Messages]
               \cup [at : {"decided"}, msg : Messages, app : Apps \cup {None},
                     to : Statuses \cup {None}, cat : Categories]

Finish(w) == run' = [run EXCEPT ![w] = Idle]

\* The task passes the skip-if-done guard and starts the pipeline.
Start(w, m) ==
    /\ run[w] = Idle
    /\ message[m] = "waiting"
    /\ run' = [run EXCEPT ![w] = [at |-> "reading", msg |-> m]]
    /\ UNCHANGED <<rows, user>>

\* Classification and extraction are done: _auto_link_applications reads the
\* applications and sets link and status on its objects, not in the database.
AutoLink(w, e, c) ==
    /\ run[w].at = "reading"
    /\ LET m == run[w].msg
           Decide(a, s) == run' = [run EXCEPT ![w] =
               [at |-> "decided", msg |-> m, app |-> a, to |-> s, cat |-> c]]
       IN \/ Matches(m, e) = {} /\ Decide(None, None)
          \/ \E a \in Matches(m, e) : Decide(a, NewStatus(status[a], c))
    /\ UNCHANGED <<rows, user>>

MutSaveable(r) == message[r.msg] # "deleted" /\ (r.app # None => Exists(r.app))
\* What the database accepts: the message row is there, its result is the
\* first (unique), and the application still exists (foreign key, and the
\* UPDATE by primary key must find its row).
Saveable(r) == message[r.msg] = "waiting" /\ (r.app # None => Exists(r.app))

MutNotify(m, c) ==
    IF <<m, c>> \notin notes
    THEN /\ notes' = notes \cup {<<m, c>>}
         /\ told' = [told EXCEPT ![m] = @ + 1]
    ELSE UNCHANGED <<notes, told>>
\* _stage_notification: one per message and category, unless there is one.
Notify(m, c) ==
    IF c \in Announced /\ <<m, c>> \notin notes
    THEN /\ notes' = notes \cup {<<m, c>>}
         /\ told' = [told EXCEPT ![m] = @ + 1]
    ELSE UNCHANGED <<notes, told>>

\* _save_pipeline_results: result, link, status and notification at once.
Save(w) ==
    /\ run[w].at = "decided"
    /\ Saveable(run[w])
    /\ LET r == run[w] IN
       /\ message' = [message EXCEPT ![r.msg] = r.cat]
       /\ link' = IF r.app = None THEN link
                  ELSE [link EXCEPT ![r.msg] = r.app]
       /\ status' = IF r.to = None THEN status
                    ELSE [status EXCEPT ![r.app] = r.to]
       /\ Notify(r.msg, r.cat)
    /\ Finish(w)
    /\ UNCHANGED <<name, user>>

MutDiscard(w) ==
    /\ link' = IF run[w].at = "decided" /\ run[w].app # None
               THEN [link EXCEPT ![run[w].msg] = run[w].app] ELSE link
    /\ UNCHANGED status
\* mark_analysis_failed rolls back first: link and status decided so far go.
Discard(w) == UNCHANGED <<link, status>>

\* The run ends without a commit: an error of the database or of the LLM, a
\* time limit, a retry, or the death of the process.
Abandon(w) ==
    /\ run[w] # Idle
    /\ Discard(w)
    /\ Finish(w)
    /\ UNCHANGED <<name, message, notes, told, user>>

Work(w) == \/ \E m \in Messages : Start(w, m)
           \/ \E e \in Names \cup {None}, c \in Categories : AutoLink(w, e, c)
           \/ Save(w)
           \/ Abandon(w)

-----------------------------------------------------------------------------
(* The user                                                                *)

Create(a, s, n) ==
    /\ "create" \in UserOps
    /\ status[a] = "absent"
    /\ status' = [status EXCEPT ![a] = s]
    /\ name' = [name EXCEPT ![a] = n]
    /\ UNCHANGED <<message, link, notes, told, run, user>>

\* GET .../edit shows the row as it is now ...
OpenForm(a) ==
    /\ "edit" \in UserOps
    /\ Exists(a) /\ page[a] = {}
    /\ page' = [page EXCEPT ![a] = {status[a]}]
    /\ UNCHANGED <<rows, run, deleting>>

\* ... and POST writes every field of the form, the status shown included.
\* A form left open for a deleted application ends in a 404.
SubmitForm(a, n) ==
    /\ page[a] # {}
    /\ page' = [page EXCEPT ![a] = {}]
    /\ IF Exists(a)
       THEN /\ \E s \in page[a] : status' = [status EXCEPT ![a] = s]
            /\ name' = [name EXCEPT ![a] = n]
       ELSE UNCHANGED <<status, name>>
    /\ UNCHANGED <<message, link, notes, told, run, deleting>>

\* update_status: a blind write, except that the same status writes nothing.
SetStatus(a, s) ==
    /\ "status" \in UserOps
    /\ Exists(a)
    /\ status' = [status EXCEPT ![a] = s]
    /\ UNCHANGED <<name, message, link, notes, told, run, user>>

\* delete_application: the ORM loads the linked messages ...
DeleteRead(a) ==
    /\ "delete" \in UserOps
    /\ Exists(a) /\ deleting[a] = {}
    /\ deleting' = [deleting EXCEPT ![a] = {{m \in Messages : link[m] = a}}]
    /\ UNCHANGED <<rows, run, page>>

\* ... unlinks them and deletes the row.  It is refused when a loaded message
\* has gone (its UPDATE finds no row) or a new one was linked (foreign key).
Deletable(a, loaded) == /\ \A m \in loaded : message[m] # "deleted"
                        /\ \A m \in Messages : link[m] = a => m \in loaded

DeleteCommit(a) ==
    /\ deleting[a] # {}
    /\ deleting' = [deleting EXCEPT ![a] = {}]
    /\ \E loaded \in deleting[a] :
         IF Deletable(a, loaded)
         THEN /\ status' = [status EXCEPT ![a] = "deleted"]
              /\ link' = [m \in Messages |-> IF m \in loaded THEN None
                                                             ELSE link[m]]
         ELSE UNCHANGED <<status, link>>
    /\ UNCHANGED <<name, message, notes, told, run, page>>

\* delete_message cascades to the result and the notifications.
DeleteMessage(m) ==
    /\ "message" \in UserOps
    /\ message[m] # "deleted"
    /\ message' = [message EXCEPT ![m] = "deleted"]
    /\ link' = [link EXCEPT ![m] = None]
    /\ notes' = {n \in notes : n[1] # m}
    /\ UNCHANGED <<status, name, told, run, user>>

\* A notification is deleted, alone or with every other one already read.
Dismiss(n) ==
    /\ "dismiss" \in UserOps
    /\ notes' = notes \ {n}
    /\ UNCHANGED <<status, name, message, link, told, run, user>>

Request(a) == \/ \E s \in Statuses, n \in Names : Create(a, s, n)
              \/ OpenForm(a)
              \/ \E n \in Names : SubmitForm(a, n)
              \/ \E s \in Statuses : SetStatus(a, s)
              \/ DeleteRead(a)
              \/ DeleteCommit(a)

-----------------------------------------------------------------------------
Init ==
    /\ status = [a \in Apps |-> "absent"]
    /\ name = [a \in Apps |-> None]
    /\ message = [m \in Messages |-> "waiting"]
    /\ link = [m \in Messages |-> None]
    /\ notes = {}
    /\ told = [m \in Messages |-> 0]
    /\ run = [w \in Workers |-> Idle]
    /\ page = [a \in Apps |-> {}]
    /\ deleting = [a \in Apps |-> {}]

Next == \/ \E w \in Workers : Work(w)
        \/ \E a \in Apps : Request(a)
        \/ \E m \in Messages : DeleteMessage(m)
        \/ \E n \in notes : Dismiss(n)

Spec == Init /\ [][Next]_vars

-----------------------------------------------------------------------------
(* Properties                                                              *)

\* Every variable keeps to what its column or process can hold.
TypeOK ==
    /\ status \in [Apps -> Statuses \cup {"absent", "deleted"}]
    /\ name \in [Apps -> Names \cup {None}]
    /\ \A a \in Apps : Exists(a) => name[a] \in Names
    /\ message \in [Messages -> Categories \cup {"waiting", "deleted"}]
    /\ link \in [Messages -> Apps \cup {None}]
    /\ notes \in SUBSET (Messages \X Announced)
    /\ told \in [Messages -> Nat]
    /\ run \in [Workers -> Runs]
    /\ page \in [Apps -> SUBSET Statuses]
    /\ deleting \in [Apps -> SUBSET (SUBSET Messages)]

\* A link always leads to an application that exists, and only a finished
\* analysis leaves one: not a failed, killed or refused run, whatever was
\* deleted while it ran (_auto_link_applications, mark_analysis_failed).
LinkValid ==
    \A m \in Messages : link[m] # None => Exists(link[m]) /\ HasResult(m)

\* The empty state of the notifications page promises one notification for
\* each interview invitation or offer detected: exactly one is ever written,
\* also when a message is analysed twice at once or its notification was
\* dismissed, and none for a run that failed (_stage_notification).
ToldOnce ==
    \A m \in Messages :
        message[m] # "deleted" =>
            told[m] = IF message[m] \in Announced THEN 1 ELSE 0

\* An application shows at least what its linked mails say, as far as only
\* the pipeline moves it: an invitation has taken it past APPLIED, an offer
\* or a rejection out of the active states (_auto_update_status).
EvidenceReflected ==
    \A m \in Messages : link[m] # None =>
        LET s == status[link[m]] IN
        /\ message[m] = "interview_invitation" => s # "applied"
        /\ message[m] \in {"offer", "rejection"} => s \notin Active

\* SAVED, OFFERED and WITHDRAWN are locked: no pipeline commit changes them
\* (_auto_update_status: "OFFERED = terminal and locked", "WITHDRAWN =
\* user-only action, never touched by the pipeline").
LockedUntouched ==
    [][\A w \in Workers : run[w].at = "decided" /\ run' # run =>
          \A a \in Apps : status[a] \in Locked => status'[a] = status[a]]_vars

\* delete_application: "Delete a job application and all linked messages."
DeleteTakesMessages ==
    [][\A a \in Apps : status[a] # "deleted" /\ status'[a] = "deleted" =>
          \A m \in Messages : link[m] = a => message'[m] = "deleted"]_vars
=============================================================================

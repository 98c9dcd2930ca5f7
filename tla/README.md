# Verification of Interview Intel

Interview Intel is a Flask application with Celery workers. A user pastes a
recruiter's email; a web request takes one slot of a lifetime quota and queues
an analysis; an ML worker classifies the text, asks an LLM for details, links
the message to a tracked job application and saves the result. A periodic
reaper cleans up what crashes leave behind. This directory holds TLA+ models of
that system, TLC configurations that check them on small instances, and TLAPS
proofs of the properties that matter most for every instance.

Paths below are relative to the repository. "pass" runs hold; "violation" runs
reproduce a behaviour that contradicts what a comment or document of the
repository says.

## 1. Inventory

| Component | State | Operations | Interacts with |
|---|---|---|---|
| Lifetime quota (`app/services/quota_service.py`) | `users.analyses_used`, `users.nothing_to_show_refunds_used`, `messages.quota_refunded` | `consume_and_create_message`, `refund_analysis`, `refund_nothing_to_show` | called by the submission request, the analysis task and the reaper |
| Analysis task (`app/celery_tasks.py:432`, `app/services/workflow_service.py`) | `messages.status`, `analysis_results`, `agent_runs`, tasks, notifications | guard, flip to PROCESSING, pipeline, result commit, retry, failure handling | broker, quota, LLM and ML services, job applications |
| Reaper (`app/celery_tasks.py:567`, schedule in `config.py:276`) | none of its own; reads `messages.updated_at` | SELECT candidates, guarded UPDATE to FAILED, refund per candidate | quota, messages |
| Message requests (`app/routes/messages.py`) | `messages` | submit, archive, unarchive, note, delete, status | quota, broker |
| Broker (Redis, Celery) | queued and unacknowledged tasks | publish, deliver, acknowledge, redeliver, lose | web, workers |
| Auto-link and notifications (`workflow_service.py:1067-1428`) | `messages.job_application_id`, `job_applications.status`, `notifications` | scoring, status update, staged notification | application requests, notification requests |
| Application tracker (`app/routes/applications.py`) | `job_applications` | create, edit, quick status, delete | pipeline |
| Accounts and email tokens (`app/services/auth_service.py`, `app/routes/auth.py`, email tasks, `app/cli.py`) | token hashes and expiries, `is_verified`, password | register, verify, resend, reset, change, delete | broker, mail provider |
| Notifications (`app/routes/notifications.py`, `notifications.js`) | `notifications` | page, mark read, clear | pipeline |
| Tasks and due dates (`workflow_service.py:632-766`, `app/routes/tasks.py`, list of `app/routes/dashboard.py`) | `tasks` | generate, toggle, delete, list | pipeline, message requests |
| Status poller (`app/static/js/analysis-poll.js`, banner in `templates/messages/_analysis.html`) | attempts, what the tab shows | poll, reload, give up | message status |
| LLM, ML and language services (`app/services/llm_service.py`, `ml_service.py`, `preprocess_language.py`) | what each process could load | load, predict, normalize, six calls | pipeline |
| Limiter, proxy, demo, other pages, configuration, migrations | none that other components share at run time | | |

What is hard in this code: the web process, several workers, the reaper and
the user work on the same rows in separate transactions under READ COMMITTED;
the broker may deliver twice, late or never; every failure has two effects
(FAILED and the refund) that commit separately; an ORM read followed by a
write by primary key overwrites what was committed in between; time limits,
retries and the reaper's cutoff race each other. `PROJECT.json` lists the
hazards at their lines, with the properties that watch them.

What makes each component correct: the counter equals the slots held and every
failure returns its slot exactly once (quota); a finished message stays
finished, and every message finishes (task, reaper); what the user put away
stays away (requests); the audit log says what produced a result, and a run that
cannot produce one fails (pipeline); a stated deadline is shown as stated or not
at all (tasks); an open page stops waiting (poller); a link points to an application and a status moves as
the rules say (tracker); only the newest token of a user opens anything, and
only once (accounts).

## 2. Modules

| Module | Models | Depends on |
|---|---|---|
| `QuotaLedger` | what the quota promises: slots that are taken, given back, or given back from the capped budget | |
| `Analysis` | submission, broker, workers, reaper, user requests on messages | instantiates `QuotaLedger` |
| `MCAnalysis` | constants and symmetry for the runs of `Analysis` | `Analysis` |
| `AnalysisRun` | the inside of an analysis: normalization, prediction, the LLM calls, the soft limit, the audit log | extends `Analysis`, implements its `Spec` |
| `AnalysisPage` | a message in a browser tab: banner and poller | extends `Analysis` |
| `MCAnalysisRun`, `MCAnalysisPage` | constants for their runs | |
| `TaskRules` | action items, deadlines and task rules as functions | |
| `TaskPage` | the task rows of a user over time | extends `TaskRules` |
| `MCTaskPage` | the emails and days of the runs of `TaskPage` | `TaskPage` |
| `ApplicationTracker` | auto-link, status updates and notifications of the pipeline against the requests of the application pages | |
| `MCApplicationTracker` | constants and symmetry for the runs of `ApplicationTracker` | `ApplicationTracker` |
| `EmailTokens` | the verification and reset mails, their tokens, links, the operator command | |
| `NotificationPage` | the notification page against its server | |
| `MCNotificationPage` | constants and symmetry for the run of `NotificationPage` | `NotificationPage` |
| `AnalysisProofs` | type correctness; COMPLETED has a result; conservation, bounds, refinement of `QuotaLedger` | `Analysis` |
| `AnalysisOutcomeProofs` | how an analysis ends: results, refunds, refusals, the archive | `AnalysisProofs` |
| `AnalysisPageProofs` | types of the page; one navigation | `AnalysisPage`, `AnalysisOutcomeProofs` |
| `AnalysisRunProofs` | the pipeline implements `Analysis`; its types; rejected credentials; honest audit; paid calls | `AnalysisRun`, `AnalysisOutcomeProofs` |
| `ApplicationTrackerProofs` | type correctness; sound links; one notification; locked statuses; what linked mails say is shown | `ApplicationTracker` |
| `EmailTokensProofs` | type correctness; a stored token was mailed; only overlapping attempts make the newest link a dead one | `EmailTokens` |
| `NotificationPageProofs` | type correctness; pages without repeats or gaps; counts | `NotificationPage` |
| `TaskPageProofs` | type correctness; honest due dates; no work twice; overdue first | `TaskPage` |

### Analysis

One action is one database transaction or one broker call. A conditional UPDATE
is one atomic action; an ORM read and its later write are two actions.

| Variable | Code |
|---|---|
| `status`, `result`, `refunded` | `messages.status`, presence of the `analysis_results` row, `messages.quota_refunded`; `status` is also "absent" before the INSERT and "deleted" after the DELETE |
| `stale` | `messages.updated_at` lies before the reaper's cutoff. Every UPDATE of the row clears it (`onupdate`), `Age` sets it |
| `used`, `nts` | `users.analyses_used`, `users.nothing_to_show_refunds_used` |
| `route` | where `new_message` stands: publish, mark FAILED (read, write), refund |
| `edit` | the status an archive or restore request has decided on and not committed |
| `queue` | copies of each task (message, retries) waiting for delivery. Delivery order is free, which covers countdowns |
| `pc`, `job`, `stamped` | where a worker is in `analyze_message`, its task, and whether this run itself wrote `updated_at` |
| `sweep`, `cand` | where the reaper is, and its `candidate_ids` |
| `faults` | faults committed, for the bound `MaxFaults` |
| `refused` | history: messages whose refund the nothing-to-show cap refused |
| `cut` | history: messages whose refund was cut off after FAILED by a crash or a database error (`CutOff`) |

| Action | Code |
|---|---|
| `Submit` | `consume_and_create_message`, one commit |
| `Enqueue`, `EnqueueFails`, `EnqueueUnsure`, `RouteMark...`, `RouteRefund` | the rest of `new_message` |
| `Deliver`, `Guard`, `Flip` | `analyze_message` up to the pipeline |
| `Save`, `NothingToShow`, `Retry`, `Fail` | the ends of the pipeline. `Fail` stands for the soft time limit, exhausted retries, rejected credentials and every other exception: they do the same to the rows |
| `WorkerMark...`, `WorkerRefund`, `WorkerGoodwill`, `Ack` | `mark_analysis_failed`, the two refunds, late acknowledgement |
| `SweepSelect`, `SweepUpdate`, `SweepRefund` | `sweep_stuck_analyses`. The re-read of a candidate's status and its refund are one action |
| `ArchiveRead`, `UnarchiveRead`, `EditCommit`, `EditNote`, `Delete` | `routes/messages.py` |
| `RouteCrash`, `RouteDbError`, `CrashLost`, `CrashRedelivered`, `Redeliver`, `BrokerLoses`, `WorkerDbError`, `SweepCrash` | faults; `FaultKinds` selects them per run |

`CrashLost`: a pool child killed by the hard limit or the kernel; Celery
acknowledges its task although it is late-acknowledged, because
`task_reject_on_worker_lost` is off. `CrashRedelivered`: the whole worker is
gone and Redis hands its task out again. `BrokerLoses`: Redis restarts from a
snapshot.

Time. `Age` may fire only for a message nobody is about to write. A run that
stamped the row is bounded by the hard limit of 300 s, below the cutoff of
900 s. A task waiting in the queue has no such bound, and a later attempt finds
PROCESSING, stamps nothing, and may be reached by the cutoff (four attempts of
up to 240 s plus back-off exceed 900 s). `Patient = TRUE` is the assumption the
comment at `celery_tasks.py:386-391` makes: a message gets stuck only when no
task of it is left.

Abstractions. Texts, classifications and model answers do not appear: a
pipeline run is known by how it ends, and `AnalysisRun` opens it. Links and
notifications commit with the result and are the subject of
`ApplicationTracker`, tasks that of `TaskPage`. One sweep runs at a time.
Deleting an account is not modelled here. A note saved during an unstamped run
is allowed to postpone the reaper, as in the code.

### AnalysisRun

Every state has the variables of `Analysis` and what only the pipeline knows:

| Variable | Code |
|---|---|
| `run` | the locals of `run_message_analysis`: the step, `ml_ran`, `category`, `llm_ran`, `details`, the enrichment calls still to make and the outputs that are not None; history: whether this run saw a 401 or 403, and whether its soft limit rang |
| `loaded` | `is_loaded` of the two services in each worker process |
| `columns`, `audit` | the `analysis_results` row with its tasks, the `agent_runs` rows |
| `paid` | history: calls the provider answered, per message |

| Action | Code |
|---|---|
| `Starts` | guard and flip, then the call of `run_message_analysis` |
| `Normalize`, `Predict` | `normalize_text`, `MlService.predict`; both swallow every exception |
| `Extracted`, `Unextracted`, `ExtractTransient`, `ExtractCut`, `ExtractRejected` | the critical call: answered, impossible, transient error, soft limit, 401 or 403 |
| `GatePasses`, `GateCloses`, `GateFails` | the partial-failure gate and `_mark_failed_nothing_to_show` |
| `Enrich`, `EnrichRejected` | one call of `_run_llm_enrichments`, in the order of its dictionary |
| `SaveRun`, `SaveFails` | `_save_pipeline_results` |
| `Record` | `record_llm_config_failure`, a transaction between FAILED and the refund |
| `Handles`, `Ends`, `RunFaults`, `Restarts`, `UserAct`, `Others` | the task, faults, requests and reaper of `Analysis`, and what they mean for a run |

The steps that end a run conjoin the action of `Analysis` that this end is
(`Save`, `NothingToShow`, `Retry`, `Fail`). The soft time limit
(`SoftTimeLimitExceeded` is an ordinary exception) rings once, in any step:
`Late`. Linking happens between the gate and the enrichments and catches what
it raises; it is left to `ApplicationTracker`. The category and the LLM details
are reduced to what decides the calls made and the tasks saved. The extraction
passes an `Idempotency-Key`; since the provider's handling of it is not known
here, `paid` counts every answer.

### AnalysisPage

One tab (`viewed`, `shows`, `claim`, `poller`, `polls`) next to `Analysis`.
`Visit` renders `show_message`; `Finish`, `AskAgain` and `GiveUp` are the three
ways a question to `message_status` ends, an error being a question without a
terminal answer; `Reload` renders anew, after whatever happened meanwhile.
Other tabs are the requests of `Analysis`. `MAX_ATTEMPTS` is 2 in the run
instead of 100: a question that is repeated and one that is the last.

### TaskRules and TaskPage

`TaskRules` is pure: `CoerceActionItems` (`llm_service.py:344`), `ParseDueDate`
(`workflow_service.py:632`) on the calendar of `datetime`, `BuildTasks`
(`workflow_service.py:705`). A deadline text is absent, vague (no format of
`DUE_DATE_FORMATS` fits) or a stated day, month, perhaps year and weekday; a
date is its ordinal. Names stand for what strip and lower leave of them.

`TaskPage` has the rows of one user: `Paste` fixes the reference day, `Analyze`
commits the tasks perhaps days later, `ToggleRead` and `ToggleCommit` are the two
halves of `toggle_task`, `DeleteTask`, `Archive`, `Restore` and `DeleteMessage`
the other requests, `DayPasses` the clock. `Dashboard` is the list of
`dashboard.index` with its order and limit.

### ApplicationTracker

`run_message_analysis` reads the user's applications, decides on a link, a new
status and a notification, and commits all of it once, after LLM calls that take
minutes. One action is the read and the decision (`AutoLink`), another the
commit (`Save`) or the failure that discards what was decided (`Discard`).
Between the two every request of the application pages may run: `Create`,
`OpenForm` and `SubmitForm`, `SetStatus`, `DeleteRead` and `DeleteCommit`,
`DeleteMessage`, `Dismiss` (a notification). Foreign keys and the unique result
of a message are guards of the commit: a run whose application was deleted fails.

Company and role are one name; `Fit` in the MC module is the table of the scores
of `_auto_link_applications`, including ties, which the earlier messages of the
sender decide. The category "other" stands for a category without a status. The
read of the applications and of the sender's history is one step, and the limit
of fifty applications is not modelled. `compose.yaml` runs the ML worker with
concurrency 1; ADR 0010 (line 34) names worker count as the way to scale, so
the runs use one and two workers.

### EmailTokens

The routes queue a task and ignore whether that worked. The task reads the user
(`ReadUser`), stores the hash of a fresh token (`CommitToken`), then sends the
mail with that token (`Send`): three separate steps, in two worker processes
(`compose.yaml:191`). A token is the number of the commit that stored it, 0 is
NULL. Links are followed in two steps as well, the check (`Follow`) and the
commit by primary key (`FollowCommit`); so is `verify-user` (`OperatorRead`,
`OperatorCommit`: the ORM writes NULL only over a value it has read).
`RetrySend` is `autoretry_for`; `SendUnsure` is a mail that was accepted and
whose answer got lost; `SendRejected` the errors that are logged and not
retried. `owed` and `lost` are history: a request whose mail is still to come,
and an attempt that ended without its mail. So is `crossed`: the
stored token was committed while another worker had committed its own and not
yet sent it, the one way in which mails and tokens get swapped. `requests` bounds
the requests of both kinds together. At most one check of a link per kind
is open at a time. Two paths have no action of their own because others end
the same way: a publish that failed and was only logged is a `Request` followed
by `BrokerLoses`, and a database error when the task first reads the user is
`CrashLost` in "read".

### NotificationPage

`row` is the table of one user, `cards` the list in the browser. A request is
sent (`Click`), executed (`Commit`, `LoadMore`), counted in later statements
(`Recount`) and answered (`On...`); it may fail or get lost at each point
(`Fails`), and a reload (`Open`) abandons the answers still under way. `Stamp`
is `created_at`, which a writer takes before it commits: notifications may
share one and may become visible out of order. The list, the counts and the
buttons of one page load are read in one step. Its list is ordered by `InOrder`, the place of
a row being the number of rows before it.

## 3. Runs

All passing runs are exhaustive within their bounds. `CHECK_DEADLOCK FALSE` is
set where the system comes to rest: every message settled, every mail sent.

| Run | Bounds | What it shows |
|---|---|---|
| `quota` | 2 messages, 2 workers, allowance and budget at their limits, 1 fault of any kind, all user operations; 1.4 M states | The counter equals the slots held, both budgets hold, COMPLETED has its result, and the rows implement `QuotaLedger`. |
| `patient` | 2 messages, 1 tab on one of them, 1 worker, 1 retry, 2 questions per page, 1 fault, `Patient`; 114 k | If the reaper's assumption holds, no result is free, every failure is compensated unless a crash or a database error cut its refund off, what the user archived stays archived, a refused refund stays refused; an open page stops waiting, and its one reload shows an end. |
| `redelivery` | 1 message, 1 worker, the 3 retries of the code, 3 faults of any kind but a lost publish answer, reaper at any time; 219 k | COMPLETED is final and no unfinished message has a result; every message settles. |
| `analysis_run` | 1 message, 1 worker, 1 retry, the model answers "rejection" or nothing, soft limit in any step, 1 fault of any kind; 727 k | The audit log accounts for every result; rejected credentials fail the run and return its slot; the provider is paid for one analysis per run that a fault repeats; the steps implement `Analysis`. |
| `tracker` | 2 messages (one may run twice), 1 application, 2 workers, all requests; 1.1 M | No dangling link, none of a failed run, one notification per invitation or offer. |
| `tracker_forward` | 2 applications of one company, 2 messages, 1 worker, only the pipeline changes statuses; 107 k | A status shows at least what the linked mails say; locked statuses stay. |
| `email` | 2 workers, 2 verification mails, 1 retry, 2 faults of any kind; 389 k | A stored token was mailed however commits and sends overlap, unless its attempts were exhausted, refused or lost; the link of the newest mail is dead only if they did overlap; every request is answered or its task was lost. |
| `notifications` | 3 notifications, pages of 1, one change and any page load at once; 925 k | Pages neither repeat nor skip a row; the counts are right. |
| `tasks` | 2 messages, 5 kinds of email, 2 days around New Year, dashboard of 2; 2.0 M | Due dates agree with all the email states; no work is listed twice; nothing overdue is cut from the dashboard in favour of what is not. |

Why these bounds. Two messages and an allowance of two let one message re-use
the slot another one returned, and let a submission find the allowance spent;
a third adds no new relation, since messages meet only in the counters of their
user. Two workers are enough for one message run twice at once; in `email`
they are the two processes of `compose.yaml:191`, on one kind of mail,
since an overlap is of two attempts for the same mail; `EmailBothKinds.cfg`
checks the same properties for both kinds and one worker (328 k states). Each fault
hurts one message, so a single fault reaches each isolated failure; `redelivery`
looks at one message through up to three faults in a row and all four attempts
of `max_retries=3`. Elsewhere one retry distinguishes a first, a
repeated and a last attempt. The proofs of section 5 remove the bounds for the
invariants they cover. Three notifications with pages of one give a first, a
middle and a last page; the timestamps have a tie and an inversion. In
`analysis_run` one category suffices because categories differ only in the set
of calls and in whether they have standing tasks: "rejection" has the fewest
calls and no task, "unknown" three more; one worker is enough, since a
redelivery or a duplicate makes the message run again. The emails of `tasks`
hold a weekday that fits and one that does not, a repeated action, an action
named like a default, unusable entries before and after the cut at five, 29
February without a year, the edge of the grace period, and a rejected list.

### Disagreements with the documentation

| Run | The repository says | The code does |
|---|---|---|
| `late_task` | ADR 0013:83: total spend per user is bounded | A task that only waited longer than the reaper's cutoff is refunded and then runs: its slot pays twice. |
| `withdrawn` | `workflow_service.py:1309`: WITHDRAWN is never touched by the pipeline | The gate looks at a status read minutes before; the UPDATE by primary key overwrites a withdrawal made meanwhile. |
| `email_swapped` | ADR 0007:32-33: the worst case is a duplicate whose older link is dead | Two workers commit and send in different orders: the newest mail carries the dead link. |

### Further configurations

These `.cfg` files are kept for reference: each reproduces one more behaviour
that a comment or document does not expect. They are run like the others,
`tlc -config <file>.cfg <module>`.

| Configuration | Property | Behaviour |
|---|---|---|
| `AnalysisPublishRace` | `MarkKeepsCompleted` | `delay()` fails for a task Redis did take; `mark_analysis_failed` reads, the worker completes, FAILED is written over COMPLETED (`workflow_service.py:355` excludes that). |
| `AnalysisCrashRefund` | `NoSlotKept` | A pool child killed between the FAILED commit and the refund: the slot never comes back (`celery_tasks.py:444`). |
| `AnalysisArchiveSweep` | `NoSlotKept` | A reaped message archived before the reaper's re-check keeps its slot (`celery_tasks.py:624-626`). |
| `AnalysisArchiveRace` | `ArchivedStaysArchived` | A message reaped while its task waits may be archived, and the task brings it back (`messages.py:268-270`). |
| `AnalysisCapBypass` | `RefusalIsFinal` | A refund the cap refused is made by the reaper (`workflow_service.py:1440-1442`). |
| `AnalysisSoftLimit` | `SoftLimitFails` | The soft limit rings inside a call whose handler catches every exception: the run goes on and completes (`celery_tasks.py:485`). |
| `AnalysisHollow` | `NothingHollow` | A prediction that raised counts as one that ran: with the LLM out of reach the message completes with nothing to show and spends a slot (`workflow_service.py:576`). |
| `AnalysisStaleBanner` | `BannerTrue` | A message that failed for rejected credentials, is delivered again and fails for another reason still shows the service banner (`workflow_service.py:433-434`). |
| `AnalysisSlotSentence` | `SlotSentenceTrue` | The reload comes between FAILED and its refund: the page says the failure used an analysis, and nothing corrects it (`_analysis.html:43-46`). |
| `AnalysisStillAnalyzing` | `StillAnalyzingTrue` | A message archived in another tab is no status the poller stops at: it gives up with "Still analyzing" (`analysis-poll.js:53`). |
| `TaskYearEnd` | `YearEndRead` | "31 December" pasted on 1 January becomes a date twelve months out (`workflow_service.py:646-648` calls that a confident wrong date). |
| `TrackerOffer` | `LockedUntouched` | With two ML workers an invitation decided on APPLIED overwrites OFFERED (`workflow_service.py:1308`). |
| `TrackerDelete` | `DeleteTakesMessages` | Deleting an application keeps its messages, unlinked (`applications.py:214` says it deletes them). |
| `EmailLateReset` | `EarlierLinksFail` | A reset checked with an older link clears the token of the newest mail (ADR 0007:32). |
| `EmailLeftover` | `VerifiedKeepsNoToken` | A worker stores a token after the account was verified, and it stays (`cli.py:80-81`). |
| `EmailChildLost` | `NoRequestForgotten` | A killed pool child's task is acknowledged and the mail never comes (ADR 0007:9-11). |
| `NotificationsOverlap` | `BadgeCorrect` | Answers of two overlapping changes arrive in the other order: "Clear read" or the badge keeps an old count (`notifications.js:12-15`). |

## 4. Fairness

`Analysis!FairSpec`: weak fairness of the rest of a request that was started, of
an edit's commit, of each worker, of the reaper and of `Age`. Requests and tasks
are bounded by time limits, Celery hands queued tasks to idle workers, Beat
starts the sweep every 120 s, and time passes. Users and faults are not fair,
and no property depends on a user returning. `EmailTokens!FairSpec`: weak
fairness of each worker; provider and database calls are bounded by timeouts.
`AnalysisPage!FairPageSpec`
adds weak fairness of the tab: while it is open, its timer fires and every
question is answered or fails. No strong fairness is used.

## 5. Proofs

Assumed everywhere: `ConstantsOK` of the module proved about, and of the markers
that they are not what they mark the absence of: `NoJobIsNoTask` (`Analysis`,
`EmailTokens`), `RunConstantsOK` and `NoRowIsNoRow` (`AnalysisRun`),
`NoneIsNoStatus` (`ApplicationTracker`), `NoCallIsNoRequest`
(`NotificationPage`), `TaskConstantsOK` (`TaskRules`, `TaskPage`). TLC evaluates
them on every run. Everything else is proved, for any number of users, messages,
applications, workers, retries, requests, rows and faults. Every safety property
of a passing run has a theorem.

### Hypotheses

Some of them hold only where the system is spared a fault or an interleaving
the code does not survive. Their theorems say so in a hypothesis over the
constants, which the passing run satisfies. None is idle:
with the condition dropped (`FaultKinds`, `UserOps`, `Workers`, `Patient` or the
bound changed) TLC finds the property violated.

| Hypothesis | Meaning | Theorems | Without it |
|---|---|---|---|
| `TellsPublish` | a publish that raises did not queue the task | `UnfinishedEmpty`, `CompletedStays` | `AnalysisPublishRace` |
| `NeverRestores` | the user restores nothing from the archive | `FailureReturnsSlot`, `UnfinishedEmpty`, `CompletedStays`, `ArchiveHolds`, `NavigatesOnce` | with "unarchive": a restore writes, by primary key, a status it decided on earlier |
| `KeepsWorkers` | no whole worker dies | `FailureReturnsSlot` | with "worker" and "broker": the task handed out again is lost before its refund |
| `Isolated` | one ML worker, or no fault copies a task | `UnfinishedEmpty`, `CompletedStays` | two workers and "duplicate": one run completes the message, the other fails on the unique result and marks it FAILED |
| `NoCopies` | no fault copies a task | `PaidFor`, `LifetimeBound`, `RefusalStands`, `ArchiveHolds`, `NavigatesOnce` | two workers and "duplicate": a refunded message runs once more |
| `Patient` | the reaper finds only messages without a task | the same five | `AnalysisLateTask`, `AnalysisCapBypass`, `AnalysisArchiveRace` |
| `Enough` | one analysis makes no more calls than `CallLimit`; the six of the code are enough (`SixAreEnough`) | `PaidForOnce` | below five, a single analysis exceeds the limit |
| `OneRun` | one ML worker, as `compose.yaml` deploys it | `LocksHold`, `EvidenceShown` | `TrackerOffer` |
| `OnlyPipelineMoves` | the user edits no status | `LocksHold`, `EvidenceShown` | `TrackerWithdrawn` |
| `OneChange` | a change of the page waits for the answer to the one before | `BadgeHolds` | `NotificationsOverlap` |

`AnalysisArchiveSweep` violates `NoSlotKept`, which is stronger than
`SlotReturned`: it also looks at messages archived after they failed.

### Analysis and its pipeline

- `AnalysisProofs!TypeCorrect`, one lemma per group of steps.
  `CompletedSound`: COMPLETED has a result. The strengthening `ResultInv` adds
  what a restore in flight relies on: an edit that decided on "completed" saw a
  result, and results only disappear with their message. `StepKinds` shows that
  each step takes a slot, gives one back, gives one back from the budget, or
  leaves the quota columns alone, and that the first three are the actions of
  `QuotaLedger`. From it follow `Conservation` (the counter is the cardinality
  of the slots held), `Bounds` and `ImplementsLedger` (the refinement).
- `AnalysisOutcomeProofs` has two layers. `OpenInv` says what every process that
  is about to write a status knows of the result: whoever is going to write
  PROCESSING or FAILED has seen none, and none can appear before it writes,
  because runs of a message do not overlap (`Apart`). `UnfinishedEmpty` and
  `CompletedStays` follow. `SettleInv` says who will still give a slot back: a
  failed message has its refund made, refused or cut off, or somebody is left
  who makes it; `FailureReturnsSlot` is the case where nobody is left.
- The second layer starts from `OneCopy`: a message has one task, one request or
  one run at a time, handed from each to the next. With it `FateInv` says what
  is fixed once nobody holds a message any more: a result pays, a refused refund
  stays refused. `PaidFor`, `LifetimeBound` (counting the results against
  `QuotaInv`) and `RefusalStands` follow. `AwayInv` adds that only undecided
  messages are in the hands of somebody who will write their status, hence
  `ArchiveHolds`.
- `AnalysisPageProofs!PageCorrect` strengthens the types by where the poller is
  (`PageInv`). `NavigatesOnce` needs `HeardInv`: a terminal answer was given
  about a message that will not be reopened, which is `FateInv` and `AwayInv`
  again.
- `AnalysisRunProofs!PipelineKeepsContract` is the refinement: with the identity
  as its mapping, every step of `AnalysisRun` is a step of `Analysis` or leaves
  its variables alone, so `Conservation` and every other theorem about
  `Analysis!Spec` carries over (`RunConserves`). `RunTypeCorrect` needs that
  both modules agree on where each worker is (`Placed`). `AuditIsHonest` is
  inductive with the types and with what a run in progress has gathered: an
  output was asked for by the policy, and the LLM counts as used only if it was
  paid; the unique result keeps a second COMPLETED row away.
  `RejectedRunFails` follows a rejected run through the failure handler: it can
  only be marking FAILED, recording, refunding or done. A refund that is reached
  settles the slot (`RefundSettles`, which needs that tasks are about messages
  that were submitted, `OnlySubmitted`), and what is settled stays so
  (`LastingStep`).
- `PaidForOnce` is a budget. `PaidInv` adds to the calls paid what may still be
  paid: `CallLimit` for the submission to come, for each waiting task and for
  each worker that has not called yet (`Attempts`), and one for each call ahead
  of a run that was answered (`Calls`). A step hands an attempt on, trades it
  for its calls, pays one of these, or is a fault, which brings one more
  attempt (`BudgetHanded`, `BudgetKept`, `BudgetCopied`). The sum never exceeds
  `CallLimit` per fault and one.

### The other components

- `ApplicationTrackerProofs!LinksSound` is inductive together with the types.
  `OneNotification` needs that a message has been announced exactly if a result
  was saved for it: the unique result is what makes the query-then-insert of
  `_stage_notification` safe. `LocksHold` and `EvidenceShown` need `FreshInv`:
  with one run at a time the status a run decided from is still there when it
  commits, so that the step is one of `_auto_update_status` (`Moved`).
- `EmailTokensProofs`. The types need that an attempt about to send holds a
  token. `MailReachesUser` strengthens "at rest a stored token was mailed" to
  `MailInv`: it was mailed, or an attempt is pending that mails it or stores
  another one: a queued task, a worker that has not stored its token yet, or
  one that holds exactly the stored token. `OthersKeep` is the frame rule: a
  step of one worker leaves the pending attempts of the others alone.
  `NewestUnlessOverlap` has no hypothesis: for any number of workers the newest
  link is dead only after an overlap (`crossed`), which `EmailSwapped` shows to
  happen. It needs `NewestInv`: while the stored token was committed without an
  overlap, every attempt about to send holds that token, or the token was cleared
  meanwhile, and if it was mailed it was mailed last. A commit that sees no other
  attempt about to send makes this true again.
- `NotificationPageProofs`. `Ranks` says that the operator which lists a set by
  its order does so; from it follow what a page of `Fetch` holds and what a
  deletion leaves of the cards. `PageInv` relates cards, cursor and the answers
  under way, which may be late; `ListInv` adds what the one awaited page
  continues. Both `NeverTwice` and `NeverSkips` rest on it and on the disabled
  button: at most one page is awaited. `BadgeInv` says that an answer carries
  the counts the table has, and the page those of the last answer.
- `TaskPageProofs`. `Months` and `Ordinals` are the calendar: no month is
  shorter than in 1900, the year `strptime` assumes, and every date has its
  ordinal. `Parsed` says what `ParseDueDate` returns for any deadline, `Items`
  what is left of an answer, `Rules` what the table of rules holds, `Built` what
  `BuildTasks` makes of them: at most the cap, with different names and honest
  dates. `TaskInv` (`Rows`) carries that through toggles, deletions, the
  archive and the days (`RowsKept`, `RowsAdded`, `Tomorrows`). `OverdueFirst`
  is about one moment: in the order of the dashboard the overdue come before the
  rest (`OverdueBefore`), wherever the list is cut.

## 6. Only model-checked, and not modelled

Liveness (`Settles`, `FailureCompensated`, `Answered`, `WaitingEnds`) is
model-checked only: the prover covers neither fairness nor ENABLED. The
violation runs are TLC's by their nature; `ResultsBounded`, which one of them
violates, is also proved under the hypotheses of `LifetimeBound`.

Left out of the models: deleting an account while its messages are analysed;
two sweeps at once (Beat runs one); a failing publication of a retry, which ends
like a killed child; the edit form writing back an old status in the properties
about statuses, since no document says which writer wins; the password-changed
notice; the urgency floor and the inheritance of the job field, which change
labels that no other step reads; the length caps of extracted fields and the
recovery of JSON from prose, which decide only whether an answer has details;
row locks, whose deadlocks PostgreSQL turns into the database errors of the
runs. Not modelled at all: training of the models, rate limits, proxy trust,
sessions, the demo, pages that only read, startup validation and migrations;
`PROJECT.json` gives the reason for each.

## 7. Plan

Done: quota, analysis, tracker, emails, notifications, the pipeline, the page
and the tasks, each checked and its safety properties proved. What a
continuation would add, in order:

1. The hypotheses of section 5 made weaker where the code allows, for instance
   a restore at a time when no task of its message is left, and the tracker's
   theorems for applications whose status the user does not edit.
2. The timing of a chain of attempts against the cutoff of 900 s, with clocks
   instead of `Patient`.
3. The row locks of the two refunds, which take the user row and the message row
   in opposite orders.
4. The pipeline with linking inside, composed of `AnalysisRun` and
   `ApplicationTracker`.

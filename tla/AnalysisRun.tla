----------------------------- MODULE AnalysisRun -----------------------------
(***************************************************************************)
(* The inside of one analysis.  Module Analysis knows a pipeline run by    *)
(* how it ends; here run_message_analysis is taken step by step: language  *)
(* normalization, the ML prediction, the critical extraction call, the     *)
(* five enrichment calls, and the one transaction that saves it all.  Each *)
(* step that ends a run does what Analysis says such an end does, and also *)
(* writes the rows only this module knows: the analysis and its audit.     *)
(*                                                                         *)
(* A soft time limit rings once in a run, in the middle of any step: what  *)
(* happens to it depends on who catches it there.  Answers are abstracted  *)
(* to what decides the way on, and linking is the subject of               *)
(* ApplicationTracker.                                                     *)
(***************************************************************************)
EXTENDS Analysis, Sequences

CONSTANTS
    Predicted,   \* the categories the model may answer in this instance
    MayRing,     \* the soft time limit may ring
    CallLimit,   \* paid LLM calls of one analysis (6)
    NoRow        \* no analysis_results row

Categories == {"interview_invitation", "scheduling", "recruiter_outreach",
               "follow_up", "application_received", "offer", "rejection"}
Unknown == "unknown"   \* category None: the model did not run, or failed

Enrichments == {"prep", "questions", "reply", "role", "archive"}
Tools == {"ml_service", "llm_service", "task_generator"}

ASSUME RunConstantsOK ==
    /\ Predicted \subseteq Categories
    /\ MayRing \in BOOLEAN
    /\ CallLimit \in Nat

\* What a run has gathered so far.
Runs == [step : {"none", "normalize", "predict", "extract", "gate", "enrich",
                 "save", "record"},
         ml : BOOLEAN,                        \* ml_ran
         category : Categories \cup {Unknown},
         llm : BOOLEAN,                       \* llm_ran
         details : {"none", "bare", "items"}, \* with or without action items
         todo : SUBSET Enrichments,           \* calls not made yet
         filled : SUBSET Enrichments,         \* outputs that are not None
         rejected : BOOLEAN,                  \* history: saw a 401 or 403
         rung : BOOLEAN]                      \* the soft limit has rung
ASSUME NoRowIsNoRow ==
    NoRow \notin [category : Categories \cup {Unknown},
                  details : {"none", "bare", "items"},
                  filled : SUBSET Enrichments, tasks : BOOLEAN]

VARIABLES
    run,      \* the run in each worker's hands
    loaded,   \* the services each worker process could load at startup
    columns,  \* the analysis_results row of each message, its tasks included
    audit,    \* the agent_runs rows of each message, oldest first
    paid      \* history: LLM calls the provider answered, per message

runVars == <<run, loaded, columns, audit, paid>>
allVars == <<vars, runVars>>

-----------------------------------------------------------------------------
(* The rules of the pipeline                                               *)

\* GUIDANCE_POLICY: what each category gets.  The role and archive summaries
\* are always made; an unknown category gets a stage-neutral guide and reply.
Wanted(c) ==
    {"role", "archive"}
        \cup {e \in {"prep"} : c # "rejection"}
        \cup {e \in {"questions"} : c \in {"interview_invitation", "scheduling"}}
        \cup {e \in {"reply"} : c \notin {"application_received", "rejection"}}

\* The calls are made in the order of their definition, one after the other.
Order == <<"prep", "questions", "reply", "role", "archive">>
IsNext(e, todo) ==
    \E i \in DOMAIN Order :
        Order[i] = e /\ \A j \in 1..(i - 1) : Order[j] \notin todo

\* TASK_RULES: each of these categories has at least one standing task.
WithTasks == {"interview_invitation", "offer", "scheduling"}
TasksMade(r) == r.category \in WithTasks \/ r.details = "items"

MutToolsUsed(r) == {"ml_service", "llm_service"}
                       \cup {t \in {"task_generator"} : TasksMade(r)}
\* tools_used: what actually ran, not what was available.
ToolsUsed(r) == {t \in {"ml_service"} : r.ml}
                    \cup {t \in {"llm_service"} : r.llm}
                    \cup {t \in {"task_generator"} : TasksMade(r)}

Analyzed(r) == [category |-> r.category, details |-> r.details,
                filled |-> r.filled, tasks |-> TasksMade(r)]
AuditRow(s, tools, why) == [status |-> s, tools |-> tools, reason |-> why]

-----------------------------------------------------------------------------
(* run_message_analysis, step by step                                      *)

Idle == [step |-> "none", ml |-> FALSE, category |-> Unknown, llm |-> FALSE,
         details |-> "none", todo |-> {}, filled |-> {},
         rejected |-> FALSE, rung |-> FALSE]

At(w, s) == pc[w] = "run" /\ run[w].step = s

\* Whether the soft limit rings in the middle of this step.
Late(w) == IF MayRing /\ ~run[w].rung THEN BOOLEAN ELSE {FALSE}

Becomes(w, r) == run' = [run EXCEPT ![w] = r]

\* The run stays inside the pipeline: no row of Analysis changes.
Inside == UNCHANGED <<vars, loaded, columns, audit>>

MutLeaves(w, step, rejected, late) ==
    /\ Becomes(w, [run[w] EXCEPT !.rejected = rejected, !.rung = @ \/ late])
    /\ UNCHANGED <<loaded, columns>>
\* The run is over, and so is what it gathered.
Leaves(w, step, rejected, late) ==
    /\ Becomes(w, [Idle EXCEPT !.step = step, !.rejected = rejected,
                               !.rung = run[w].rung \/ late])
    /\ UNCHANGED <<loaded, columns>>

\* normalize_text: English, translated, or neither.  Its broad handler also
\* catches the soft limit, and the text then counts as not translated.
Normalize(w) ==
    /\ At(w, "normalize")
    /\ \E safe \in BOOLEAN, late \in Late(w) :
          /\ late => ~safe
          /\ Becomes(w, [run[w] EXCEPT !.step = IF safe THEN "predict" ELSE "save",
                                       !.rung = @ \/ late])
    /\ Inside /\ UNCHANGED paid

\* MlService.predict swallows every exception, the soft limit included, and
\* returns the empty result; ml_ran is set all the same.
Predict(w) ==
    /\ At(w, "predict")
    /\ IF "ml" \in loaded[w]
       THEN \E c \in Predicted \cup {Unknown}, late \in Late(w) :
               /\ late => c = Unknown
               /\ Becomes(w, [run[w] EXCEPT !.step = "extract", !.ml = TRUE,
                                            !.category = c, !.rung = @ \/ late])
       ELSE Becomes(w, [run[w] EXCEPT !.step = "extract"])
    /\ Inside /\ UNCHANGED paid

\* One more answer the provider bills.
Pay(w) == paid' = [paid EXCEPT ![MsgOf(w)] = @ + 1]

\* extract_interview_details answered.  What _safe_json_load and the coercions
\* cannot use is no detail at all; llm_ran is set either way.
Extracted(w) ==
    /\ At(w, "extract") /\ "llm" \in loaded[w]
    /\ \E d \in {"none", "bare", "items"} :
          Becomes(w, [run[w] EXCEPT !.step = "gate", !.llm = TRUE, !.details = d])
    /\ Pay(w) /\ Inside

\* The service is not loaded, or the error is permanent and this email's.
Unextracted(w) ==
    /\ At(w, "extract")
    /\ Becomes(w, [run[w] EXCEPT !.step = "gate"])
    /\ Inside /\ UNCHANGED paid

\* A transient error bubbles out: the task publishes its next attempt, or
\* fails when it has none left.  The client reports an interrupted request as
\* a connection error, so the soft limit may look like one too.
ExtractTransient(w) ==
    /\ At(w, "extract") /\ "llm" \in loaded[w]
    /\ \/ Retry(w)
       \/ job[w].retries = MaxRetries /\ Fail(w)
    /\ \E late \in Late(w) : Leaves(w, "none", FALSE, late)
    /\ UNCHANGED <<audit, paid>>

\* The soft limit interrupts the extraction outside the client.
ExtractCut(w) ==
    /\ At(w, "extract") /\ TRUE \in Late(w)
    /\ Fail(w)
    /\ Leaves(w, "none", FALSE, TRUE)
    /\ UNCHANGED <<audit, paid>>

\* 401 or 403: LLMConfigurationError.
ExtractRejected(w) ==
    /\ At(w, "extract") /\ "llm" \in loaded[w]
    /\ Fail(w)
    /\ Leaves(w, "record", TRUE, FALSE)
    /\ UNCHANGED <<audit, paid>>

HasNothing(r) == ~r.ml /\ ~r.llm

\* The partial-failure gate lets the run go on ...
GatePasses(w) ==
    /\ At(w, "gate") /\ ~HasNothing(run[w])
    /\ Becomes(w, IF run[w].llm
                  THEN [run[w] EXCEPT !.step = "enrich",
                                      !.todo = Wanted(run[w].category)]
                  ELSE [run[w] EXCEPT !.step = "save"])
    /\ Inside /\ UNCHANGED paid

Append1(m, row) == audit' = [audit EXCEPT ![m] = Append(@, row)]

\* ... or _mark_failed_nothing_to_show writes its audit row with FAILED,
GateCloses(w) ==
    /\ At(w, "gate") /\ HasNothing(run[w])
    /\ NothingToShow(w)
    /\ Append1(MsgOf(w), AuditRow("failed", {}, "nothing"))
    /\ Leaves(w, "none", FALSE, FALSE)
    /\ UNCHANGED paid

\* or that commit fails, which is a failure like any other.
GateFails(w) ==
    /\ At(w, "gate") /\ HasNothing(run[w])
    /\ Fail(w)
    /\ Leaves(w, "none", FALSE, FALSE)
    /\ UNCHANGED <<audit, paid>>

\* One enrichment call: its text, an answer without text, or an error that
\* degrades the field to None, the soft limit included.
Enrich(w) ==
    /\ At(w, "enrich")
    /\ \E e \in run[w].todo, outcome \in {"text", "empty", "error"}, late \in Late(w) :
          LET rest == run[w].todo \ {e} IN
          /\ IsNext(e, run[w].todo)
          /\ late => outcome = "error"
          /\ Becomes(w, [run[w] EXCEPT
                !.step = IF rest = {} THEN "save" ELSE "enrich",
                !.todo = rest,
                !.filled = IF outcome = "text" THEN @ \cup {e} ELSE @,
                !.rung = @ \/ late])
          /\ IF outcome = "error" THEN UNCHANGED paid ELSE Pay(w)
    /\ Inside

MutRetriesRejected(w) ==
    /\ At(w, "enrich")
    /\ Retry(w)
    /\ Leaves(w, "none", TRUE, FALSE)
    /\ UNCHANGED <<audit, paid>>
MutDegradesRejected(w) ==
    /\ At(w, "enrich")
    /\ Becomes(w, [run[w] EXCEPT !.step = "save", !.rejected = TRUE])
    /\ Inside /\ UNCHANGED paid

\* Credentials revoked after the extraction: not degraded.
EnrichRejected(w) ==
    /\ At(w, "enrich")
    /\ Fail(w)
    /\ Leaves(w, "record", TRUE, FALSE)
    /\ UNCHANGED <<audit, paid>>

\* _save_pipeline_results: the row, its tasks and the audit row commit with
\* COMPLETED ...
SaveRun(w) ==
    LET m == MsgOf(w) IN
    /\ At(w, "save")
    /\ Save(w)
    /\ columns' = [columns EXCEPT ![m] = Analyzed(run[w])]
    /\ Append1(m, AuditRow("completed", ToolsUsed(run[w]), "analysis"))
    /\ Becomes(w, [Idle EXCEPT !.rung = run[w].rung])
    /\ UNCHANGED <<loaded, paid>>

\* ... or nothing of it does: a constraint, the database, the soft limit.
SaveFails(w) ==
    /\ At(w, "save")
    /\ Fail(w)
    /\ \E late \in Late(w) : Leaves(w, "none", FALSE, late)
    /\ UNCHANGED <<audit, paid>>

Pipeline(w) ==
    \/ Normalize(w) \/ Predict(w)
    \/ Extracted(w) \/ Unextracted(w)
    \/ ExtractTransient(w) \/ ExtractCut(w) \/ ExtractRejected(w)
    \/ GatePasses(w) \/ GateCloses(w) \/ GateFails(w)
    \/ Enrich(w) \/ EnrichRejected(w)
    \/ SaveRun(w) \/ SaveFails(w)

-----------------------------------------------------------------------------
(* The task around the pipeline, and everybody else                        *)

Starting == [Idle EXCEPT !.step = "normalize"]

\* The guard and the flip to PROCESSING lead into the pipeline.
Starts(w) ==
    /\ Guard(w) \/ Flip(w)
    /\ Becomes(w, IF pc'[w] = "run" THEN Starting ELSE Idle)
    /\ UNCHANGED <<loaded, columns, audit, paid>>

MutRecord(w) ==
    /\ pc[w] = "refund" /\ run[w].step = "record"
    /\ Goto(w, "ack")
    /\ Append1(MsgOf(w), AuditRow("failed", {}, "credentials"))
    /\ Becomes(w, [run[w] EXCEPT !.step = "none"])
    /\ UNCHANGED <<rows, web, queue, job, stamped, reaper, hist>>
    /\ UNCHANGED <<loaded, columns, paid>>

\* record_llm_config_failure, between FAILED and the refund, in a transaction
\* of its own: the row, or nothing if the message or the database is gone.
Record(w) ==
    LET m == MsgOf(w) IN
    /\ pc[w] = "refund" /\ run[w].step = "record"
    /\ \/ Exists(m) /\ Append1(m, AuditRow("failed", {}, "credentials"))
       \/ (~Exists(m) \/ "dberror" \in FaultKinds) /\ UNCHANGED audit
    /\ Becomes(w, [run[w] EXCEPT !.step = "none"])
    /\ UNCHANGED <<vars, loaded, columns, paid>>

\* The rest of the failure handling is that of Analysis.
Handles(w) ==
    /\ \/ \E t \in Tasks : Deliver(w, t)
       \/ WorkerMarkRead(w) \/ WorkerMarkWrite(w)
       \/ run[w].step # "record" /\ WorkerRefund(w)
       \/ WorkerGoodwill(w)
    /\ UNCHANGED runVars

\* The worker is done with the task.
Ends(w) ==
    /\ Ack(w)
    /\ Becomes(w, Idle)
    /\ UNCHANGED <<loaded, columns, audit, paid>>

\* A pool child dies with its run; the other faults touch no run.
RunFaults(w) ==
    \/ /\ CrashLost(w)
       /\ Becomes(w, Idle)
       /\ UNCHANGED <<loaded, columns, audit, paid>>
    \/ /\ Redeliver(w) \/ (run[w].step # "record" /\ WorkerDbError(w))
       /\ UNCHANGED runVars

\* The worker that replaces a dead one loads its services anew.
Restarts(w) ==
    /\ CrashRedelivered(w)
    /\ Becomes(w, Idle)
    /\ \E services \in SUBSET {"ml", "llm"} : loaded' = [loaded EXCEPT ![w] = services]
    /\ UNCHANGED <<columns, audit, paid>>

RunWork(w) == Starts(w) \/ Pipeline(w) \/ Record(w) \/ Handles(w) \/ Ends(w)

\* Deleting a message takes its analysis and its audit rows along.
UserAct(m) ==
    /\ User(m)
    /\ columns' = IF status'[m] = "deleted" THEN [columns EXCEPT ![m] = NoRow]
                                            ELSE columns
    /\ audit' = IF status'[m] = "deleted" THEN [audit EXCEPT ![m] = <<>>]
                                          ELSE audit
    /\ UNCHANGED <<run, loaded, paid>>

\* The web request, the reaper, time and the broker as in Analysis.
Others ==
    /\ \/ \E m \in Messages : Web(m) \/ Age(m) \/ RouteCrash(m) \/ RouteDbError(m)
       \/ Sweep \/ SweepCrash
       \/ \E t \in Tasks : BrokerLoses(t)
    /\ UNCHANGED runVars

RunInit ==
    /\ Init
    /\ run = [w \in Workers |-> Idle]
    /\ loaded \in [Workers -> SUBSET {"ml", "llm"}]
    /\ columns = [m \in Messages |-> NoRow]
    /\ audit = [m \in Messages |-> <<>>]
    /\ paid = [m \in Messages |-> 0]

RunNext == \/ \E m \in Messages : UserAct(m)
           \/ \E w \in Workers : RunWork(w) \/ RunFaults(w) \/ Restarts(w)
           \/ Others

RunSpec == RunInit /\ [][RunNext]_allVars

-----------------------------------------------------------------------------
(* Properties                                                              *)

AuditRows == [status : {"completed", "failed"}, tools : SUBSET Tools,
              reason : {"analysis", "nothing", "credentials"}]
Columns == [category : Categories \cup {Unknown},
            details : {"none", "bare", "items"},
            filled : SUBSET Enrichments, tasks : BOOLEAN]

PipelineSteps == {"normalize", "predict", "extract", "gate", "enrich", "save"}

\* A worker is at a step of the pipeline exactly while Analysis has it running,
\* and it has an audit row to write only between the failure and its refund.
Placed(w) ==
    /\ pc[w] = "run" <=> run[w].step \in PipelineSteps
    /\ run[w].step = "record" => pc[w] \in {"markRead", "markWrite", "refund"}

\* Every variable keeps to its type, and both modules agree on where each
\* worker is.
RunTypeOK ==
    /\ run \in [Workers -> Runs]
    /\ loaded \in [Workers -> SUBSET {"ml", "llm"}]
    /\ columns \in [Messages -> Columns \cup {NoRow}]
    /\ audit \in [Messages -> Seq(AuditRows)]
    /\ paid \in [Messages -> Nat]
    /\ \A w \in Workers : Placed(w)

CompletedRows(m) == {i \in DOMAIN audit[m] : audit[m][i].status = "completed"}

\* Row i of the audit log accounts for every column of the result.
AccountsFor(m, i) ==
    LET c == columns[m]
        tools == audit[m][i].tools
    IN /\ c.category # Unknown => "ml_service" \in tools
       /\ c.details # "none" \/ c.filled # {} => "llm_service" \in tools
       /\ c.filled \subseteq Wanted(c.category)
       /\ c.tasks <=> "task_generator" \in tools
       /\ "llm_service" \in tools => paid[m] > 0

Honest(m) ==
    /\ result[m] <=> columns[m] # NoRow
    /\ ~result[m] => CompletedRows(m) = {}
    /\ result[m] => \E i \in DOMAIN audit[m] :
                       CompletedRows(m) = {i} /\ AccountsFor(m, i)

\* "tools_used reflects what actually ran - honest audit log"
\* (_save_pipeline_results): a message with a result has exactly one COMPLETED
\* audit row, whichever runs raced or were redelivered; every column comes
\* from a tool that row names and from a call the category's policy allows;
\* the task generator is named exactly if tasks were saved; and the LLM only
\* if it answered.  A message without a result has no such row.
HonestAudit == \A m \in Messages : Honest(m)

\* "A CREDENTIAL failure (401/403) of ANY call ... FAILED + refund.  Not
\* degraded" (run_message_analysis): a run that saw one never saves and is
\* never the capped nothing-to-show case, and when its task ends the slot is
\* back, unless a database error kept the refund from it.
RejectionFails ==
    \A w \in Workers : run[w].rejected =>
        /\ pc[w] \notin {"run", "goodwill"}
        /\ pc[w] = "ack" => LET m == MsgOf(w) IN
              refunded[m] \/ status[m] = "deleted" \/ m \in cut

\* However many attempts a message takes, the provider is paid for one
\* analysis, plus one for each fault that made a worker run it again: no
\* attempt is repeated after a call was answered (the "6 paid LLM calls" of
\* new_message's rate limit; "Only the critical extraction call triggers a
\* pipeline retry", ADR 0011).
PaidOnce == \A m \in Messages : paid[m] <= CallLimit * (1 + faults)

\* The pipeline keeps the contract the task relies on: each of its steps is
\* invisible to the rows of Analysis or is one of the ends Analysis knows.
KeepsContract == Spec

\* "Soft limit -> Mark the database row FAILED" (analyze_message).
SoftLimitFails == \A w \in Workers :
    run[w].rung /\ pc[w] = "ack" => status[MsgOf(w)] # "completed"

\* "Neither ML nor LLM produced output -> nothing to show -> FAILED"
\* (_mark_failed_nothing_to_show): a run that used its tools and completed has
\* something to show.
NothingHollow ==
    \A m \in Messages : result[m] =>
        \/ \E i \in CompletedRows(m) : audit[m][i].tools = {}
        \/ columns[m].category # Unknown
        \/ columns[m].details # "none"
        \/ columns[m].filled # {}

\* "so other failure reasons cannot trigger that message"
\* (had_llm_config_failure): a run that fails for another reason is not of a
\* message that carries the marker of an earlier one.
BannerTrue ==
    [][\A w \in Workers :
          pc[w] = "run" /\ pc'[w] = "markRead" /\ ~run'[w].rejected =>
              \A i \in DOMAIN audit[MsgOf(w)] :
                  audit[MsgOf(w)][i].reason # "credentials"]_allVars
=============================================================================

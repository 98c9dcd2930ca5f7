-------------------------- MODULE AnalysisRunProofs --------------------------
(***************************************************************************)
(* The inside of an analysis, proved: whatever the services answer and     *)
(* whenever the soft limit rings, a run keeps the contract Analysis states *)
(* for it, so that every theorem about Analysis holds of the whole; what   *)
(* the audit log says of a result is true; a run whose credentials were    *)
(* rejected fails and gives its slot back; and the provider is paid for    *)
(* one analysis of a message and for one more per fault.                   *)
(***************************************************************************)
EXTENDS AnalysisRun, AnalysisOutcomeProofs

-----------------------------------------------------------------------------
(* The contract with Analysis                                              *)

\* The user's requests are those of Analysis.
LEMMA UserActStep == ASSUME NEW m \in Messages, UserAct(m) PROVE [Next]_vars
  BY DEF UserAct, Next

\* A step inside the pipeline changes no row; one that leaves it is an end
\* that Analysis knows.
LEMMA PipelineStep ==
    ASSUME NEW w \in Workers, Pipeline(w)
    PROVE  UNCHANGED vars \/ NothingToShow(w) \/ Retry(w) \/ Fail(w) \/ Save(w)
<1>1. CASE Normalize(w) \/ Predict(w) \/ Extracted(w) \/ Unextracted(w)
           \/ GatePasses(w) \/ Enrich(w)
  BY <1>1 DEF Normalize, Predict, Extracted, Unextracted, GatePasses, Enrich, Inside
<1>2. CASE ExtractTransient(w) \/ ExtractCut(w) \/ ExtractRejected(w)
  BY <1>2 DEF ExtractTransient, ExtractCut, ExtractRejected
<1>3. CASE GateCloses(w) \/ GateFails(w) \/ EnrichRejected(w) \/ SaveFails(w)
  BY <1>3 DEF GateCloses, GateFails, EnrichRejected, SaveFails
<1>4. CASE SaveRun(w)
  BY <1>4 DEF SaveRun
<1> QED BY <1>1, <1>2, <1>3, <1>4 DEF Pipeline

LEMMA RunWorkStep == ASSUME NEW w \in Workers, RunWork(w) PROVE [Next]_vars
<1>1. CASE Starts(w) \/ Handles(w) \/ Ends(w)
  BY <1>1 DEF Starts, Handles, Ends, Work, Next
<1>2. CASE Pipeline(w)
  BY <1>2, PipelineStep DEF Work, Next
<1>3. CASE Record(w)
  BY <1>3 DEF Record
<1> QED BY <1>1, <1>2, <1>3 DEF RunWork

LEMMA OtherStep ==
    ASSUME Others \/ \E w \in Workers : RunFaults(w) \/ Restarts(w)
    PROVE  [Next]_vars
  BY DEF Others, RunFaults, Restarts, Next, Faulty

LEMMA RunNextStep == ASSUME [RunNext]_allVars PROVE [Next]_vars
<1>1. CASE RunNext
  BY <1>1, UserActStep, RunWorkStep, OtherStep DEF RunNext
<1>2. CASE UNCHANGED allVars
  BY <1>2 DEF allVars
<1> QED BY <1>1, <1>2

\* The pipeline with its services, calls and audit rows implements the
\* analysis Analysis speaks of: no step of it touches a row in a way that
\* Analysis does not foresee.
THEOREM PipelineKeepsContract == RunSpec => KeepsContract
<1>1. RunInit => Init
  BY DEF RunInit
<1> QED BY <1>1, RunNextStep, PTL DEF RunSpec, Spec, KeepsContract

\* So the quota is conserved next to the pipeline as well.
THEOREM RunConserves == RunSpec => []QuotaConserved
  BY PipelineKeepsContract, Conservation, PTL DEF KeepsContract

-----------------------------------------------------------------------------
(* Type correctness                                                        *)

\* All that a step of one worker may touch in RunTypeOK.
LEMMA WorkerStepType ==
    ASSUME TypeOK, RunTypeOK, NEW w \in Workers, NEW r \in Runs, Becomes(w, r),
           NEW p, pc' = [pc EXCEPT ![w] = p] \/ (UNCHANGED pc /\ p = pc[w]),
           p = "run" <=> r.step \in PipelineSteps,
           r.step = "record" => p \in {"markRead", "markWrite", "refund"},
           loaded' \in [Workers -> SUBSET {"ml", "llm"}],
           columns' \in [Messages -> Columns \cup {NoRow}],
           audit' \in [Messages -> Seq(AuditRows)],
           paid' \in [Messages -> Nat]
    PROVE  RunTypeOK'
<1>1. run' \in [Workers -> Runs]
  BY DEF RunTypeOK, Becomes
<1>2. ASSUME NEW v \in Workers PROVE Placed(v)'
  <2>1. CASE v = w
    BY <2>1 DEF Placed, RunTypeOK, TypeOK, Becomes
  <2>2. CASE v # w
    BY <2>2 DEF Placed, RunTypeOK, TypeOK, Becomes
  <2> QED BY <2>1, <2>2
<1> QED BY <1>1, <1>2 DEF RunTypeOK

LEMMA IdleType == Idle \in Runs /\ Idle.step = "none"
  BY DEF Idle, Runs

\* A run that left the pipeline is idle again, or has an audit row to write.
LEMMA LeavesType ==
    ASSUME RunTypeOK, NEW w \in Workers, NEW s \in {"none", "record"},
           NEW b \in BOOLEAN, NEW late \in BOOLEAN, Leaves(w, s, b, late)
    PROVE  \E r \in Runs : Becomes(w, r) /\ r.step = s
<1> DEFINE r == [Idle EXCEPT !.step = s, !.rejected = b,
                             !.rung = run[w].rung \/ late]
<1>1. run[w].rung \in BOOLEAN
  BY DEF RunTypeOK, Runs
<1>2. r \in Runs /\ r.step = s
  BY <1>1 DEF Idle, Runs
<1> QED BY <1>2 DEF Leaves

LEMMA LateType == ASSUME NEW w \in Workers PROVE Late(w) \subseteq BOOLEAN
  BY DEF Late

LEMMA AppendType ==
    ASSUME RunTypeOK, NEW m \in Messages, NEW row \in AuditRows, Append1(m, row)
    PROVE  audit' \in [Messages -> Seq(AuditRows)]
<1>1. audit[m] \in Seq(AuditRows)
  BY DEF RunTypeOK
<1>2. Append(audit[m], row) \in Seq(AuditRows)
  BY <1>1
<1> QED BY <1>2 DEF RunTypeOK, Append1

LEMMA PayType ==
    ASSUME RunTypeOK, NEW w \in Workers, MsgOf(w) \in Messages, Pay(w)
    PROVE  paid' \in [Messages -> Nat]
  BY DEF RunTypeOK, Pay

\* What a run knows comes from a service that ran, and what it was given or is
\* still to be given is its category's.
Sound(r) ==
    /\ r.category # Unknown => r.ml
    /\ r.details # "none" \/ r.filled # {} \/ r.todo # {} => r.llm
    /\ r.filled \subseteq Wanted(r.category)
    /\ r.todo \subseteq Wanted(r.category)
    /\ r.step \in {"normalize", "predict"} => ~r.llm

\* What becomes of the run of worker w inside the pipeline.
Continues(w, r) ==
    /\ r \in Runs
    /\ r.step \in PipelineSteps
    /\ r.rejected = run[w].rejected
    /\ r.category \in {run[w].category} \cup Predicted \cup {Unknown}
    /\ Sound(run[w]) => Sound(r)

LEMMA NormalizeRun ==
    ASSUME NEW w \in Workers, run[w] \in Runs, Normalize(w)
    PROVE  \E r : Becomes(w, r) /\ Continues(w, r) /\ r.llm = run[w].llm
<1>1. PICK safe \in BOOLEAN, late \in BOOLEAN :
          Becomes(w, [run[w] EXCEPT !.step = IF safe THEN "predict" ELSE "save",
                                    !.rung = @ \/ late])
  BY LateType DEF Normalize
<1> DEFINE r == [run[w] EXCEPT !.step = IF safe THEN "predict" ELSE "save",
                               !.rung = @ \/ late]
<1>2. r \in Runs /\ r.step \in PipelineSteps /\ r.rejected = run[w].rejected
  BY DEF Runs, PipelineSteps
<1>3. run[w].step = "normalize"
  BY DEF Normalize, At
<1>4. /\ r.llm = run[w].llm /\ r.ml = run[w].ml /\ r.category = run[w].category
      /\ r.details = run[w].details /\ r.filled = run[w].filled
      /\ r.todo = run[w].todo
  BY DEF Runs
<1> HIDE DEF r
<1>5. Sound(run[w]) => Sound(r)
  BY <1>3, <1>4 DEF Sound
<1> QED BY <1>1, <1>2, <1>4, <1>5 DEF Continues, r

LEMMA PredictRun ==
    ASSUME NEW w \in Workers, run[w] \in Runs, Predict(w)
    PROVE  \E r : Becomes(w, r) /\ Continues(w, r) /\ r.llm = run[w].llm
<1>1. run[w].step = "predict"
  BY DEF Predict, At
<1>2. CASE Becomes(w, [run[w] EXCEPT !.step = "extract"])
  <2> DEFINE r == [run[w] EXCEPT !.step = "extract"]
  <2>1. r \in Runs /\ r.step \in PipelineSteps /\ r.rejected = run[w].rejected
    BY DEF Runs, PipelineSteps
  <2>2. /\ r.llm = run[w].llm /\ r.ml = run[w].ml /\ r.category = run[w].category
        /\ r.details = run[w].details /\ r.filled = run[w].filled
        /\ r.todo = run[w].todo /\ r.step = "extract"
    BY DEF Runs
  <2> HIDE DEF r
  <2>3. Sound(run[w]) => Sound(r)
    BY <1>1, <2>2 DEF Sound
  <2> QED BY <1>2, <2>1, <2>2, <2>3 DEF Continues, r
<1>3. ASSUME NEW c \in Predicted \cup {Unknown}, NEW late \in BOOLEAN,
             Becomes(w, [run[w] EXCEPT !.step = "extract", !.ml = TRUE,
                                       !.category = c, !.rung = @ \/ late])
      PROVE  \E r : Becomes(w, r) /\ Continues(w, r) /\ r.llm = run[w].llm
  <2> DEFINE r == [run[w] EXCEPT !.step = "extract", !.ml = TRUE,
                                 !.category = c, !.rung = @ \/ late]
  <2>1. c \in Categories \cup {Unknown}
    BY RunConstantsOK
  <2>2. r \in Runs /\ r.step \in PipelineSteps /\ r.rejected = run[w].rejected
    BY <2>1 DEF Runs, PipelineSteps
  <2>3. /\ r.llm = run[w].llm /\ r.ml /\ r.step = "extract" /\ r.category = c
        /\ r.details = run[w].details /\ r.filled = run[w].filled
        /\ r.todo = run[w].todo
    BY DEF Runs
  <2> HIDE DEF r
  <2>4. Sound(run[w]) => Sound(r)
    BY <1>1, <2>3 DEF Sound
  <2> QED BY <1>3, <2>2, <2>3, <2>4 DEF Continues, r
<1> QED BY <1>2, <1>3, LateType DEF Predict

LEMMA ExtractedRun ==
    ASSUME NEW w \in Workers, run[w] \in Runs, Extracted(w)
    PROVE  \E r : Becomes(w, r) /\ Continues(w, r)
<1>1. PICK d \in {"none", "bare", "items"} :
          Becomes(w, [run[w] EXCEPT !.step = "gate", !.llm = TRUE, !.details = d])
  BY DEF Extracted
<1> DEFINE r == [run[w] EXCEPT !.step = "gate", !.llm = TRUE, !.details = d]
<1>2. r \in Runs /\ r.step \in PipelineSteps /\ r.rejected = run[w].rejected
  BY DEF Runs, PipelineSteps
<1>3. /\ r.llm /\ r.ml = run[w].ml /\ r.category = run[w].category
      /\ r.filled = run[w].filled /\ r.todo = run[w].todo /\ r.step = "gate"
  BY DEF Runs
<1> HIDE DEF r
<1>4. Sound(run[w]) => Sound(r)
  BY <1>3 DEF Sound
<1> QED BY <1>1, <1>2, <1>3, <1>4 DEF Continues, r

LEMMA GateRun ==
    ASSUME NEW w \in Workers, run[w] \in Runs, Unextracted(w) \/ GatePasses(w)
    PROVE  \E r : Becomes(w, r) /\ Continues(w, r) /\ r.llm = run[w].llm
<1>1. PICK s \in {"gate", "enrich", "save"}, todo \in {run[w].todo, Wanted(run[w].category)} :
          /\ Becomes(w, [run[w] EXCEPT !.step = s, !.todo = todo])
          /\ todo # run[w].todo => run[w].llm
  <2>1. CASE \/ Becomes(w, [run[w] EXCEPT !.step = "gate"])
             \/ Becomes(w, [run[w] EXCEPT !.step = "save"])
    <3>1. /\ [run[w] EXCEPT !.step = "gate"]
                 = [run[w] EXCEPT !.step = "gate", !.todo = run[w].todo]
          /\ [run[w] EXCEPT !.step = "save"]
                 = [run[w] EXCEPT !.step = "save", !.todo = run[w].todo]
      BY DEF Runs
    <3> QED BY <2>1, <3>1
  <2>2. CASE /\ run[w].llm
             /\ Becomes(w, [run[w] EXCEPT !.step = "enrich",
                                          !.todo = Wanted(run[w].category)])
    BY <2>2
  <2> QED BY <2>1, <2>2 DEF Unextracted, GatePasses
<1> DEFINE r == [run[w] EXCEPT !.step = s, !.todo = todo]
<1>2. Wanted(run[w].category) \subseteq Enrichments
  BY DEF Wanted, Enrichments
<1>3. r \in Runs /\ r.step \in PipelineSteps /\ r.rejected = run[w].rejected
  BY <1>2 DEF Runs, PipelineSteps
<1>4. /\ r.llm = run[w].llm /\ r.ml = run[w].ml /\ r.category = run[w].category
      /\ r.details = run[w].details /\ r.filled = run[w].filled
      /\ r.todo = todo /\ r.step = s
  BY DEF Runs
<1> HIDE DEF r
<1>5. Sound(run[w]) => Sound(r)
  BY <1>1, <1>4 DEF Sound
<1> QED BY <1>1, <1>3, <1>4, <1>5 DEF Continues, r

LEMMA EnrichRun ==
    ASSUME NEW w \in Workers, run[w] \in Runs, Enrich(w)
    PROVE  \E r : Becomes(w, r) /\ Continues(w, r) /\ r.llm = run[w].llm
<1> DEFINE R(e, o, late) == [run[w] EXCEPT
               !.step = IF run[w].todo \ {e} = {} THEN "save" ELSE "enrich",
               !.todo = run[w].todo \ {e},
               !.filled = IF o = "text" THEN @ \cup {e} ELSE @,
               !.rung = @ \/ late]
<1>1. PICK e \in run[w].todo, o \in {"text", "empty", "error"}, late \in BOOLEAN :
          Becomes(w, R(e, o, late))
  BY LateType DEF Enrich
<1> DEFINE r == R(e, o, late)
<1>2. r \in Runs /\ r.step \in PipelineSteps /\ r.rejected = run[w].rejected
  BY DEF Runs, PipelineSteps
<1>3. /\ r.llm = run[w].llm /\ r.ml = run[w].ml /\ r.category = run[w].category
      /\ r.details = run[w].details /\ r.todo = run[w].todo \ {e}
      /\ r.filled \subseteq run[w].filled \cup {e}
      /\ r.step \in {"save", "enrich"}
  BY DEF Runs
<1> HIDE DEF r
<1>4. Sound(run[w]) => Sound(r)
  BY <1>3 DEF Sound
<1> QED BY <1>1, <1>2, <1>3, <1>4 DEF Continues, r

\* Steps inside the pipeline.
InsideStep(w) == \/ Normalize(w) \/ Predict(w) \/ Extracted(w) \/ Unextracted(w)
                 \/ GatePasses(w) \/ Enrich(w)

LEMMA InsideRuns ==
    ASSUME RunTypeOK, NEW w \in Workers, InsideStep(w)
    PROVE  \E r : /\ Becomes(w, r) /\ Continues(w, r)
                  /\ r.llm => run[w].llm \/ Pay(w)
<1>1. run[w] \in Runs
  BY DEF RunTypeOK
<1>2. CASE Extracted(w)
  BY <1>1, <1>2, ExtractedRun DEF Extracted
<1>3. CASE ~Extracted(w)
  BY <1>1, <1>3, NormalizeRun, PredictRun, GateRun, EnrichRun DEF InsideStep
<1> QED BY <1>2, <1>3

LEMMA InsideTypes ==
    ASSUME TypeOK, RunTypeOK, NEW w \in Workers, InsideStep(w)
    PROVE  RunTypeOK'
<1>1. pc[w] = "run"
  BY DEF InsideStep, Normalize, Predict, Extracted, Unextracted, GatePasses,
     Enrich, At
<1>2. MsgOf(w) \in Messages
  BY <1>1, HeldType
<1>3. /\ UNCHANGED <<pc, loaded, columns, audit>>
      /\ paid' \in [Messages -> Nat]
  BY <1>2, PayType DEF InsideStep, Normalize, Predict, Extracted, Unextracted,
     GatePasses, Enrich, Inside, vars, fleet, RunTypeOK
<1>4. PICK r : Becomes(w, r) /\ Continues(w, r)
  BY InsideRuns
<1> QED BY <1>1, <1>3, <1>4, WorkerStepType DEF Continues, RunTypeOK, PipelineSteps

\* Steps that end the pipeline.
LEMMA EndTypes ==
    ASSUME TypeOK, RunTypeOK, NEW w \in Workers,
           \/ ExtractTransient(w) \/ ExtractCut(w) \/ ExtractRejected(w)
           \/ GateCloses(w) \/ GateFails(w) \/ EnrichRejected(w)
           \/ SaveRun(w) \/ SaveFails(w)
    PROVE  RunTypeOK'
<1>1. run[w] \in Runs /\ Late(w) \subseteq BOOLEAN /\ pc[w] = "run"
  BY LateType DEF RunTypeOK, ExtractTransient, ExtractCut, ExtractRejected,
     GateCloses, GateFails, EnrichRejected, SaveRun, SaveFails, At
<1>2. MsgOf(w) \in Messages
  BY <1>1, HeldType
<1>3. CASE SaveRun(w)
  <2>1. Save(w) /\ Becomes(w, [Idle EXCEPT !.rung = run[w].rung])
    BY <1>3 DEF SaveRun
  <2>2. /\ [Idle EXCEPT !.rung = run[w].rung] \in Runs
        /\ [Idle EXCEPT !.rung = run[w].rung].step = "none"
    BY <1>1 DEF Idle, Runs
  <2>3. TasksMade(run[w]) \in BOOLEAN /\ ToolsUsed(run[w]) \subseteq Tools
    BY DEF TasksMade, ToolsUsed, Tools
  <2>4. columns' \in [Messages -> Columns \cup {NoRow}]
    <3>1. Analyzed(run[w]) \in Columns
      BY <1>1, <2>3 DEF Analyzed, Columns, Runs
    <3>2. columns' = [columns EXCEPT ![MsgOf(w)] = Analyzed(run[w])]
      BY <1>3 DEF SaveRun
    <3> QED BY <3>1, <3>2 DEF RunTypeOK
  <2>5. audit' \in [Messages -> Seq(AuditRows)]
    <3>1. AuditRow("completed", ToolsUsed(run[w]), "analysis") \in AuditRows
      BY <2>3 DEF AuditRow, AuditRows
    <3>2. Append1(MsgOf(w), AuditRow("completed", ToolsUsed(run[w]), "analysis"))
      BY <1>3 DEF SaveRun
    <3> QED BY <1>2, <3>1, <3>2, AppendType
  <2>6. pc' = [pc EXCEPT ![w] = "ack"] /\ UNCHANGED <<loaded, paid>>
    BY <1>3 DEF SaveRun, Save, Goto
  <2> QED BY <2>1, <2>2, <2>4, <2>5, <2>6, WorkerStepType DEF RunTypeOK, PipelineSteps
<1>4. CASE ~SaveRun(w)
  <2>1. PICK s \in {"none", "record"}, b \in BOOLEAN, late \in BOOLEAN :
            /\ Leaves(w, s, b, late)
            /\ s = "record" => Fail(w)
    BY <1>1, <1>4 DEF ExtractTransient, ExtractCut, ExtractRejected, GateCloses,
       GateFails, EnrichRejected, SaveFails
  <2>2. PICK r \in Runs : Becomes(w, r) /\ r.step = s
    BY <2>1, LeavesType
  <2>3. PICK p \in {"goodwill", "ack", "markRead"} :
            /\ pc' = [pc EXCEPT ![w] = p]
            /\ s = "record" => p = "markRead"
    BY <1>4, <2>1 DEF ExtractTransient, ExtractCut, ExtractRejected, GateCloses,
       GateFails, EnrichRejected, SaveFails, NothingToShow, Retry, Fail, Goto
  <2>4. audit' \in [Messages -> Seq(AuditRows)]
    <3>1. CASE GateCloses(w)
      <4>1. AuditRow("failed", {}, "nothing") \in AuditRows
        BY DEF AuditRow, AuditRows
      <4> QED BY <1>2, <3>1, <4>1, AppendType DEF GateCloses
    <3>2. CASE ~GateCloses(w)
      BY <1>4, <3>2 DEF ExtractTransient, ExtractCut, ExtractRejected,
         GateFails, EnrichRejected, SaveFails, RunTypeOK
    <3> QED BY <3>1, <3>2
  <2>5. UNCHANGED <<loaded, columns, paid>>
    BY <1>4 DEF ExtractTransient, ExtractCut, ExtractRejected, GateCloses,
       GateFails, EnrichRejected, SaveFails, Leaves
  <2> QED BY <2>2, <2>3, <2>4, <2>5, WorkerStepType DEF RunTypeOK, PipelineSteps
<1> QED BY <1>3, <1>4

\* The task around the pipeline.
LEMMA TaskTypes ==
    ASSUME TypeOK, RunTypeOK, NEW w \in Workers,
           \/ Starts(w) \/ Record(w) \/ Handles(w) \/ Ends(w)
           \/ RunFaults(w) \/ Restarts(w)
    PROVE  RunTypeOK'
<1>1. run[w] \in Runs /\ Placed(w)
  BY DEF RunTypeOK
<1>2. CASE Starts(w)
  <2>1. PICK p \in {"ack", "run", "flip"} : pc' = [pc EXCEPT ![w] = p]
    BY <1>2 DEF Starts, Guard, Flip, Goto
  <2>2. pc'[w] = p
    BY <2>1 DEF TypeOK
  <2> DEFINE r == IF p = "run" THEN Starting ELSE Idle
  <2>3. r \in Runs /\ r.step = IF p = "run" THEN "normalize" ELSE "none"
    BY DEF Starting, Idle, Runs
  <2>4. Becomes(w, r) /\ UNCHANGED <<loaded, columns, audit, paid>>
    BY <1>2, <2>2 DEF Starts
  <2> HIDE DEF r
  <2> QED BY <2>1, <2>3, <2>4, WorkerStepType DEF RunTypeOK, PipelineSteps
<1>3. CASE Record(w)
  <2>1. pc[w] = "refund" /\ UNCHANGED <<pc, loaded, columns, paid>>
    BY <1>3 DEF Record, vars, fleet
  <2>2. MsgOf(w) \in Messages
    BY <2>1, HeldType
  <2>3. audit' \in [Messages -> Seq(AuditRows)]
    <3>1. AuditRow("failed", {}, "credentials") \in AuditRows
      BY DEF AuditRow, AuditRows
    <3> QED BY <1>3, <2>2, <3>1, AppendType DEF Record, RunTypeOK
  <2> DEFINE r == [run[w] EXCEPT !.step = "none"]
  <2>4. r \in Runs /\ r.step = "none" /\ Becomes(w, r)
    BY <1>1, <1>3 DEF Runs, Record
  <2> HIDE DEF r
  <2> QED BY <2>1, <2>3, <2>4, WorkerStepType DEF RunTypeOK, PipelineSteps
<1>4. CASE Handles(w) \/ (/\ Redeliver(w) \/ (run[w].step # "record" /\ WorkerDbError(w))
                         /\ UNCHANGED runVars)
  <2>1. UNCHANGED runVars
    BY <1>4 DEF Handles
  <2>2. PICK p : /\ pc' = [pc EXCEPT ![w] = p] \/ (UNCHANGED pc /\ p = pc[w])
                 /\ p = "run" <=> pc[w] = "run"
                 /\ run[w].step = "record" => p \in {"markRead", "markWrite", "refund"}
    BY <1>1, <1>4 DEF Handles, Deliver, WorkerMarkRead, WorkerMarkWrite,
       WorkerRefund, WorkerGoodwill, Redeliver, WorkerDbError, Goto, Placed
  <2>3. Becomes(w, run[w])
    BY <2>1 DEF runVars, Becomes, RunTypeOK
  <2>4. p = "run" <=> run[w].step \in PipelineSteps
    BY <1>1, <2>2 DEF Placed
  <2> QED BY <1>1, <2>1, <2>2, <2>3, <2>4, WorkerStepType DEF RunTypeOK, runVars
<1>5. CASE Ends(w) \/ Restarts(w) \/ (/\ CrashLost(w) /\ Becomes(w, Idle)
                                     /\ UNCHANGED <<loaded, columns, audit, paid>>)
  <2>1. pc' = [pc EXCEPT ![w] = "idle"]
    BY <1>5 DEF Ends, Restarts, Ack, CrashLost, CrashRedelivered, Release, Goto
  <2>2. Becomes(w, Idle) /\ UNCHANGED <<columns, audit, paid>>
    BY <1>5 DEF Ends, Restarts
  <2>3. loaded' \in [Workers -> SUBSET {"ml", "llm"}]
    BY <1>5 DEF Ends, Restarts, RunTypeOK
  <2> QED BY <2>1, <2>2, <2>3, IdleType, WorkerStepType DEF RunTypeOK, PipelineSteps
<1> QED BY <1>2, <1>3, <1>4, <1>5 DEF RunFaults

\* Everybody else.
LEMMA OtherTypes ==
    ASSUME TypeOK, RunTypeOK,
           Others \/ (\E m \in Messages : UserAct(m)) \/ UNCHANGED allVars
    PROVE  RunTypeOK'
<1>1. UNCHANGED <<pc, run, loaded, paid>>
  BY DEF Others, UserAct, allVars, vars, runVars, fleet, web, User, Submit,
     ArchiveRead, UnarchiveRead, EditCommit, EditNote, Delete, Web, Enqueue,
     EnqueueFails, EnqueueUnsure, RouteMarkRead, RouteMarkWrite, RouteRefund,
     Age, RouteCrash, RouteDbError, Sweep, SweepSelect, SweepUpdate,
     SweepRefund, SweepCrash, BrokerLoses
<1>2. /\ columns' \in [Messages -> Columns \cup {NoRow}]
      /\ audit' \in [Messages -> Seq(AuditRows)]
  <2>1. << >> \in Seq(AuditRows)
    OBVIOUS
  <2> QED BY <2>1 DEF Others, UserAct, allVars, runVars, RunTypeOK
<1>3. \A w \in Workers : Placed(w)'
  BY <1>1 DEF Placed, RunTypeOK
<1> QED BY <1>1, <1>2, <1>3 DEF RunTypeOK

LEMMA RunInitTypes == RunInit => RunTypeOK
<1>1. << >> \in Seq(AuditRows)
  OBVIOUS
<1> QED BY <1>1, IdleType DEF RunInit, Init, RunTypeOK, Placed, PipelineSteps

LEMMA RunNextTypes == TypeOK /\ RunTypeOK /\ [RunNext]_allVars => RunTypeOK'
<1> SUFFICES ASSUME TypeOK, RunTypeOK, [RunNext]_allVars PROVE RunTypeOK'
  OBVIOUS
<1>1. ASSUME NEW w \in Workers, RunWork(w) \/ RunFaults(w) \/ Restarts(w)
      PROVE  RunTypeOK'
  BY <1>1, InsideTypes, EndTypes, TaskTypes DEF RunWork, Pipeline, InsideStep
<1> QED BY <1>1, OtherTypes DEF RunNext

\* Every state is well typed, and a worker is inside the pipeline exactly while
\* its task is: no end of a run is forgotten by either module.
THEOREM RunTypeCorrect == RunSpec => []RunTypeOK
<1>1. RunSpec => []TypeOK
  BY PipelineKeepsContract, TypeCorrect, PTL DEF KeepsContract
<1> QED BY <1>1, RunInitTypes, RunNextTypes, PTL DEF RunSpec

-----------------------------------------------------------------------------
(* A rejected run gives its slot back                                      *)

\* A run that saw a rejection is being failed, or its slot is settled.
Compensates(w) ==
    run[w].rejected =>
        /\ pc[w] \in {"markRead", "markWrite", "refund", "ack"}
        /\ pc[w] = "ack" => \/ refunded[MsgOf(w)] \/ status[MsgOf(w)] = "deleted"
                            \/ MsgOf(w) \in cut

\* A worker that a step does not move keeps compensating.
LEMMA CompensatesFrame ==
    ASSUME TypeOK, Lasting, NEW v \in Workers, Compensates(v),
           pc'[v] = pc[v], job'[v] = job[v], run'[v] = run[v]
    PROVE  Compensates(v)'
<1>1. ASSUME pc[v] # "idle" PROVE MsgOf(v) \in Messages /\ MsgOf(v)' = MsgOf(v)
  BY <1>1, HeldType DEF MsgOf
<1> QED BY <1>1 DEF Compensates, Lasting

\* A step of one worker leaves the others where they are.
LEMMA OtherWorkers ==
    ASSUME TypeOK, RunTypeOK, NEW w \in Workers, NEW v \in Workers, v # w,
           RunWork(w) \/ RunFaults(w) \/ Restarts(w)
    PROVE  pc'[v] = pc[v] /\ job'[v] = job[v] /\ run'[v] = run[v]
<1>1. run'[v] = run[v]
  BY DEF RunTypeOK, RunWork, Starts, Pipeline, Record, Handles, Ends, RunFaults,
     Restarts, Normalize, Predict, Extracted, Unextracted, ExtractTransient,
     ExtractCut, ExtractRejected, GatePasses, GateCloses, GateFails, Enrich,
     EnrichRejected, SaveRun, SaveFails, Becomes, Leaves, runVars
<1>2. \/ UNCHANGED vars \/ Work(w) \/ CrashLost(w) \/ CrashRedelivered(w)
      \/ Redeliver(w) \/ WorkerDbError(w)
  BY PipelineStep DEF RunWork, Starts, Record, Handles, Ends, RunFaults, Restarts,
     Work
<1>3. pc'[v] = pc[v] /\ job'[v] = job[v]
  BY <1>2 DEF TypeOK, vars, fleet, Work, Deliver, Guard, Flip, Save, NothingToShow,
     Retry, Fail, WorkerMarkRead, WorkerMarkWrite, WorkerRefund, WorkerGoodwill,
     Ack, CrashLost, CrashRedelivered, Redeliver, WorkerDbError, Release, Goto
<1> QED BY <1>1, <1>3

\* The moving worker.
LEMMA MoverCompensates ==
    ASSUME QuotaInv, RunTypeOK, OnlySubmitted, Lasting, NEW w \in Workers,
           Compensates(w), RunWork(w) \/ RunFaults(w) \/ Restarts(w)
    PROVE  Compensates(w)'
<1>0. /\ TypeOK /\ run[w] \in Runs /\ Placed(w)
      /\ pc[w] # "idle" => MsgOf(w) \in Messages
  BY HeldType DEF QuotaInv, RunTypeOK
<1> USE DEF Compensates
<1>1. CASE InsideStep(w)
  <2>1. ~run[w].rejected
    BY <1>1 DEF InsideStep, Normalize, Predict, Extracted, Unextracted, GatePasses,
       Enrich, At
  <2>2. PICK r : Becomes(w, r) /\ Continues(w, r)
    BY <1>1, InsideRuns
  <2> QED BY <2>1, <2>2 DEF Becomes, Continues, RunTypeOK
<1>2. CASE ExtractRejected(w) \/ EnrichRejected(w) \/ GateFails(w) \/ ExtractCut(w)
           \/ SaveFails(w)
  <2>1. pc'[w] = "markRead"
    BY <1>0, <1>2 DEF ExtractRejected, EnrichRejected, GateFails, ExtractCut,
       SaveFails, Fail, Goto, TypeOK
  <2> QED BY <2>1
<1>3. CASE ExtractTransient(w) \/ GateCloses(w) \/ SaveRun(w) \/ Starts(w) \/ Ends(w)
           \/ Restarts(w) \/ (CrashLost(w) /\ Becomes(w, Idle))
  <2>1. PICK r : Becomes(w, r) /\ ~r.rejected
    <3>1. CASE SaveRun(w)
      <4>1. ~[Idle EXCEPT !.rung = run[w].rung].rejected
        BY DEF Idle
      <4> QED BY <3>1, <4>1 DEF SaveRun
    <3>2. CASE Starts(w)
      <4>1. ~Starting.rejected /\ ~Idle.rejected
        BY DEF Starting, Idle
      <4> QED BY <3>2, <4>1 DEF Starts
    <3>3. CASE ExtractTransient(w) \/ GateCloses(w)
      <4>1. PICK late \in BOOLEAN : Leaves(w, "none", FALSE, late)
        BY <3>3, LateType DEF ExtractTransient, GateCloses
      <4>2. ~[Idle EXCEPT !.step = "none", !.rejected = FALSE,
                          !.rung = run[w].rung \/ late].rejected
        BY DEF Idle
      <4> QED BY <4>1, <4>2 DEF Leaves
    <3>4. CASE Ends(w) \/ Restarts(w) \/ (CrashLost(w) /\ Becomes(w, Idle))
      BY <3>4 DEF Ends, Restarts, Idle
    <3> QED BY <1>3, <3>1, <3>2, <3>3, <3>4
  <2> QED BY <2>1 DEF Becomes, RunTypeOK
<1>4. CASE Record(w)
  <2>1. pc[w] = "refund" /\ UNCHANGED pc
    BY <1>4 DEF Record, vars, fleet
  <2> QED BY <2>1
<1>5. CASE Handles(w)
  <2>1. run'[w] = run[w] /\ (pc[w] # "idle" => MsgOf(w)' = MsgOf(w))
    BY <1>5 DEF Handles, runVars, MsgOf, Deliver, WorkerMarkRead, WorkerMarkWrite,
       WorkerRefund, WorkerGoodwill
  <2>2. CASE WorkerRefund(w)
    <3>1. refunded'[MsgOf(w)] \/ status'[MsgOf(w)] = "deleted"
      BY <1>0, <2>2, RefundSettles DEF WorkerRefund, OnlySubmitted
    <3>2. pc'[w] = "ack" /\ pc[w] # "idle"
      BY <1>0, <2>2 DEF WorkerRefund, Goto, TypeOK
    <3> QED BY <2>1, <3>1, <3>2
  <2>3. CASE WorkerMarkRead(w) \/ WorkerMarkWrite(w)
    <3>1. pc'[w] \in {"markWrite", "refund"}
      BY <1>0, <2>3 DEF WorkerMarkRead, WorkerMarkWrite, Goto, TypeOK
    <3> QED BY <3>1
  <2>4. CASE WorkerGoodwill(w) \/ \E t \in Tasks : Deliver(w, t)
    <3>1. pc[w] \in {"goodwill", "idle"}
      BY <2>4 DEF WorkerGoodwill, Deliver
    <3> QED BY <2>1, <3>1
  <2> QED BY <1>5, <2>2, <2>3, <2>4 DEF Handles
<1>6. CASE (Redeliver(w) \/ WorkerDbError(w)) /\ UNCHANGED runVars
  <2>1. run'[w] = run[w] /\ MsgOf(w)' = MsgOf(w)
    BY <1>6 DEF runVars, MsgOf, Redeliver, WorkerDbError
  <2>2. CASE Redeliver(w)
    <3>1. pc'[w] = pc[w] /\ pc[w] # "idle"
      BY <2>2 DEF Redeliver
    <3> QED BY <1>0, <2>1, <3>1 DEF Lasting
  <2>3. CASE WorkerDbError(w)
    <3>1. \/ pc'[w] = "refund"
          \/ pc'[w] = "ack" /\ MsgOf(w) \in cut'
      BY <1>0, <2>3 DEF WorkerDbError, Goto, CutOff, TypeOK
    <3> QED BY <2>1, <3>1
  <2> QED BY <1>6, <2>2, <2>3
<1> QED BY <1>1, <1>2, <1>3, <1>4, <1>5, <1>6
        DEF RunWork, Pipeline, RunFaults, InsideStep

\* Everybody else leaves the workers alone.
LEMMA OthersLeaveWorkers ==
    ASSUME Others \/ (\E m \in Messages : UserAct(m)) \/ UNCHANGED allVars
    PROVE  UNCHANGED <<pc, job, run>>
  BY DEF Others, UserAct, allVars, vars, runVars, fleet, web, User, Submit,
     ArchiveRead, UnarchiveRead, EditCommit, EditNote, Delete, Web, Enqueue,
     EnqueueFails, EnqueueUnsure, RouteMarkRead, RouteMarkWrite, RouteRefund,
     Age, RouteCrash, RouteDbError, Sweep, SweepSelect, SweepUpdate,
     SweepRefund, SweepCrash, BrokerLoses

RejectionInv == \A w \in Workers : Compensates(w)

LEMMA NextRejection ==
    QuotaInv /\ ResultInv /\ OnlySubmitted /\ RunTypeOK /\ RejectionInv
        /\ [RunNext]_allVars => RejectionInv'
<1> SUFFICES ASSUME QuotaInv, ResultInv, OnlySubmitted, RunTypeOK, RejectionInv,
                    [RunNext]_allVars
             PROVE  RejectionInv'
  OBVIOUS
<1>1. TypeOK /\ Lasting
  BY RunNextStep, LastingStep DEF QuotaInv
<1>2. ASSUME NEW w \in Workers, RunWork(w) \/ RunFaults(w) \/ Restarts(w),
             NEW v \in Workers
      PROVE  Compensates(v)'
  <2>1. CASE v = w
    BY <1>1, <1>2, <2>1, MoverCompensates DEF RejectionInv
  <2>2. CASE v # w
    BY <1>1, <1>2, <2>2, OtherWorkers, CompensatesFrame DEF RejectionInv
  <2> QED BY <2>1, <2>2
<1>3. ASSUME Others \/ (\E m \in Messages : UserAct(m)) \/ UNCHANGED allVars,
             NEW v \in Workers
      PROVE  Compensates(v)'
  BY <1>1, <1>3, OthersLeaveWorkers, CompensatesFrame DEF RejectionInv
<1> QED BY <1>2, <1>3 DEF RunNext, RejectionInv

\* A run that saw rejected credentials, in the extraction or in any enrichment,
\* fails and settles its slot, whoever deletes, reaps or redelivers meanwhile.
THEOREM RejectedRunFails == RunSpec => []RejectionFails
<1>1. RunInit => RejectionInv
  BY DEF RunInit, RejectionInv, Compensates, Idle
<1>2. RejectionInv => RejectionFails
  BY DEF RejectionInv, Compensates, RejectionFails
<1>3. Spec => []ResultInv
  BY TypeCorrect, InitResults, NextResults, PTL DEF Spec
<1>4. RunSpec => [](QuotaInv /\ ResultInv /\ OnlySubmitted)
  BY <1>3, PipelineKeepsContract, QuotaInvariant, SubmittedInvariant, PTL
     DEF KeepsContract
<1> QED BY <1>1, <1>2, <1>4, RunTypeCorrect, NextRejection, PTL DEF RunSpec

-----------------------------------------------------------------------------
(* The audit log is honest                                                 *)

\* A run knows only what it may, and what the LLM told it was paid for.
Grounded(w) == /\ Sound(run[w])
               /\ run[w].llm => pc[w] = "run" /\ paid[MsgOf(w)] > 0

\* A deleted message has no result.
Cleared == \A m \in Messages : status[m] = "deleted" => ~result[m]

AuditInv == /\ HonestAudit
            /\ Cleared
            /\ \A w \in Workers : Grounded(w)

\* What most steps do to the log of a message: nothing.
LEMMA HonestFrame ==
    ASSUME RunTypeOK, NEW m \in Messages, Honest(m),
           result'[m] = result[m], columns'[m] = columns[m], audit'[m] = audit[m],
           paid'[m] >= paid[m], paid'[m] \in Nat
    PROVE  Honest(m)'
<1>1. CompletedRows(m)' = CompletedRows(m)
  BY DEF CompletedRows
<1>2. ASSUME NEW i, AccountsFor(m, i) PROVE AccountsFor(m, i)'
  BY <1>2 DEF AccountsFor, RunTypeOK
<1> QED BY <1>1, <1>2 DEF Honest

\* A failed row does not touch what is said of the completed one.
LEMMA HonestFailedRow ==
    ASSUME RunTypeOK, NEW m \in Messages, Honest(m),
           NEW row \in AuditRows, row.status = "failed",
           audit'[m] = Append(audit[m], row),
           result'[m] = result[m], columns'[m] = columns[m], paid'[m] = paid[m]
    PROVE  Honest(m)'
<1>1. audit[m] \in Seq(AuditRows)
  BY DEF RunTypeOK
<1>2. /\ DOMAIN audit'[m] = DOMAIN audit[m] \cup {Len(audit[m]) + 1}
      /\ \A i \in DOMAIN audit[m] : audit'[m][i] = audit[m][i]
      /\ audit'[m][Len(audit[m]) + 1] = row
  BY <1>1
<1>3. CompletedRows(m)' = CompletedRows(m)
  BY <1>1, <1>2 DEF CompletedRows
<1>4. ASSUME NEW i \in DOMAIN audit[m], AccountsFor(m, i) PROVE AccountsFor(m, i)'
  BY <1>2, <1>4 DEF AccountsFor
<1> QED BY <1>2, <1>3, <1>4 DEF Honest

\* The save writes exactly one completed row, and it accounts for the result.
LEMMA HonestSave ==
    ASSUME TypeOK, RunTypeOK, AuditInv, NEW w \in Workers, SaveRun(w)
    PROVE  HonestAudit'
<1>0. pc[w] = "run"
  BY DEF SaveRun, Save
<1>. PICK m \in Messages : m = MsgOf(w)
  BY <1>0, HeldType
<1>. PICK row : row = AuditRow("completed", ToolsUsed(run[w]), "analysis")
  OBVIOUS
<1>1. run[w] \in Runs /\ Sound(run[w]) /\ (run[w].llm => paid[m] > 0)
  BY DEF RunTypeOK, AuditInv, Grounded
<1>2. /\ ~result[m] /\ result' = [result EXCEPT ![m] = TRUE]
      /\ columns' = [columns EXCEPT ![m] = Analyzed(run[w])]
      /\ audit' = [audit EXCEPT ![m] = Append(@, row)]
      /\ UNCHANGED paid
  BY DEF SaveRun, Save, Append1
<1>3. ASSUME NEW n \in Messages, n # m PROVE Honest(n)'
  <2>1. result'[n] = result[n] /\ columns'[n] = columns[n] /\ audit'[n] = audit[n]
    BY <1>2, <1>3 DEF TypeOK, RunTypeOK
  <2>2. paid'[n] >= paid[n] /\ paid'[n] \in Nat /\ Honest(n)
    BY <1>2 DEF RunTypeOK, AuditInv, HonestAudit
  <2> QED BY <2>1, <2>2, HonestFrame
<1>4. Honest(m)'
  <2>1. /\ result'[m] /\ columns'[m] = Analyzed(run[w])
        /\ audit'[m] = Append(audit[m], row)
    BY <1>1, <1>2 DEF TypeOK, RunTypeOK
  <2>2. Analyzed(run[w]) # NoRow
    <3>1. TasksMade(run[w]) \in BOOLEAN
      BY DEF TasksMade
    <3>2. Analyzed(run[w]) \in [category : Categories \cup {Unknown},
                                details : {"none", "bare", "items"},
                                filled : SUBSET Enrichments, tasks : BOOLEAN]
      BY <1>1, <3>1 DEF Analyzed, Runs
    <3> QED BY <3>2, NoRowIsNoRow
  <2>. PICK i : i = Len(audit[m]) + 1
    OBVIOUS
  <2>3. audit[m] \in Seq(AuditRows) /\ CompletedRows(m) = {}
    BY <1>1, <1>2 DEF RunTypeOK, AuditInv, HonestAudit, Honest
  <2>4. /\ DOMAIN audit'[m] = DOMAIN audit[m] \cup {i}
        /\ \A j \in DOMAIN audit[m] : audit'[m][j] = audit[m][j]
        /\ audit'[m][i] = row
    BY <2>1, <2>3
  <2>5. row.status = "completed" /\ row.tools = ToolsUsed(run[w])
    BY DEF AuditRow
  <2>6. CompletedRows(m)' = {i}
    BY <2>3, <2>4, <2>5 DEF CompletedRows
  <2>7. AccountsFor(m, i)'
    <3>1. /\ columns'[m].category = run[w].category
          /\ columns'[m].details = run[w].details
          /\ columns'[m].filled = run[w].filled
          /\ columns'[m].tasks = TasksMade(run[w])
      BY <2>1 DEF Analyzed
    <3>2. /\ "ml_service" \in ToolsUsed(run[w]) <=> run[w].ml
          /\ "llm_service" \in ToolsUsed(run[w]) <=> run[w].llm
          /\ "task_generator" \in ToolsUsed(run[w]) <=> TasksMade(run[w])
      BY DEF ToolsUsed
    <3>3. audit'[m][i].tools = ToolsUsed(run[w])
      BY <2>4, <2>5
    <3>4. /\ run[w].category # Unknown => run[w].ml
          /\ run[w].details # "none" \/ run[w].filled # {} => run[w].llm
          /\ run[w].filled \subseteq Wanted(run[w].category)
          /\ run[w].llm => paid'[m] > 0
      BY <1>1, <1>2 DEF Sound
    <3>5. TasksMade(run[w]) \in BOOLEAN
      BY DEF TasksMade
    <3> QED BY <3>1, <3>2, <3>3, <3>4, <3>5 DEF AccountsFor
  <2> QED BY <2>1, <2>2, <2>4, <2>6, <2>7 DEF Honest
<1> QED BY <1>3, <1>4 DEF HonestAudit

\* Nothing is unpaid.
PaidGrows == \A m \in Messages : paid'[m] >= paid[m] /\ paid'[m] \in Nat

LEMMA PayGrows ==
    ASSUME TypeOK, RunTypeOK, NEW w \in Workers, pc[w] = "run", Pay(w)
    PROVE  PaidGrows /\ paid'[MsgOf(w)] > 0
<1>1. MsgOf(w) \in Messages
  BY HeldType
<1> QED BY <1>1 DEF Pay, PaidGrows, RunTypeOK

LEMMA PaidStep ==
    ASSUME TypeOK, RunTypeOK, [RunNext]_allVars
    PROVE  PaidGrows
<1>1. CASE UNCHANGED paid
  BY <1>1 DEF PaidGrows, RunTypeOK
<1>2. ASSUME NEW w \in Workers, pc[w] = "run", Pay(w) PROVE PaidGrows
  BY <1>2, PayGrows
<1>3. ASSUME NEW w \in Workers, Pipeline(w) PROVE PaidGrows
  BY <1>1, <1>2, <1>3 DEF Pipeline, Normalize, Predict, Extracted, Unextracted,
     ExtractTransient, ExtractCut, ExtractRejected, GatePasses, GateCloses,
     GateFails, Enrich, EnrichRejected, SaveRun, SaveFails, At
<1>4. ASSUME NEW w \in Workers, \/ Starts(w) \/ Record(w) \/ Handles(w) \/ Ends(w)
                                \/ RunFaults(w) \/ Restarts(w)
      PROVE  UNCHANGED paid
  BY <1>4 DEF Starts, Record, Handles, Ends, RunFaults, Restarts, runVars
<1> QED BY <1>1, <1>3, <1>4 DEF RunNext, RunWork, UserAct, Others, runVars, allVars

\* A step that changes neither the results nor the log, nor takes back a payment.
LEMMA HonestQuiet ==
    ASSUME RunTypeOK, HonestAudit, PaidGrows, UNCHANGED <<result, columns, audit>>
    PROVE  HonestAudit'
  BY HonestFrame DEF HonestAudit, PaidGrows

\* A failed run's row.
LEMMA HonestFailure ==
    ASSUME TypeOK, RunTypeOK, HonestAudit, NEW w \in Workers, pc[w] # "idle",
           NEW row \in AuditRows, row.status = "failed",
           Append1(MsgOf(w), row), UNCHANGED <<result, columns, paid>>
    PROVE  HonestAudit'
<1>. PICK m \in Messages : m = MsgOf(w)
  BY HeldType
<1>1. ASSUME NEW n \in Messages PROVE Honest(n)'
  <2>1. Honest(n) /\ paid[n] \in Nat
    BY DEF HonestAudit, RunTypeOK
  <2>2. CASE n = m
    <3>1. audit'[n] = Append(audit[n], row)
      BY <2>2 DEF Append1, RunTypeOK
    <3> QED BY <2>1, <3>1, HonestFailedRow
  <2>3. CASE n # m
    <3>1. audit'[n] = audit[n]
      BY <2>3 DEF Append1, RunTypeOK
    <3> QED BY <2>1, <3>1, HonestFrame
  <2> QED BY <2>2, <2>3
<1> QED BY <1>1 DEF HonestAudit

\* Deleting a message takes its result, its columns and its log away.
LEMMA HonestUser ==
    ASSUME TypeOK, RunTypeOK, AuditInv, NEW m \in Messages, UserAct(m)
    PROVE  HonestAudit'
<1>1. ASSUME NEW n \in Messages, n # m PROVE Honest(n)'
  <2>1. result'[n] = result[n]
    BY <1>1 DEF UserAct, User, Submit, ArchiveRead, UnarchiveRead, EditCommit,
       EditNote, Delete, rows, TypeOK
  <2>2. columns'[n] = columns[n] /\ audit'[n] = audit[n] /\ paid'[n] = paid[n]
    BY <1>1 DEF UserAct, RunTypeOK
  <2>3. Honest(n) /\ paid[n] \in Nat
    BY DEF AuditInv, HonestAudit, RunTypeOK
  <2> QED BY <2>1, <2>2, <2>3, HonestFrame
<1>2. CASE status'[m] = "deleted"
  <2>1. ~result'[m]
    <3>1. CASE Delete(m)
      BY <3>1 DEF Delete, TypeOK
    <3>2. CASE ~Delete(m)
      <4>1. UNCHANGED result
        BY <3>2 DEF UserAct, User, Submit, ArchiveRead, UnarchiveRead, EditCommit,
           EditNote, rows
      <4>2. CASE Submit(m)
        BY <1>2, <4>2 DEF Submit, SetStatus, TypeOK
      <4>3. CASE EditCommit(m)
        BY <1>2, <4>1, <4>3 DEF EditCommit, SetStatus, TypeOK, AuditInv, Cleared
      <4>4. CASE ArchiveRead(m) \/ UnarchiveRead(m) \/ EditNote(m)
        BY <1>2, <4>1, <4>4 DEF ArchiveRead, UnarchiveRead, EditNote, rows, AuditInv,
           Cleared
      <4> QED BY <3>2, <4>2, <4>3, <4>4 DEF UserAct, User
    <3> QED BY <3>1, <3>2
  <2>2. columns'[m] = NoRow /\ audit'[m] = << >>
    BY <1>2 DEF UserAct, RunTypeOK
  <2>3. CompletedRows(m)' = {}
    BY <2>2 DEF CompletedRows
  <2>4. Honest(m)'
    BY <2>1, <2>2, <2>3 DEF Honest
  <2> QED BY <1>1, <2>4 DEF HonestAudit
<1>3. CASE status'[m] # "deleted"
  <2>1. UNCHANGED result
    BY <1>3 DEF UserAct, User, Submit, ArchiveRead, UnarchiveRead, EditCommit,
       EditNote, Delete, SetStatus, rows, TypeOK
  <2>2. UNCHANGED <<columns, audit, paid>>
    BY <1>3 DEF UserAct
  <2> QED BY <2>1, <2>2, HonestQuiet DEF AuditInv, PaidGrows, RunTypeOK
<1> QED BY <1>2, <1>3

\* Only a save writes a result, only a deletion removes one.
LEMMA ClearedStep ==
    ASSUME TypeOK, Cleared, [Next]_vars
    PROVE  Cleared'
<1> USE DEF Cleared, TypeOK
<1>1. ASSUME NEW m \in Messages, User(m) \/ Web(m) \/ Age(m) PROVE Cleared'
  BY <1>1 DEF User, Submit, ArchiveRead, UnarchiveRead, EditCommit, EditNote,
     Delete, Web, Enqueue, EnqueueFails, EnqueueUnsure, RouteMarkRead,
     RouteMarkWrite, RouteRefund, Age, SetStatus, rows
<1>2. ASSUME NEW w \in Workers, Work(w) PROVE Cleared'
  <2> DEFINE m == MsgOf(w)
  <2>1. pc[w] # "idle" => m \in Messages
    BY HeldType
  <2> HIDE DEF m
  <2>2. CASE Save(w)
    <3>1. /\ pc[w] # "idle" /\ SetStatus(m, "completed")
          /\ result' = [result EXCEPT ![m] = TRUE]
      BY <2>2 DEF Save, m
    <3> QED BY <2>1, <3>1 DEF SetStatus
  <2>3. CASE Flip(w) \/ NothingToShow(w) \/ WorkerMarkWrite(w)
    <3>1. /\ pc[w] # "idle" /\ UNCHANGED result
          /\ (\E s \in {"processing", "failed"} : SetStatus(m, s)) \/ UNCHANGED status
      BY <2>3 DEF Flip, NothingToShow, WorkerMarkWrite, m
    <3> QED BY <2>1, <3>1 DEF SetStatus
  <2>4. CASE ~(Save(w) \/ Flip(w) \/ NothingToShow(w) \/ WorkerMarkWrite(w))
    BY <1>2, <2>4 DEF Work, Deliver, Guard, Retry, Fail, WorkerMarkRead,
       WorkerRefund, WorkerGoodwill, Ack, rows
  <2> QED BY <2>2, <2>3, <2>4
<1>3. CASE Sweep
  BY <1>3 DEF Sweep, SweepSelect, SweepUpdate, SweepRefund, rows
<1>4. CASE Faulty \/ UNCHANGED vars
  BY <1>4 DEF Faulty, RouteCrash, RouteDbError, CrashLost, CrashRedelivered,
     Redeliver, WorkerDbError, BrokerLoses, SweepCrash, vars, rows
<1> QED BY <1>1, <1>2, <1>3, <1>4 DEF Next

\* Nobody's knowledge loses its ground.
LEMMA GroundedStep ==
    ASSUME TypeOK, RunTypeOK, AuditInv, [RunNext]_allVars, NEW v \in Workers
    PROVE  Grounded(v)'
<1>0. PaidGrows /\ Grounded(v) /\ run[v] \in Runs
  BY PaidStep DEF AuditInv, RunTypeOK
<1> USE DEF Grounded
<1>1. ASSUME pc'[v] = pc[v], job'[v] = job[v], run'[v] = run[v] PROVE Grounded(v)'
  <2>1. pc[v] = "run" => MsgOf(v) \in Messages /\ MsgOf(v)' = MsgOf(v)
    BY <1>1, HeldType DEF MsgOf
  <2>2. ASSUME run[v].llm
        PROVE  pc[v] = "run" /\ paid'[MsgOf(v)] > 0 /\ MsgOf(v)' = MsgOf(v)
    BY <1>0, <2>1, <2>2 DEF PaidGrows, RunTypeOK
  <2>3. Sound(run'[v])
    BY <1>0, <1>1
  <2> QED BY <1>1, <2>2, <2>3
<1>2. ASSUME Others \/ (\E m \in Messages : UserAct(m)) \/ UNCHANGED allVars
      PROVE  Grounded(v)'
  BY <1>1, <1>2, OthersLeaveWorkers
<1>3. ASSUME NEW w \in Workers, RunWork(w) \/ RunFaults(w) \/ Restarts(w), w # v
      PROVE  Grounded(v)'
  BY <1>1, <1>3, OtherWorkers
<1>4. ASSUME RunWork(v) \/ RunFaults(v) \/ Restarts(v) PROVE Grounded(v)'
  <2>1. CASE InsideStep(v)
    <3>1. PICK r : Becomes(v, r) /\ Continues(v, r) /\ (r.llm => run[v].llm \/ Pay(v))
      BY <2>1, InsideRuns
    <3>2. pc[v] = "run" /\ UNCHANGED <<pc, job>>
      BY <2>1 DEF InsideStep, Normalize, Predict, Extracted, Unextracted, GatePasses,
         Enrich, At, Inside, vars, fleet
    <3>3. run'[v] = r /\ Sound(r)
      BY <1>0, <3>1 DEF Becomes, Continues, RunTypeOK
    <3>4. ASSUME r.llm PROVE paid'[MsgOf(v)] > 0
      <4>1. MsgOf(v) \in Messages
        BY <3>2, HeldType
      <4>2. CASE Pay(v)
        BY <3>2, <4>2, PayGrows
      <4>3. CASE run[v].llm
        BY <1>0, <4>1, <4>3 DEF PaidGrows, RunTypeOK
      <4> QED BY <3>1, <3>4, <4>2, <4>3
    <3>5. MsgOf(v)' = MsgOf(v)
      BY <3>2 DEF MsgOf
    <3> QED BY <3>2, <3>3, <3>4, <3>5
  <2>2. ASSUME NEW r, Becomes(v, r), ~r.llm, r.category = Unknown, r.details = "none",
               r.filled = {}, r.todo = {}
        PROVE  Grounded(v)'
    <3>1. run'[v] = r
      BY <2>2 DEF Becomes, RunTypeOK
    <3>2. Sound(r)
      BY <2>2 DEF Sound
    <3> QED BY <2>2, <3>1, <3>2
  <2>3. CASE \/ ExtractTransient(v) \/ ExtractCut(v) \/ ExtractRejected(v)
             \/ GateCloses(v) \/ GateFails(v) \/ EnrichRejected(v) \/ SaveFails(v)
    <3>1. PICK s, b, late : Leaves(v, s, b, late)
      BY <2>3 DEF ExtractTransient, ExtractCut, ExtractRejected, GateCloses,
         GateFails, EnrichRejected, SaveFails
    <3> DEFINE r == [Idle EXCEPT !.step = s, !.rejected = b,
                                 !.rung = run[v].rung \/ late]
    <3>2. /\ Becomes(v, r) /\ ~r.llm /\ r.category = Unknown /\ r.details = "none"
          /\ r.filled = {} /\ r.todo = {}
      BY <3>1 DEF Leaves, Idle
    <3> QED BY <2>2, <3>2
  <2>4. CASE SaveRun(v)
    <3> DEFINE r == [Idle EXCEPT !.rung = run[v].rung]
    <3>1. /\ Becomes(v, r) /\ ~r.llm /\ r.category = Unknown /\ r.details = "none"
          /\ r.filled = {} /\ r.todo = {}
      BY <2>4 DEF SaveRun, Idle
    <3> QED BY <2>2, <3>1
  <2>5. CASE Starts(v) \/ Ends(v) \/ Restarts(v) \/ (CrashLost(v) /\ Becomes(v, Idle))
    <3>1. PICK r \in {Idle, Starting} : Becomes(v, r)
      BY <2>5 DEF Starts, Ends, Restarts
    <3>2. /\ ~r.llm /\ r.category = Unknown /\ r.details = "none"
          /\ r.filled = {} /\ r.todo = {}
      BY <3>1 DEF Idle, Starting
    <3> QED BY <2>2, <3>1, <3>2
  <2>6. CASE Record(v)
    <3>1. pc[v] = "refund" /\ Becomes(v, [run[v] EXCEPT !.step = "none"])
      BY <2>6 DEF Record
    <3> DEFINE r == [run[v] EXCEPT !.step = "none"]
    <3>2. /\ r.llm = run[v].llm /\ r.ml = run[v].ml /\ r.category = run[v].category
          /\ r.details = run[v].details /\ r.filled = run[v].filled
          /\ r.todo = run[v].todo /\ r.step = "none"
      BY <1>0 DEF Runs
    <3>3. Sound(r) /\ ~r.llm
      <4> HIDE DEF r
      <4> QED BY <1>0, <3>1, <3>2 DEF Sound
    <3>4. run'[v] = r
      BY <3>1 DEF Becomes, RunTypeOK
    <3> HIDE DEF r
    <3> QED BY <3>3, <3>4
  <2>7. CASE Handles(v) \/ ((Redeliver(v) \/ WorkerDbError(v)) /\ UNCHANGED runVars)
    <3>1. run'[v] = run[v]
      BY <2>7 DEF Handles, runVars
    <3>2. CASE Redeliver(v)
      BY <1>1, <3>1, <3>2 DEF Redeliver
    <3>3. CASE ~Redeliver(v)
      <4>1. pc[v] # "run"
        BY <2>7, <3>3 DEF Handles, Deliver, WorkerMarkRead, WorkerMarkWrite,
           WorkerRefund, WorkerGoodwill, WorkerDbError
      <4> QED BY <1>0, <3>1, <4>1
    <3> QED BY <3>2, <3>3
  <2> QED BY <1>4, <2>1, <2>3, <2>4, <2>5, <2>6, <2>7
          DEF RunWork, Pipeline, RunFaults, InsideStep
<1> QED BY <1>2, <1>3, <1>4 DEF RunNext

\* Each kind of step keeps the log honest.
LEMMA HonestStep ==
    ASSUME TypeOK, RunTypeOK, AuditInv, [RunNext]_allVars
    PROVE  HonestAudit'
<1>0. PaidGrows /\ HonestAudit
  BY PaidStep DEF AuditInv
<1>1. CASE UNCHANGED <<result, columns, audit>>
  BY <1>0, <1>1, HonestQuiet
<1>2. ASSUME NEW m \in Messages, UserAct(m) PROVE HonestAudit'
  BY <1>2, HonestUser
<1>3. ASSUME NEW w \in Workers, SaveRun(w) PROVE HonestAudit'
  BY <1>3, HonestSave
<1>4. ASSUME NEW w \in Workers, GateCloses(w) PROVE HonestAudit'
  <2>1. /\ pc[w] # "idle" /\ Append1(MsgOf(w), AuditRow("failed", {}, "nothing"))
        /\ UNCHANGED <<result, columns, paid>>
    BY <1>4 DEF GateCloses, NothingToShow, Leaves
  <2>2. /\ AuditRow("failed", {}, "nothing") \in AuditRows
        /\ AuditRow("failed", {}, "nothing").status = "failed"
    BY DEF AuditRow, AuditRows
  <2> QED BY <1>0, <2>1, <2>2, HonestFailure
<1>5. ASSUME NEW w \in Workers, Record(w) PROVE HonestAudit'
  <2>1. pc[w] # "idle" /\ UNCHANGED <<result, columns, paid>>
    BY <1>5 DEF Record, vars, rows
  <2>2. CASE Append1(MsgOf(w), AuditRow("failed", {}, "credentials"))
    <3>1. /\ AuditRow("failed", {}, "credentials") \in AuditRows
          /\ AuditRow("failed", {}, "credentials").status = "failed"
      BY DEF AuditRow, AuditRows
    <3> QED BY <1>0, <2>1, <2>2, <3>1, HonestFailure
  <2>3. CASE UNCHANGED audit
    BY <1>1, <2>1, <2>3
  <2> QED BY <1>5, <2>2, <2>3 DEF Record
<1>6. ASSUME NEW w \in Workers, Pipeline(w) PROVE HonestAudit'
  <2>1. CASE SaveRun(w) \/ GateCloses(w)
    BY <1>3, <1>4, <2>1
  <2>2. CASE ~(SaveRun(w) \/ GateCloses(w))
    BY <1>1, <1>6, <2>2 DEF Pipeline, Normalize, Predict, Extracted, Unextracted,
       ExtractTransient, ExtractCut, ExtractRejected, GatePasses, GateFails, Enrich,
       EnrichRejected, SaveFails, Inside, Leaves, Retry, Fail, vars, rows
  <2> QED BY <2>1, <2>2
<1>7. ASSUME NEW w \in Workers,
             \/ Starts(w) \/ Handles(w) \/ Ends(w) \/ RunFaults(w) \/ Restarts(w)
      PROVE  UNCHANGED <<result, columns, audit>>
  BY <1>7 DEF Starts, Handles, Ends, RunFaults, Restarts, Guard, Flip, Deliver,
     WorkerMarkRead, WorkerMarkWrite, WorkerRefund, WorkerGoodwill, Ack, CrashLost,
     Redeliver, WorkerDbError, CrashRedelivered, runVars, rows
<1>8. CASE Others \/ UNCHANGED allVars
  <2>1. UNCHANGED <<result, columns, audit>>
    BY <1>8 DEF Others, allVars, vars, runVars, rows, Web, Enqueue, EnqueueFails,
       EnqueueUnsure, RouteMarkRead, RouteMarkWrite, RouteRefund, Age, RouteCrash,
       RouteDbError, Sweep, SweepSelect, SweepUpdate, SweepRefund, SweepCrash,
       BrokerLoses
  <2> QED BY <1>1, <2>1
<1> QED BY <1>1, <1>2, <1>5, <1>6, <1>7, <1>8 DEF RunNext, RunWork

\* "tools_used reflects what actually ran": for every message, however often it
\* is run, redelivered, deleted, and whichever services were loaded, a result
\* has exactly one completed audit row, and it accounts for every column.
THEOREM AuditIsHonest == RunSpec => []HonestAudit
<1>1. RunInit => AuditInv
  <2> SUFFICES ASSUME RunInit PROVE AuditInv
    OBVIOUS
  <2>1. \A m \in Messages : Honest(m)
    BY DEF RunInit, Init, Honest, CompletedRows
  <2>2. Cleared
    BY DEF RunInit, Init, Cleared
  <2>3. \A w \in Workers : Grounded(w)
    BY DEF RunInit, Grounded, Sound, Idle
  <2> QED BY <2>1, <2>2, <2>3 DEF AuditInv, HonestAudit
<1>2. TypeOK /\ RunTypeOK /\ AuditInv /\ [RunNext]_allVars => AuditInv'
  <2> SUFFICES ASSUME TypeOK, RunTypeOK, AuditInv, [RunNext]_allVars PROVE AuditInv'
    OBVIOUS
  <2>1. HonestAudit'
    BY HonestStep
  <2>2. Cleared'
    BY RunNextStep, ClearedStep DEF AuditInv
  <2>3. \A w \in Workers : Grounded(w)'
    BY GroundedStep
  <2> QED BY <2>1, <2>2, <2>3 DEF AuditInv
<1>3. AuditInv => HonestAudit
  BY DEF AuditInv
<1>4. RunSpec => []TypeOK
  BY PipelineKeepsContract, TypeCorrect, PTL DEF KeepsContract
<1> QED BY <1>1, <1>2, <1>3, <1>4, RunTypeCorrect, PTL DEF RunSpec

-----------------------------------------------------------------------------
(* The provider is paid for one analysis                                   *)

\* What may still cost an analysis of message m: the submission to come, the
\* tasks that wait, and the workers that have not called yet; and the calls
\* each worker's run has ahead once its extraction was answered.
Asked(m) == IF status[m] = "absent" \/ route[m] = "publish" THEN 1 ELSE 0
Waiting(m) == {c \in Tasks \X (Nat \ {0}) : c[1].msg = m /\ c[2] <= queue[c[1]]}
Uncalled(w) == \/ pc[w] \in {"guard", "flip"}
               \/ pc[w] = "run" /\ run[w].step \in {"normalize", "predict", "extract"}
Callers(m) == {w \in Workers : Holds(w, m) /\ Uncalled(w)}
Ahead(w) == {e \in Enrichments :
               /\ pc[w] = "run"
               /\ \/ run[w].step = "gate" /\ run[w].llm /\ e \in Wanted(run[w].category)
                  \/ run[w].step = "enrich" /\ e \in run[w].todo}
Calls(m) == {c \in Workers \X Enrichments : Holds(c[1], m) /\ c[2] \in Ahead(c[1])}
Attempts(m) == Asked(m) + Cardinality(Waiting(m)) + Cardinality(Callers(m))

\* What was paid and what is still to come stay within the budget.
Budgeted(m) ==
    /\ IsFiniteSet(Waiting(m)) /\ IsFiniteSet(Callers(m)) /\ IsFiniteSet(Calls(m))
    /\ paid[m] + CallLimit * Attempts(m) + Cardinality(Calls(m))
          <= CallLimit * (1 + faults)

PaidInv == /\ \A m \in Messages : Budgeted(m)
           /\ \A w \in Workers : run[w].category \in Predicted \cup {Unknown}

\* The calls of one run: the extraction and what its category is given.
Enough == \A c \in Predicted \cup {Unknown} : Cardinality(Wanted(c)) < CallLimit

LEMMA FiveEnrichments == IsFiniteSet(Enrichments) /\ Cardinality(Enrichments) = 5
<1> DEFINE one == {"prep"}
           two == one \cup {"questions"}
           three == two \cup {"reply"}
           four == three \cup {"role"}
           five == four \cup {"archive"}
<1>1. IsFiniteSet(one) /\ Cardinality(one) = 1
  BY FS_Singleton
<1>2. IsFiniteSet(two) /\ Cardinality(two) = 2
  BY <1>1, FS_AddElement
<1> HIDE DEF two
<1>3. IsFiniteSet(three) /\ Cardinality(three) = 3
  <2>1. "reply" \notin two
    BY DEF two
  <2> QED BY <1>2, <2>1, FS_AddElement
<1> HIDE DEF three
<1>4. IsFiniteSet(four) /\ Cardinality(four) = 4
  <2>1. "role" \notin three
    BY DEF two, three
  <2> QED BY <1>3, <2>1, FS_AddElement
<1> HIDE DEF four
<1>5. IsFiniteSet(five) /\ Cardinality(five) = 5
  <2>1. "archive" \notin four
    BY DEF two, three, four
  <2> QED BY <1>4, <2>1, FS_AddElement
<1>6. five = Enrichments
  BY DEF Enrichments, two, three, four
<1> QED BY <1>5, <1>6

\* The limit of the code is enough for every category it knows.
LEMMA SixAreEnough == CallLimit >= 6 => Enough
<1> SUFFICES ASSUME CallLimit >= 6, NEW c PROVE Cardinality(Wanted(c)) < CallLimit
  BY DEF Enough
<1>1. Wanted(c) \subseteq Enrichments
  BY DEF Wanted, Enrichments
<1>2. IsFiniteSet(Wanted(c)) /\ Cardinality(Wanted(c)) <= 5
  BY <1>1, FiveEnrichments, FS_Subset
<1>3. Cardinality(Wanted(c)) \in Nat
  BY <1>2, FS_CardinalityType
<1> QED BY <1>2, <1>3, RunConstantsOK

\* What may be paid for next, in numbers.
LEMMA Balance ==
    ASSUME NEW p \in Nat, NEW n \in Nat, NEW c \in Nat, NEW k \in Nat, NEW L \in Nat,
           NEW p2 \in Nat, NEW n2 \in Nat, NEW c2 \in Nat, NEW k2 \in Nat,
           p + L * n + c <= L * (1 + k), k <= k2,
           \/ n2 <= n /\ p2 + c2 <= p + c
           \/ n2 <= n + 1 /\ p2 + c2 <= p + c /\ k2 >= k + 1
           \/ n2 + 1 <= n /\ p2 + c2 <= p + c + L
    PROVE  p2 + L * n2 + c2 <= L * (1 + k2)
<1>1. \A a, b \in Nat : a <= b => L * a <= L * b
  OBVIOUS
<1>2. L * n \in Nat /\ L * n2 \in Nat /\ L * (1 + k) \in Nat /\ L * (1 + k2) \in Nat
  OBVIOUS
<1>3. L * (1 + k) <= L * (1 + k2)
  BY <1>1
<1>4. CASE n2 <= n /\ p2 + c2 <= p + c
  <2>1. L * n2 <= L * n
    BY <1>1, <1>4
  <2> QED BY <1>2, <1>3, <1>4, <2>1
<1>5. CASE n2 <= n + 1 /\ p2 + c2 <= p + c /\ k2 >= k + 1
  <2>1. L * n2 <= L * (n + 1) /\ L * (1 + k + 1) <= L * (1 + k2)
    BY <1>1, <1>5
  <2>2. L * (n + 1) = L * n + L /\ L * (1 + k + 1) = L * (1 + k) + L
    OBVIOUS
  <2> QED BY <1>2, <1>5, <2>1, <2>2
<1>6. CASE n2 + 1 <= n /\ p2 + c2 <= p + c + L
  <2>1. L * (n2 + 1) <= L * n
    BY <1>1, <1>6
  <2>2. L * (n2 + 1) = L * n2 + L
    OBVIOUS
  <2> QED BY <1>2, <1>3, <1>6, <2>1, <2>2
<1> QED BY <1>4, <1>5, <1>6

\* Sets that lose, swap or gain an element.
LEMMA SetSteps ==
    ASSUME NEW S, IsFiniteSet(S), NEW T
    PROVE  /\ Cardinality(S) \in Nat
           /\ T \subseteq S =>
                 IsFiniteSet(T) /\ Cardinality(T) \in Nat /\ Cardinality(T) <= Cardinality(S)
           /\ \A x \in S : T \subseteq S \ {x} =>
                 /\ IsFiniteSet(T) /\ Cardinality(T) \in Nat
                 /\ Cardinality(T) + 1 <= Cardinality(S)
           /\ \A x : T \subseteq S \cup {x} =>
                 /\ IsFiniteSet(T) /\ Cardinality(T) \in Nat
                 /\ Cardinality(T) <= Cardinality(S) + 1
<1>1. Cardinality(S) \in Nat
  BY FS_CardinalityType
<1>2. ASSUME NEW U, IsFiniteSet(U), T \subseteq U
      PROVE  IsFiniteSet(T) /\ Cardinality(T) \in Nat /\ Cardinality(T) <= Cardinality(U)
  <2>1. IsFiniteSet(T) /\ Cardinality(T) <= Cardinality(U)
    BY <1>2, FS_Subset
  <2> QED BY <2>1, FS_CardinalityType
<1>3. ASSUME NEW x \in S, T \subseteq S \ {x}
      PROVE  /\ IsFiniteSet(T) /\ Cardinality(T) \in Nat
             /\ Cardinality(T) + 1 <= Cardinality(S)
  <2>1. IsFiniteSet(S \ {x}) /\ Cardinality(S \ {x}) = Cardinality(S) - 1
    BY FS_RemoveElement
  <2>2. IsFiniteSet(T) /\ Cardinality(T) \in Nat /\ Cardinality(T) <= Cardinality(S \ {x})
    BY <1>2, <1>3, <2>1
  <2> QED BY <1>1, <2>1, <2>2
<1>4. ASSUME NEW x, T \subseteq S \cup {x}
      PROVE  /\ IsFiniteSet(T) /\ Cardinality(T) \in Nat
             /\ Cardinality(T) <= Cardinality(S) + 1
  <2>1. /\ IsFiniteSet(S \cup {x})
        /\ Cardinality(S \cup {x}) = IF x \in S THEN Cardinality(S) ELSE Cardinality(S) + 1
    BY FS_AddElement
  <2>2. /\ IsFiniteSet(T) /\ Cardinality(T) \in Nat
        /\ Cardinality(T) <= Cardinality(S \cup {x})
    BY <1>2, <1>4, <2>1
  <2> QED BY <1>1, <2>1, <2>2
<1>5. T \subseteq S => IsFiniteSet(T) /\ Cardinality(T) \in Nat /\ Cardinality(T) <= Cardinality(S)
  BY <1>2
<1> QED BY <1>1, <1>3, <1>4, <1>5

\* The queue takes or gives a copy of a task.
LEMMA WaitingSteps ==
    ASSUME TypeOK, NEW t \in Tasks, NEW m \in Messages
    PROVE  /\ Publish(t) => /\ t.msg # m => Waiting(m)' \subseteq Waiting(m)
                            /\ Waiting(m)' \subseteq Waiting(m) \cup {<<t, queue[t] + 1>>}
           /\ queue[t] > 0 /\ queue' = [queue EXCEPT ![t] = @ - 1] =>
                 /\ Waiting(m)' \subseteq Waiting(m)
                 /\ t.msg = m => /\ <<t, queue[t]>> \in Waiting(m)
                                 /\ Waiting(m)' \subseteq Waiting(m) \ {<<t, queue[t]>>}
<1>0. \A s \in Tasks : queue[s] \in Nat
  BY DEF TypeOK
<1>1. ASSUME Publish(t), NEW c \in Waiting(m)'
      PROVE  c \in Waiting(m) \/ (t.msg = m /\ c = <<t, queue[t] + 1>>)
  <2>1. PICK s \in Tasks, i \in Nat \ {0} : c = <<s, i>> /\ s.msg = m /\ i <= queue'[s]
    BY DEF Waiting
  <2>2. CASE s = t
    <3>1. queue'[s] = queue[t] + 1
      BY <1>1, <2>2 DEF Publish, TypeOK
    <3>2. i <= queue[t] \/ i = queue[t] + 1
      BY <1>0, <2>1, <3>1
    <3> QED BY <2>1, <2>2, <3>2 DEF Waiting
  <2>3. CASE s # t
    <3>1. queue'[s] = queue[s]
      BY <1>1, <2>3 DEF Publish, TypeOK
    <3> QED BY <2>1, <3>1 DEF Waiting
  <2> QED BY <2>2, <2>3
<1>2. ASSUME queue[t] > 0, queue' = [queue EXCEPT ![t] = @ - 1], NEW c \in Waiting(m)'
      PROVE  c \in Waiting(m) /\ (t.msg = m => c # <<t, queue[t]>>)
  <2>1. PICK s \in Tasks, i \in Nat \ {0} : c = <<s, i>> /\ s.msg = m /\ i <= queue'[s]
    BY DEF Waiting
  <2>2. CASE s = t
    <3>1. queue'[s] = queue[t] - 1
      BY <1>2, <2>2 DEF TypeOK
    <3>2. i <= queue[t] /\ i # queue[t]
      BY <1>0, <2>1, <3>1
    <3> QED BY <2>1, <2>2, <3>2 DEF Waiting
  <2>3. CASE s # t
    <3>1. queue'[s] = queue[s]
      BY <1>2, <2>3 DEF TypeOK
    <3> QED BY <2>1, <2>3, <3>1 DEF Waiting
  <2> QED BY <2>2, <2>3
<1>3. queue[t] > 0 /\ t.msg = m => <<t, queue[t]>> \in Waiting(m)
  BY <1>0 DEF Waiting
<1> QED BY <1>1, <1>2, <1>3

\* The budget in one step: the attempts to come, the calls and what was paid.
LEMMA BudgetStep ==
    ASSUME TypeOK, RunTypeOK, TypeOK', RunTypeOK', NEW m \in Messages, Budgeted(m),
           faults <= faults',
           IsFiniteSet(Waiting(m)'), IsFiniteSet(Callers(m)'), IsFiniteSet(Calls(m)'),
           \/ /\ Attempts(m)' <= Attempts(m)
              /\ paid'[m] + Cardinality(Calls(m)') <= paid[m] + Cardinality(Calls(m))
           \/ /\ Attempts(m)' <= Attempts(m) + 1 /\ faults' >= faults + 1
              /\ paid'[m] + Cardinality(Calls(m)') <= paid[m] + Cardinality(Calls(m))
           \/ /\ Attempts(m)' + 1 <= Attempts(m)
              /\ paid'[m] + Cardinality(Calls(m)')
                     <= paid[m] + Cardinality(Calls(m)) + CallLimit
    PROVE  Budgeted(m)'
<1>1. /\ Asked(m) \in Nat /\ Cardinality(Waiting(m)) \in Nat
      /\ Cardinality(Callers(m)) \in Nat /\ Cardinality(Calls(m)) \in Nat
  BY FS_CardinalityType DEF Asked, Budgeted
<1>2. /\ Asked(m)' \in Nat /\ Cardinality(Waiting(m)') \in Nat
      /\ Cardinality(Callers(m)') \in Nat /\ Cardinality(Calls(m)') \in Nat
  BY FS_CardinalityType DEF Asked
<1>3. Attempts(m) \in Nat /\ Attempts(m)' \in Nat
  BY <1>1, <1>2 DEF Attempts
<1>4. /\ paid[m] \in Nat /\ paid'[m] \in Nat /\ faults \in Nat /\ faults' \in Nat
      /\ CallLimit \in Nat
  BY RunConstantsOK, ConstantsOK DEF TypeOK, RunTypeOK
<1> DEFINE p == paid[m]  n == Attempts(m)  c == Cardinality(Calls(m))
           p2 == paid'[m]  n2 == Attempts(m)'  c2 == Cardinality(Calls(m)')
<1>5. p + CallLimit * n + c <= CallLimit * (1 + faults)
  BY DEF Budgeted
<1>6. \/ n2 <= n /\ p2 + c2 <= p + c
      \/ n2 <= n + 1 /\ p2 + c2 <= p + c /\ faults' >= faults + 1
      \/ n2 + 1 <= n /\ p2 + c2 <= p + c + CallLimit
  OBVIOUS
<1>7. /\ p \in Nat /\ n \in Nat /\ c \in Nat /\ p2 \in Nat /\ n2 \in Nat /\ c2 \in Nat
      /\ faults <= faults'
  BY <1>1, <1>2, <1>3, <1>4
<1>8. p2 + CallLimit * n2 + c2 <= CallLimit * (1 + faults')
  <2> HIDE DEF p, n, c, p2, n2, c2
  <2> QED BY <1>4, <1>5, <1>6, <1>7, Balance
<1> QED BY <1>8 DEF Budgeted

\* Nothing is asked for anew.
LEMMA AskedStep ==
    ASSUME TypeOK, OnlySubmitted, [RunNext]_allVars, NEW m \in Messages
    PROVE  /\ Asked(m) \in {0, 1} /\ Asked(m)' \in {0, 1} /\ Asked(m)' <= Asked(m)
           /\ faults <= faults'
<1>1. [Next]_vars
  BY RunNextStep
<1>2. status'[m] = "absent" => status[m] = "absent"
  BY <1>1, NoneWithdrawn
<1>3. route'[m] = "publish" => route[m] = "publish" \/ status[m] = "absent"
  <2>1. ASSUME NEW n \in Messages, Submit(n) PROVE route'[m] = route[m] \/ status[m] = "absent"
    BY <2>1 DEF Submit, TypeOK
  <2>2. ASSUME NEW n \in Messages, Web(n) \/ RouteCrash(n) \/ RouteDbError(n)
        PROVE  route'[m] = route[m] \/ route'[m] # "publish"
    BY <2>2 DEF TypeOK, Web, Enqueue, EnqueueFails, EnqueueUnsure, RouteMarkRead,
       RouteMarkWrite, RouteRefund, RouteCrash, RouteDbError
  <2>3. ASSUME NEW n \in Messages, (User(n) /\ ~Submit(n)) \/ Age(n) PROVE UNCHANGED route
    BY <2>3 DEF User, ArchiveRead, UnarchiveRead, EditCommit, EditNote, Delete, Age, web
  <2>4. ASSUME NEW w \in Workers,
               \/ Work(w) \/ CrashLost(w) \/ CrashRedelivered(w) \/ Redeliver(w)
               \/ WorkerDbError(w)
        PROVE  UNCHANGED route
    BY <2>4 DEF Work, Deliver, Guard, Flip, Save, NothingToShow, Retry, Fail,
       WorkerMarkRead, WorkerMarkWrite, WorkerRefund, WorkerGoodwill, Ack, CrashLost,
       CrashRedelivered, Redeliver, WorkerDbError, web
  <2>5. CASE Sweep \/ SweepCrash \/ (\E t \in Tasks : BrokerLoses(t)) \/ UNCHANGED vars
    BY <2>5 DEF Sweep, SweepSelect, SweepUpdate, SweepRefund, SweepCrash, BrokerLoses,
       vars, web
  <2> QED BY <1>1, <2>1, <2>2, <2>3, <2>4, <2>5 DEF Next, Faulty
<1>4. faults \in Nat
  BY ConstantsOK DEF TypeOK
<1>5. faults' = faults \/ faults' = faults + 1
  BY <1>1 DEF Next, User, Submit, ArchiveRead, UnarchiveRead, EditCommit,
     EditNote, Delete, Web, Enqueue, EnqueueFails, EnqueueUnsure, RouteMarkRead,
     RouteMarkWrite, RouteRefund, Age, Work, Deliver, Guard, Flip, Save,
     NothingToShow, Retry, Fail, WorkerMarkRead, WorkerMarkWrite, WorkerRefund,
     WorkerGoodwill, Ack, Sweep, SweepSelect, SweepUpdate, SweepRefund, Faulty,
     RouteCrash, RouteDbError, CrashLost, CrashRedelivered, Redeliver,
     WorkerDbError, BrokerLoses, SweepCrash, vars, hist, Fault
<1> QED BY <1>2, <1>3, <1>4, <1>5 DEF Asked

\* Where nothing is published, nobody starts calling and nothing is paid.
LEMMA BudgetKept ==
    ASSUME TypeOK, RunTypeOK, TypeOK', RunTypeOK', OnlySubmitted, [RunNext]_allVars,
           NEW m \in Messages, Budgeted(m), paid'[m] = paid[m],
           Waiting(m)' \subseteq Waiting(m), Callers(m)' \subseteq Callers(m),
           Calls(m)' \subseteq Calls(m)
    PROVE  Budgeted(m)'
<1>1. /\ Asked(m) \in {0, 1} /\ Asked(m)' \in {0, 1} /\ Asked(m)' <= Asked(m)
      /\ faults <= faults'
  BY AskedStep
<1>2. /\ IsFiniteSet(Waiting(m)) /\ IsFiniteSet(Callers(m)) /\ IsFiniteSet(Calls(m))
      /\ paid[m] \in Nat
  BY DEF Budgeted, RunTypeOK
<1>3. /\ Cardinality(Waiting(m)) \in Nat /\ IsFiniteSet(Waiting(m)')
      /\ Cardinality(Waiting(m)') \in Nat
      /\ Cardinality(Waiting(m)') <= Cardinality(Waiting(m))
  BY <1>2, SetSteps
<1>4. /\ Cardinality(Callers(m)) \in Nat /\ IsFiniteSet(Callers(m)')
      /\ Cardinality(Callers(m)') \in Nat
      /\ Cardinality(Callers(m)') <= Cardinality(Callers(m))
  BY <1>2, SetSteps
<1>5. /\ Cardinality(Calls(m)) \in Nat /\ IsFiniteSet(Calls(m)')
      /\ Cardinality(Calls(m)') \in Nat
      /\ Cardinality(Calls(m)') <= Cardinality(Calls(m))
  BY <1>2, SetSteps
<1>6. Attempts(m)' <= Attempts(m)
  BY <1>1, <1>3, <1>4 DEF Attempts
<1>7. paid'[m] + Cardinality(Calls(m)') <= paid[m] + Cardinality(Calls(m))
  BY <1>2, <1>5
<1> QED BY <1>1, <1>3, <1>4, <1>5, <1>6, <1>7, BudgetStep

\* One more copy of a task, for one more fault.
LEMMA BudgetCopied ==
    ASSUME TypeOK, RunTypeOK, TypeOK', RunTypeOK', OnlySubmitted, [RunNext]_allVars,
           NEW m \in Messages, Budgeted(m), paid'[m] = paid[m], faults' = faults + 1,
           NEW x, Waiting(m)' \subseteq Waiting(m) \cup {x},
           Callers(m)' \subseteq Callers(m), Calls(m)' \subseteq Calls(m)
    PROVE  Budgeted(m)'
<1>1. /\ Asked(m) \in {0, 1} /\ Asked(m)' \in {0, 1} /\ Asked(m)' <= Asked(m)
      /\ faults <= faults' /\ faults \in Nat
  BY AskedStep, ConstantsOK DEF TypeOK
<1>2. /\ IsFiniteSet(Waiting(m)) /\ IsFiniteSet(Callers(m)) /\ IsFiniteSet(Calls(m))
      /\ paid[m] \in Nat
  BY DEF Budgeted, RunTypeOK
<1>3. /\ Cardinality(Waiting(m)) \in Nat /\ IsFiniteSet(Waiting(m)')
      /\ Cardinality(Waiting(m)') \in Nat
      /\ Cardinality(Waiting(m)') <= Cardinality(Waiting(m)) + 1
  BY <1>2, SetSteps
<1>4. /\ Cardinality(Callers(m)) \in Nat /\ IsFiniteSet(Callers(m)')
      /\ Cardinality(Callers(m)') \in Nat
      /\ Cardinality(Callers(m)') <= Cardinality(Callers(m))
  BY <1>2, SetSteps
<1>5. /\ Cardinality(Calls(m)) \in Nat /\ IsFiniteSet(Calls(m)')
      /\ Cardinality(Calls(m)') \in Nat
      /\ Cardinality(Calls(m)') <= Cardinality(Calls(m))
  BY <1>2, SetSteps
<1>6. Attempts(m)' <= Attempts(m) + 1 /\ faults' >= faults + 1
  BY <1>1, <1>3, <1>4 DEF Attempts
<1>7. paid'[m] + Cardinality(Calls(m)') <= paid[m] + Cardinality(Calls(m))
  BY <1>2, <1>5
<1> QED BY <1>1, <1>3, <1>4, <1>5, <1>6, <1>7, BudgetStep

\* An attempt changes hands: from the request to the broker, from the broker to
\* a worker, or from a worker that made no call back to the broker.
LEMMA BudgetHanded ==
    ASSUME TypeOK, RunTypeOK, TypeOK', RunTypeOK', OnlySubmitted, [RunNext]_allVars,
           NEW m \in Messages, Budgeted(m), paid'[m] = paid[m], Calls(m)' \subseteq Calls(m),
           NEW x, NEW w,
           \/ /\ Asked(m)' < Asked(m)
              /\ Waiting(m)' \subseteq Waiting(m) \cup {x} /\ Callers(m)' \subseteq Callers(m)
           \/ /\ x \in Waiting(m) /\ Waiting(m)' \subseteq Waiting(m) \ {x}
              /\ Callers(m)' \subseteq Callers(m) \cup {w}
           \/ /\ w \in Callers(m) /\ Callers(m)' \subseteq Callers(m) \ {w}
              /\ Waiting(m)' \subseteq Waiting(m) \cup {x}
    PROVE  Budgeted(m)'
<1>1. /\ Asked(m) \in {0, 1} /\ Asked(m)' \in {0, 1} /\ Asked(m)' <= Asked(m)
      /\ faults <= faults'
  BY AskedStep
<1>2. /\ IsFiniteSet(Waiting(m)) /\ IsFiniteSet(Callers(m)) /\ IsFiniteSet(Calls(m))
      /\ paid[m] \in Nat
  BY DEF Budgeted, RunTypeOK
<1>3. /\ Cardinality(Waiting(m)) \in Nat /\ Cardinality(Callers(m)) \in Nat
      /\ Cardinality(Calls(m)) \in Nat
  BY <1>2, SetSteps
<1>4. /\ IsFiniteSet(Waiting(m)') /\ Cardinality(Waiting(m)') \in Nat
      /\ IsFiniteSet(Callers(m)') /\ Cardinality(Callers(m)') \in Nat
      /\ Attempts(m)' <= Attempts(m)
  <2>1. CASE /\ Asked(m)' < Asked(m)
             /\ Waiting(m)' \subseteq Waiting(m) \cup {x} /\ Callers(m)' \subseteq Callers(m)
    <3>1. /\ IsFiniteSet(Waiting(m)') /\ Cardinality(Waiting(m)') \in Nat
          /\ Cardinality(Waiting(m)') <= Cardinality(Waiting(m)) + 1
      BY <1>2, <2>1, SetSteps
    <3>2. /\ IsFiniteSet(Callers(m)') /\ Cardinality(Callers(m)') \in Nat
          /\ Cardinality(Callers(m)') <= Cardinality(Callers(m))
      BY <1>2, <2>1, SetSteps
    <3>3. Attempts(m)' <= Attempts(m)
      BY <1>1, <1>3, <2>1, <3>1, <3>2 DEF Attempts
    <3> QED BY <3>1, <3>2, <3>3
  <2>2. CASE /\ x \in Waiting(m) /\ Waiting(m)' \subseteq Waiting(m) \ {x}
             /\ Callers(m)' \subseteq Callers(m) \cup {w}
    <3>1. /\ IsFiniteSet(Waiting(m)') /\ Cardinality(Waiting(m)') \in Nat
          /\ Cardinality(Waiting(m)') + 1 <= Cardinality(Waiting(m))
      BY <1>2, <2>2, SetSteps
    <3>2. /\ IsFiniteSet(Callers(m)') /\ Cardinality(Callers(m)') \in Nat
          /\ Cardinality(Callers(m)') <= Cardinality(Callers(m)) + 1
      BY <1>2, <2>2, SetSteps
    <3>3. Attempts(m)' <= Attempts(m)
      BY <1>1, <1>3, <3>1, <3>2 DEF Attempts
    <3> QED BY <3>1, <3>2, <3>3
  <2>3. CASE /\ w \in Callers(m) /\ Callers(m)' \subseteq Callers(m) \ {w}
             /\ Waiting(m)' \subseteq Waiting(m) \cup {x}
    <3>1. /\ IsFiniteSet(Waiting(m)') /\ Cardinality(Waiting(m)') \in Nat
          /\ Cardinality(Waiting(m)') <= Cardinality(Waiting(m)) + 1
      BY <1>2, <2>3, SetSteps
    <3>2. /\ IsFiniteSet(Callers(m)') /\ Cardinality(Callers(m)') \in Nat
          /\ Cardinality(Callers(m)') + 1 <= Cardinality(Callers(m))
      BY <1>2, <2>3, SetSteps
    <3>3. Attempts(m)' <= Attempts(m)
      BY <1>1, <1>3, <3>1, <3>2 DEF Attempts
    <3> QED BY <3>1, <3>2, <3>3
  <2> QED BY <2>1, <2>2, <2>3
<1>5. /\ IsFiniteSet(Calls(m)') /\ Cardinality(Calls(m)') \in Nat
      /\ Cardinality(Calls(m)') <= Cardinality(Calls(m))
  BY <1>2, SetSteps
<1>6. paid'[m] + Cardinality(Calls(m)') <= paid[m] + Cardinality(Calls(m))
  BY <1>2, <1>3, <1>5
<1> QED BY <1>1, <1>4, <1>5, <1>6, BudgetStep

\* The extraction is over: one call paid or none, the enrichments to come.
LEMMA BudgetExtracted ==
    ASSUME TypeOK, RunTypeOK, TypeOK', RunTypeOK', OnlySubmitted, [RunNext]_allVars,
           NEW m \in Messages, Budgeted(m), paid'[m] \in {paid[m], paid[m] + 1},
           Waiting(m)' \subseteq Waiting(m),
           NEW w \in Callers(m), Callers(m)' \subseteq Callers(m) \ {w},
           NEW E, IsFiniteSet(E), Cardinality(E) < CallLimit,
           Calls(m)' \subseteq Calls(m) \cup ({w} \X E)
    PROVE  Budgeted(m)'
<1>1. /\ Asked(m) \in {0, 1} /\ Asked(m)' \in {0, 1} /\ Asked(m)' <= Asked(m)
      /\ faults <= faults'
  BY AskedStep
<1>2. /\ IsFiniteSet(Waiting(m)) /\ IsFiniteSet(Callers(m)) /\ IsFiniteSet(Calls(m))
      /\ paid[m] \in Nat /\ CallLimit \in Nat
  BY RunConstantsOK DEF Budgeted, RunTypeOK
<1>3. /\ Cardinality(Waiting(m)) \in Nat /\ IsFiniteSet(Waiting(m)')
      /\ Cardinality(Waiting(m)') \in Nat
      /\ Cardinality(Waiting(m)') <= Cardinality(Waiting(m))
  BY <1>2, SetSteps
<1>4. /\ Cardinality(Callers(m)) \in Nat /\ IsFiniteSet(Callers(m)')
      /\ Cardinality(Callers(m)') \in Nat
      /\ Cardinality(Callers(m)') + 1 <= Cardinality(Callers(m))
  BY <1>2, SetSteps
<1>5. /\ Cardinality(Calls(m)) \in Nat /\ IsFiniteSet(Calls(m)')
      /\ Cardinality(Calls(m)') \in Nat
      /\ Cardinality(Calls(m)') + 1 <= Cardinality(Calls(m)) + CallLimit
  <2> DEFINE F == {w} \X E
  <2>1. Cardinality(E) \in Nat /\ Cardinality(Calls(m)) \in Nat
    BY <1>2, FS_CardinalityType
  <2>2. IsFiniteSet({w}) /\ Cardinality({w}) = 1
    BY FS_Singleton
  <2>3. IsFiniteSet(F) /\ Cardinality(F) = 1 * Cardinality(E)
    BY <2>2, FS_Product
  <2>4. Cardinality(F) \in Nat /\ Cardinality(F) + 1 <= CallLimit
    BY <1>2, <2>1, <2>3
  <2> HIDE DEF F
  <2>5. /\ IsFiniteSet(Calls(m) \cup F)
        /\ Cardinality(Calls(m) \cup F)
               = Cardinality(Calls(m)) + Cardinality(F) - Cardinality(Calls(m) \cap F)
    BY <1>2, <2>3, FS_Union
  <2>6. Cardinality(Calls(m) \cap F) \in Nat
    <3>1. IsFiniteSet(Calls(m) \cap F)
      BY <1>2, FS_Subset
    <3> QED BY <3>1, FS_CardinalityType
  <2>7. /\ IsFiniteSet(Calls(m)') /\ Cardinality(Calls(m)') \in Nat
        /\ Cardinality(Calls(m)') <= Cardinality(Calls(m) \cup F)
    <3>1. Calls(m)' \subseteq Calls(m) \cup F
      BY DEF F
    <3> QED BY <2>5, <3>1, SetSteps
  <2> QED BY <1>2, <2>1, <2>4, <2>5, <2>6, <2>7
<1>6. Attempts(m)' + 1 <= Attempts(m)
  BY <1>1, <1>3, <1>4 DEF Attempts
<1>7. paid'[m] + Cardinality(Calls(m)') <= paid[m] + Cardinality(Calls(m)) + CallLimit
  BY <1>2, <1>5
<1> QED BY <1>1, <1>3, <1>4, <1>5, <1>6, <1>7, BudgetStep

\* An enrichment call is made, and paid unless it failed.
LEMMA BudgetCalled ==
    ASSUME TypeOK, RunTypeOK, TypeOK', RunTypeOK', OnlySubmitted, [RunNext]_allVars,
           NEW m \in Messages, Budgeted(m), paid'[m] \in {paid[m], paid[m] + 1},
           Waiting(m)' \subseteq Waiting(m), Callers(m)' \subseteq Callers(m),
           NEW c \in Calls(m), Calls(m)' \subseteq Calls(m) \ {c}
    PROVE  Budgeted(m)'
<1>1. /\ Asked(m) \in {0, 1} /\ Asked(m)' \in {0, 1} /\ Asked(m)' <= Asked(m)
      /\ faults <= faults'
  BY AskedStep
<1>2. /\ IsFiniteSet(Waiting(m)) /\ IsFiniteSet(Callers(m)) /\ IsFiniteSet(Calls(m))
      /\ paid[m] \in Nat
  BY DEF Budgeted, RunTypeOK
<1>3. /\ Cardinality(Waiting(m)) \in Nat /\ IsFiniteSet(Waiting(m)')
      /\ Cardinality(Waiting(m)') \in Nat
      /\ Cardinality(Waiting(m)') <= Cardinality(Waiting(m))
  BY <1>2, SetSteps
<1>4. /\ Cardinality(Callers(m)) \in Nat /\ IsFiniteSet(Callers(m)')
      /\ Cardinality(Callers(m)') \in Nat
      /\ Cardinality(Callers(m)') <= Cardinality(Callers(m))
  BY <1>2, SetSteps
<1>5. /\ Cardinality(Calls(m)) \in Nat /\ IsFiniteSet(Calls(m)')
      /\ Cardinality(Calls(m)') \in Nat
      /\ Cardinality(Calls(m)') + 1 <= Cardinality(Calls(m))
  BY <1>2, SetSteps
<1>6. Attempts(m)' <= Attempts(m)
  BY <1>1, <1>3, <1>4 DEF Attempts
<1>7. paid'[m] + Cardinality(Calls(m)') <= paid[m] + Cardinality(Calls(m))
  BY <1>2, <1>5
<1> QED BY <1>1, <1>3, <1>4, <1>5, <1>6, <1>7, BudgetStep

\* Only the worker that moves may start, or stop, calling.
LEMMA MoverCalls ==
    ASSUME TypeOK, RunTypeOK, NEW w \in Workers, NEW m \in Messages,
           RunWork(w) \/ RunFaults(w) \/ Restarts(w)
    PROVE  /\ Callers(m)' \subseteq Callers(m) \cup {w}
           /\ \A c \in Calls(m)' : c \in Calls(m) \/ c[1] = w
           /\ ~(Holds(w, m) /\ Uncalled(w))' => Callers(m)' \subseteq Callers(m) \ {w}
           /\ Ahead(w)' = {} \/ ~Holds(w, m)' => Calls(m)' \subseteq Calls(m)
<1>1. ASSUME NEW v \in Workers, v # w
      PROVE  /\ Holds(v, m)' = Holds(v, m) /\ Uncalled(v)' = Uncalled(v)
             /\ Ahead(v)' = Ahead(v)
  <2>1. pc'[v] = pc[v] /\ job'[v] = job[v] /\ run'[v] = run[v]
    BY <1>1, OtherWorkers
  <2>2. Holds(v, m)' = Holds(v, m)
    BY <2>1 DEF Holds, MsgOf
  <2>3. Uncalled(v)' = Uncalled(v)
    BY <2>1 DEF Uncalled
  <2>4. Ahead(v)' = Ahead(v)
    BY <2>1 DEF Ahead
  <2> QED BY <2>2, <2>3, <2>4
<1>2. \A v \in Callers(m)' : v # w => v \in Callers(m)
  BY <1>1 DEF Callers
<1>3. \A c \in Calls(m)' : c \in Calls(m) \/ c[1] = w
  BY <1>1 DEF Calls
<1>4. w \in Callers(m)' => (Holds(w, m) /\ Uncalled(w))'
  BY DEF Callers
<1>5. \A c \in Calls(m)' : c[1] = w => Holds(w, m)' /\ c[2] \in Ahead(w)'
  BY DEF Calls
<1> QED BY <1>2, <1>3, <1>4, <1>5

\* Categories are those the model may answer.
LEMMA CategoryStep ==
    ASSUME TypeOK, RunTypeOK, [RunNext]_allVars, NEW v \in Workers,
           run[v].category \in Predicted \cup {Unknown}
    PROVE  run'[v].category \in Predicted \cup {Unknown}
<1> DEFINE Known(r) == r.category \in Predicted \cup {Unknown}
<1>0. run[v] \in Runs
  BY DEF RunTypeOK
<1>1. ASSUME NEW r, Known(r), Becomes(v, r) PROVE Known(run'[v])
  BY <1>1 DEF Becomes, RunTypeOK
<1>2. CASE run'[v] = run[v]
  BY <1>2
<1>3. ASSUME InsideStep(v) PROVE Known(run'[v])
  <2>1. PICK r : Becomes(v, r) /\ Continues(v, r)
    BY <1>3, InsideRuns
  <2>2. Known(r)
    BY <2>1 DEF Continues
  <2> QED BY <1>1, <2>1, <2>2
<1>4. ASSUME \/ ExtractTransient(v) \/ ExtractCut(v) \/ ExtractRejected(v)
             \/ GateCloses(v) \/ GateFails(v) \/ EnrichRejected(v) \/ SaveFails(v)
      PROVE  Known(run'[v])
  <2>1. PICK s, b, late : Leaves(v, s, b, late)
    BY <1>4 DEF ExtractTransient, ExtractCut, ExtractRejected, GateCloses,
       GateFails, EnrichRejected, SaveFails
  <2>2. Known([Idle EXCEPT !.step = s, !.rejected = b, !.rung = run[v].rung \/ late])
    BY DEF Idle
  <2> QED BY <1>1, <2>1, <2>2 DEF Leaves
<1>5. ASSUME SaveRun(v) PROVE Known(run'[v])
  <2>1. Known([Idle EXCEPT !.rung = run[v].rung])
    BY DEF Idle
  <2> QED BY <1>1, <1>5, <2>1 DEF SaveRun
<1>6. ASSUME Record(v) PROVE Known(run'[v])
  <2>1. Known([run[v] EXCEPT !.step = "none"])
    BY <1>0 DEF Runs
  <2> QED BY <1>1, <1>6, <2>1 DEF Record
<1>7. ASSUME Starts(v) \/ Ends(v) \/ Restarts(v) \/ (CrashLost(v) /\ Becomes(v, Idle))
      PROVE  Known(run'[v])
  <2>1. Known(Idle) /\ Known(Starting)
    BY DEF Idle, Starting
  <2>2. Becomes(v, Idle) \/ Becomes(v, Starting)
    BY <1>7 DEF Starts, Ends, Restarts
  <2> QED BY <1>1, <2>1, <2>2
<1>8. ASSUME RunWork(v) \/ RunFaults(v) \/ Restarts(v) PROVE Known(run'[v])
  <2>1. CASE UNCHANGED runVars
    BY <1>2, <2>1 DEF runVars
  <2> QED BY <1>3, <1>4, <1>5, <1>6, <1>7, <1>8, <2>1
          DEF RunWork, Pipeline, Handles, RunFaults, InsideStep
<1>9. ASSUME NEW w \in Workers, w # v, RunWork(w) \/ RunFaults(w) \/ Restarts(w)
      PROVE  Known(run'[v])
  BY <1>2, <1>9, OtherWorkers
<1>10. CASE Others \/ (\E m \in Messages : UserAct(m)) \/ UNCHANGED allVars
  BY <1>2, <1>10, OthersLeaveWorkers
<1> QED BY <1>8, <1>9, <1>10 DEF RunNext

\* The calls of a run pay from what its message has ahead.
LEMMA InsideBudget ==
    ASSUME TypeOK, RunTypeOK, TypeOK', RunTypeOK', OnlySubmitted, [RunNext]_allVars,
           Enough, PaidInv, NEW w \in Workers, InsideStep(w), RunWork(w),
           NEW m \in Messages
    PROVE  Budgeted(m)'
<1>0. /\ Budgeted(m) /\ run[w] \in Runs /\ run'[w] \in Runs
      /\ run'[w].category \in Predicted \cup {Unknown}
  BY CategoryStep DEF PaidInv, RunTypeOK
<1>1. pc[w] = "run" /\ UNCHANGED <<queue, pc, job>>
  BY DEF InsideStep, Normalize, Predict, Extracted, Unextracted, GatePasses, Enrich,
     At, Inside, vars, fleet
<1>2. Waiting(m)' \subseteq Waiting(m)
  BY <1>1 DEF Waiting
<1>3. Holds(w, m)' = Holds(w, m) /\ (Holds(w, m) <=> MsgOf(w) = m)
  BY <1>1 DEF Holds, MsgOf
<1>4. /\ Callers(m)' \subseteq Callers(m) \cup {w}
      /\ \A c \in Calls(m)' : c \in Calls(m) \/ c[1] = w
      /\ ~(Holds(w, m) /\ Uncalled(w))' => Callers(m)' \subseteq Callers(m) \ {w}
      /\ Ahead(w)' = {} \/ ~Holds(w, m)' => Calls(m)' \subseteq Calls(m)
  BY MoverCalls
<1>5. CASE ~Holds(w, m)
  <2>1. MsgOf(w) \in Messages /\ MsgOf(w) # m
    BY <1>1, <1>3, <1>5, HeldType
  <2>2. paid'[m] = paid[m]
    BY <2>1 DEF InsideStep, Normalize, Predict, Extracted, Unextracted, GatePasses,
       Enrich, Pay, RunTypeOK
  <2>3. Callers(m)' \subseteq Callers(m) /\ Calls(m)' \subseteq Calls(m)
    BY <1>3, <1>4, <1>5
  <2> QED BY <1>0, <1>2, <2>2, <2>3, BudgetKept
<1>6. CASE Holds(w, m) /\ (Normalize(w) \/ Predict(w))
  <2>1. run[w].step \in {"normalize", "predict"} /\ UNCHANGED paid
    BY <1>6 DEF Normalize, Predict, At
  <2>2. run'[w].step \in {"predict", "save", "extract"}
    <3>1. CASE Normalize(w)
      <4>1. PICK safe \in BOOLEAN, late \in BOOLEAN :
                Becomes(w, [run[w] EXCEPT !.step = IF safe THEN "predict" ELSE "save",
                                          !.rung = @ \/ late])
        BY <3>1, LateType DEF Normalize
      <4> QED BY <1>0, <4>1 DEF Becomes, RunTypeOK, Runs
    <3>2. CASE Predict(w)
      <4>1. CASE Becomes(w, [run[w] EXCEPT !.step = "extract"])
        BY <1>0, <4>1 DEF Becomes, RunTypeOK, Runs
      <4>2. ASSUME NEW c, NEW late,
                   Becomes(w, [run[w] EXCEPT !.step = "extract", !.ml = TRUE,
                                             !.category = c, !.rung = @ \/ late])
            PROVE  run'[w].step = "extract"
        BY <1>0, <4>2 DEF Becomes, RunTypeOK, Runs
      <4> QED BY <3>2, <4>1, <4>2 DEF Predict
    <3> QED BY <1>6, <3>1, <3>2
  <2>3. Ahead(w)' = {}
    BY <2>2 DEF Ahead
  <2>4. w \in Callers(m)
    BY <1>1, <1>6, <2>1 DEF Callers, Uncalled
  <2>5. Callers(m)' \subseteq Callers(m) /\ Calls(m)' \subseteq Calls(m)
    BY <1>4, <2>3, <2>4
  <2> QED BY <1>0, <1>2, <2>1, <2>5, BudgetKept
<1>7. CASE Holds(w, m) /\ (Extracted(w) \/ Unextracted(w))
  <2>1. run[w].step = "extract" /\ paid'[m] \in {paid[m], paid[m] + 1}
    BY <1>3, <1>7 DEF Extracted, Unextracted, At, Pay, RunTypeOK
  <2>2. run'[w].step = "gate"
    <3>1. CASE Extracted(w)
      <4>1. PICK d : Becomes(w, [run[w] EXCEPT !.step = "gate", !.llm = TRUE, !.details = d])
        BY <3>1 DEF Extracted
      <4> QED BY <1>0, <4>1 DEF Becomes, RunTypeOK, Runs
    <3>2. CASE Unextracted(w)
      BY <1>0, <3>2 DEF Unextracted, Becomes, RunTypeOK, Runs
    <3> QED BY <1>7, <3>1, <3>2
  <2> DEFINE E == Wanted(run'[w].category)
  <2>3. E \subseteq Enrichments
    BY DEF Wanted, Enrichments
  <2>4. IsFiniteSet(E) /\ Cardinality(E) < CallLimit
    <3>1. Cardinality(E) < CallLimit
      BY <1>0 DEF Enough
    <3>2. IsFiniteSet(Enrichments)
      BY FiveEnrichments
    <3> QED BY <2>3, <3>1, <3>2, FS_Subset
  <2>5. Ahead(w)' \subseteq E
    BY <2>2 DEF Ahead
  <2>6. ~Uncalled(w)'
    BY <1>1, <2>2 DEF Uncalled
  <2>7. w \in Callers(m)
    BY <1>1, <1>7, <2>1 DEF Callers, Uncalled
  <2> HIDE DEF E
  <2>8. Calls(m)' \subseteq Calls(m) \cup ({w} \X E)
    <3>1. ASSUME NEW c \in Calls(m)', c[1] = w PROVE c \in {w} \X E
      <4>1. c \in Workers \X Enrichments /\ c[2] \in Ahead(w)'
        BY <3>1 DEF Calls
      <4>2. c = <<c[1], c[2]>>
        BY <4>1
      <4> QED BY <2>5, <3>1, <4>1, <4>2
    <3> QED BY <1>4, <3>1
  <2>9. Callers(m)' \subseteq Callers(m) \ {w}
    BY <1>4, <2>6
  <2> QED BY <1>0, <1>2, <2>1, <2>4, <2>7, <2>8, <2>9, BudgetExtracted
<1>8. CASE Holds(w, m) /\ GatePasses(w)
  <2>1. run[w].step = "gate" /\ UNCHANGED paid
    BY <1>8 DEF GatePasses, At
  <2>2. \/ run'[w].step = "save"
        \/ /\ run'[w].step = "enrich" /\ run[w].llm
           /\ run'[w].todo = Wanted(run[w].category)
    <3>1. CASE Becomes(w, [run[w] EXCEPT !.step = "save"])
      BY <1>0, <3>1 DEF Becomes, RunTypeOK, Runs
    <3>2. CASE /\ run[w].llm
               /\ Becomes(w, [run[w] EXCEPT !.step = "enrich",
                                            !.todo = Wanted(run[w].category)])
      BY <1>0, <3>2 DEF Becomes, RunTypeOK, Runs
    <3> QED BY <1>8, <3>1, <3>2 DEF GatePasses
  <2>3. Ahead(w)' \subseteq Ahead(w)
    BY <1>1, <2>1, <2>2 DEF Ahead
  <2>4. ~Uncalled(w)'
    BY <1>1, <2>2 DEF Uncalled
  <2>5. Callers(m)' \subseteq Callers(m)
    BY <1>4, <2>4
  <2>6. Calls(m)' \subseteq Calls(m)
    <3>1. ASSUME NEW c \in Calls(m)', c[1] = w PROVE c \in Calls(m)
      BY <1>8, <2>3, <3>1 DEF Calls
    <3> QED BY <1>4, <3>1
  <2> QED BY <1>0, <1>2, <2>1, <2>5, <2>6, BudgetKept
<1>9. CASE Holds(w, m) /\ Enrich(w)
  <2>1. run[w].step = "enrich" /\ paid'[m] \in {paid[m], paid[m] + 1}
    BY <1>3, <1>9 DEF Enrich, At, Pay, RunTypeOK
  <2>2. PICK e \in run[w].todo :
            run'[w].step \in {"save", "enrich"} /\ run'[w].todo = run[w].todo \ {e}
    <3> DEFINE R(e, o, late) == [run[w] EXCEPT
                   !.step = IF run[w].todo \ {e} = {} THEN "save" ELSE "enrich",
                   !.todo = run[w].todo \ {e},
                   !.filled = IF o = "text" THEN @ \cup {e} ELSE @,
                   !.rung = @ \/ late]
    <3>1. PICK e \in run[w].todo, o \in {"text", "empty", "error"}, late \in BOOLEAN :
              Becomes(w, R(e, o, late))
      BY <1>9, LateType DEF Enrich
    <3>2. run'[w] = R(e, o, late)
      BY <3>1 DEF Becomes, RunTypeOK
    <3>3. /\ R(e, o, late).step \in {"save", "enrich"}
          /\ R(e, o, late).todo = run[w].todo \ {e}
      BY <1>0 DEF Runs
    <3> QED BY <3>2, <3>3
  <2>3. e \in Enrichments /\ e \in Ahead(w)
    BY <1>0, <1>1, <2>1 DEF Ahead, Runs
  <2>4. Ahead(w)' \subseteq Ahead(w) \ {e}
    BY <1>1, <2>1, <2>2 DEF Ahead
  <2>5. <<w, e>> \in Calls(m)
    BY <1>9, <2>3 DEF Calls
  <2>6. Calls(m)' \subseteq Calls(m) \ {<<w, e>>}
    <3>1. ASSUME NEW c \in Calls(m)', c[1] = w PROVE c \in Calls(m) /\ c # <<w, e>>
      BY <1>9, <2>4, <3>1 DEF Calls
    <3> QED BY <1>4, <3>1
  <2>7. ~Uncalled(w)'
    BY <1>1, <2>2 DEF Uncalled
  <2>8. Callers(m)' \subseteq Callers(m)
    BY <1>4, <2>7
  <2> QED BY <1>0, <1>2, <2>1, <2>5, <2>6, <2>8, BudgetCalled
<1> QED BY <1>5, <1>6, <1>7, <1>8, <1>9 DEF InsideStep

\* A retry publishes the worker's own task once more, for the same message.
LEMMA RetryTask ==
    ASSUME TypeOK, NEW w \in Workers, Retry(w)
    PROVE  \E t \in Tasks : Publish(t) /\ t.msg = MsgOf(w)
<1>1. job[w] \in Tasks /\ job[w].retries < MaxRetries
  BY DEF Retry, TypeOK
<1>2. job[w].msg \in Messages /\ job[w].retries \in 0..MaxRetries
  BY <1>1 DEF Tasks
<1>3. job[w].retries + 1 \in 0..MaxRetries
  BY <1>1, <1>2, ConstantsOK
<1>4. [job[w] EXCEPT !.retries = @ + 1]
        = [msg |-> MsgOf(w), retries |-> job[w].retries + 1]
  BY <1>1 DEF Tasks, MsgOf
<1> DEFINE t == [msg |-> MsgOf(w), retries |-> job[w].retries + 1]
<1>5. Publish(t)
  BY <1>4 DEF Retry
<1>6. t \in Tasks /\ t.msg = MsgOf(w)
  BY <1>2, <1>3 DEF Tasks, MsgOf
<1> HIDE DEF t
<1> QED BY <1>5, <1>6

\* A run that ends calls no more; its retry takes its place.
LEMMA EndBudget ==
    ASSUME TypeOK, RunTypeOK, TypeOK', RunTypeOK', OnlySubmitted, [RunNext]_allVars,
           PaidInv, NEW w \in Workers, RunWork(w),
           \/ ExtractTransient(w) \/ ExtractCut(w) \/ ExtractRejected(w)
           \/ GateCloses(w) \/ GateFails(w) \/ EnrichRejected(w)
           \/ SaveRun(w) \/ SaveFails(w),
           NEW m \in Messages
    PROVE  Budgeted(m)'
<1>0. Budgeted(m) /\ pc[w] = "run" /\ MsgOf(w) \in Messages /\ UNCHANGED <<job, paid>>
  <2>1. pc[w] = "run" /\ UNCHANGED <<job, paid>>
    BY DEF ExtractTransient, ExtractCut, ExtractRejected, GateCloses, GateFails,
       EnrichRejected, SaveRun, SaveFails, At, Retry, Fail, NothingToShow, Save
  <2> QED BY <2>1, HeldType DEF PaidInv
<1>1. pc'[w] \in {"goodwill", "ack", "markRead"}
  <2>1. Goto(w, "goodwill") \/ Goto(w, "ack") \/ Goto(w, "markRead")
    <3>1. NothingToShow(w) \/ Retry(w) \/ Fail(w) \/ Save(w)
      BY DEF ExtractTransient, ExtractCut, ExtractRejected, GateCloses, GateFails,
         EnrichRejected, SaveRun, SaveFails
    <3> QED BY <3>1 DEF NothingToShow, Retry, Fail, Save
  <2> QED BY <2>1 DEF Goto, TypeOK
<1>2. ~Uncalled(w)' /\ Ahead(w)' = {}
  BY <1>1 DEF Uncalled, Ahead
<1>3. Callers(m)' \subseteq Callers(m) \ {w} /\ Calls(m)' \subseteq Calls(m)
  BY <1>2, MoverCalls
<1>4. CASE UNCHANGED queue
  <2>1. Waiting(m)' \subseteq Waiting(m)
    BY <1>4 DEF Waiting
  <2> QED BY <1>0, <1>3, <2>1, BudgetKept
<1>5. CASE ExtractTransient(w) /\ Retry(w)
  <2>1. PICK t \in Tasks : Publish(t) /\ t.msg = MsgOf(w)
    BY <1>5, RetryTask
  <2>2. CASE MsgOf(w) # m
    <3>1. Waiting(m)' \subseteq Waiting(m)
      BY <2>1, <2>2, WaitingSteps
    <3> QED BY <1>0, <1>3, <3>1, BudgetKept
  <2>3. CASE MsgOf(w) = m
    <3>1. Waiting(m)' \subseteq Waiting(m) \cup {<<t, queue[t] + 1>>}
      BY <2>1, WaitingSteps
    <3>2. w \in Callers(m)
      BY <1>0, <1>5, <2>3 DEF ExtractTransient, At, Callers, Uncalled, Holds
    <3> QED BY <1>0, <1>3, <3>1, <3>2, BudgetHanded
  <2> QED BY <2>2, <2>3
<1> QED BY <1>4, <1>5 DEF ExtractTransient, ExtractCut, ExtractRejected, GateCloses,
        GateFails, EnrichRejected, SaveRun, SaveFails, NothingToShow, Fail, Save

\* The task around the pipeline: a delivery hands a copy over, a fault may copy
\* a task, and nobody else publishes.
LEMMA TaskBudget ==
    ASSUME TypeOK, RunTypeOK, TypeOK', RunTypeOK', OnlySubmitted, [RunNext]_allVars,
           PaidInv, NEW w \in Workers,
           \/ Starts(w) \/ Record(w) \/ Handles(w) \/ Ends(w)
           \/ RunFaults(w) \/ Restarts(w),
           NEW m \in Messages
    PROVE  Budgeted(m)'
<1>0. Budgeted(m) /\ UNCHANGED paid /\ run[w] \in Runs /\ Placed(w) /\ Placed(w)'
  BY DEF PaidInv, RunTypeOK, Starts, Record, Handles, Ends, RunFaults, Restarts, runVars
<1>1. /\ Callers(m)' \subseteq Callers(m) \cup {w}
      /\ ~(Holds(w, m) /\ Uncalled(w))' => Callers(m)' \subseteq Callers(m) \ {w}
      /\ Ahead(w)' = {} \/ ~Holds(w, m)' => Calls(m)' \subseteq Calls(m)
  <2>1. RunWork(w) \/ RunFaults(w) \/ Restarts(w)
    BY DEF RunWork
  <2> QED BY <2>1, MoverCalls
<1>2. ASSUME UNCHANGED queue, ~Uncalled(w)' \/ ~Holds(w, m)' \/ w \in Callers(m), Ahead(w)' = {}
      PROVE  Budgeted(m)'
  <2>1. Waiting(m)' \subseteq Waiting(m)
    BY <1>2 DEF Waiting
  <2>2. Callers(m)' \subseteq Callers(m) /\ Calls(m)' \subseteq Calls(m)
    BY <1>1, <1>2
  <2> QED BY <1>0, <2>1, <2>2, BudgetKept
<1>3. CASE Starts(w)
  <2>1. pc[w] \in {"guard", "flip"} /\ UNCHANGED <<queue, job>>
    BY <1>3 DEF Starts, Guard, Flip
  <2>2. run'[w].step \in {"normalize", "none"}
    <3>1. Starting.step = "normalize" /\ Idle.step = "none"
      BY DEF Starting, Idle
    <3> QED BY <1>3, <3>1 DEF Starts, Becomes, RunTypeOK
  <2>3. Ahead(w)' = {}
    BY <2>2 DEF Ahead
  <2>4. ~Holds(w, m)' \/ w \in Callers(m)
    BY <2>1 DEF Holds, MsgOf, Callers, Uncalled
  <2> QED BY <1>2, <2>1, <2>3, <2>4
<1>4. CASE Record(w) \/ WorkerMarkRead(w) \/ WorkerMarkWrite(w) \/ WorkerRefund(w)
           \/ WorkerGoodwill(w) \/ WorkerDbError(w) \/ Ends(w) \/ CrashLost(w)
  <2>1. /\ UNCHANGED queue
        /\ pc'[w] \in {"refund", "markWrite", "ack", "idle"}
    BY <1>4 DEF Record, WorkerMarkRead, WorkerMarkWrite, WorkerRefund, WorkerGoodwill,
       WorkerDbError, Ends, Ack, CrashLost, Release, Goto, TypeOK, vars, fleet
  <2>2. ~Uncalled(w)' /\ Ahead(w)' = {}
    BY <2>1 DEF Uncalled, Ahead
  <2> QED BY <1>2, <2>1, <2>2
<1>5. ASSUME NEW t \in Tasks, Deliver(w, t) PROVE Budgeted(m)'
  <2>1. /\ queue[t] > 0 /\ queue' = [queue EXCEPT ![t] = @ - 1]
        /\ pc'[w] = "guard" /\ job'[w] = t
    BY <1>5 DEF Deliver, Goto, TypeOK
  <2>2. Ahead(w)' = {}
    BY <2>1 DEF Ahead
  <2>3. CASE t.msg = m
    <3>1. /\ <<t, queue[t]>> \in Waiting(m)
          /\ Waiting(m)' \subseteq Waiting(m) \ {<<t, queue[t]>>}
      BY <2>1, <2>3, WaitingSteps
    <3> QED BY <1>0, <1>1, <2>2, <3>1, BudgetHanded
  <2>4. CASE t.msg # m
    <3>1. Waiting(m)' \subseteq Waiting(m)
      BY <2>1, WaitingSteps
    <3>2. ~Holds(w, m)'
      BY <2>1, <2>4 DEF Holds, MsgOf
    <3> QED BY <1>0, <1>1, <3>1, <3>2, BudgetKept
  <2> QED BY <2>3, <2>4
<1>6. CASE (Redeliver(w) /\ UNCHANGED runVars) \/ Restarts(w)
  <2>1. /\ pc[w] # "idle" /\ Publish(job[w]) /\ faults' = faults + 1 /\ job[w] \in Tasks
    BY <1>6 DEF Restarts, Redeliver, CrashRedelivered, Fault, TypeOK
  <2>2. Waiting(m)' \subseteq Waiting(m) \cup {<<job[w], queue[job[w]] + 1>>}
    BY <2>1, WaitingSteps
  <2>3. Callers(m)' \subseteq Callers(m) /\ Calls(m)' \subseteq Calls(m)
    <3>1. CASE Redeliver(w) /\ UNCHANGED runVars
      BY <3>1 DEF Redeliver, runVars, Callers, Calls, Holds, MsgOf, Uncalled, Ahead
    <3>2. CASE Restarts(w)
      <4>1. pc'[w] = "idle"
        BY <3>2 DEF Restarts, CrashRedelivered, Release, Goto, TypeOK
      <4>2. ~Uncalled(w)' /\ Ahead(w)' = {}
        BY <4>1 DEF Uncalled, Ahead
      <4> QED BY <1>1, <4>2
    <3> QED BY <1>6, <3>1, <3>2
  <2> QED BY <1>0, <2>1, <2>2, <2>3, BudgetCopied
<1> QED BY <1>3, <1>4, <1>5, <1>6 DEF Handles, RunFaults

\* The submission publishes what it was for.
LEMMA OthersBudget ==
    ASSUME TypeOK, RunTypeOK, TypeOK', RunTypeOK', OnlySubmitted, [RunNext]_allVars,
           PaidInv, Others \/ (\E n \in Messages : UserAct(n)) \/ UNCHANGED allVars,
           NEW m \in Messages
    PROVE  Budgeted(m)'
<1>0. Budgeted(m) /\ UNCHANGED paid
  BY DEF PaidInv, Others, UserAct, allVars, runVars
<1>1. Callers(m)' \subseteq Callers(m) /\ Calls(m)' \subseteq Calls(m)
  <2>1. UNCHANGED <<pc, job, run>>
    BY OthersLeaveWorkers
  <2> QED BY <2>1 DEF Callers, Calls, Holds, MsgOf, Uncalled, Ahead
<1>2. ASSUME NEW n \in Messages, Enqueue(n) \/ EnqueueUnsure(n) PROVE Budgeted(m)'
  <2>1. /\ Publish(FirstTry(n)) /\ FirstTry(n) \in Tasks /\ FirstTry(n).msg = n
    BY <1>2, FirstTryType DEF Enqueue, EnqueueUnsure, FirstTry
  <2>2. CASE n # m
    <3>1. Waiting(m)' \subseteq Waiting(m)
      BY <2>1, <2>2, WaitingSteps
    <3> QED BY <1>0, <1>1, <3>1, BudgetKept
  <2>3. CASE n = m
    <3>1. Waiting(m)' \subseteq Waiting(m) \cup {<<FirstTry(n), queue[FirstTry(n)] + 1>>}
      BY <2>1, WaitingSteps
    <3>2. /\ route[m] = "publish" /\ route'[m] # "publish" /\ status[m] # "absent"
          /\ UNCHANGED status
      BY <1>2, <2>3 DEF Enqueue, EnqueueUnsure, OnlySubmitted, TypeOK, rows
    <3>3. Asked(m)' < Asked(m)
      BY <3>2 DEF Asked
    <3> QED BY <1>0, <1>1, <3>1, <3>3, BudgetHanded
  <2> QED BY <2>2, <2>3
<1>3. ASSUME NEW t \in Tasks, BrokerLoses(t) PROVE Budgeted(m)'
  <2>1. queue[t] > 0 /\ queue' = [queue EXCEPT ![t] = @ - 1]
    BY <1>3 DEF BrokerLoses
  <2>2. Waiting(m)' \subseteq Waiting(m)
    BY <2>1, WaitingSteps
  <2> QED BY <1>0, <1>1, <2>2, BudgetKept
<1>4. CASE UNCHANGED queue
  <2>1. Waiting(m)' \subseteq Waiting(m)
    BY <1>4 DEF Waiting
  <2> QED BY <1>0, <1>1, <2>1, BudgetKept
<1>5. \/ UNCHANGED queue
      \/ \E n \in Messages : Enqueue(n) \/ EnqueueUnsure(n)
      \/ \E t \in Tasks : BrokerLoses(t)
  BY DEF Others, UserAct, allVars, vars, fleet, User, Submit,
     ArchiveRead, UnarchiveRead, EditCommit, EditNote, Delete, Web,
     EnqueueFails, RouteMarkRead, RouteMarkWrite, RouteRefund,
     Age, RouteCrash, RouteDbError, Sweep, SweepSelect, SweepUpdate,
     SweepRefund, SweepCrash
<1> QED BY <1>2, <1>3, <1>4, <1>5

LEMMA NextPaid ==
    TypeOK /\ TypeOK' /\ RunTypeOK /\ RunTypeOK' /\ OnlySubmitted /\ Enough /\ PaidInv
        /\ [RunNext]_allVars => PaidInv'
<1> SUFFICES ASSUME TypeOK, TypeOK', RunTypeOK, RunTypeOK', OnlySubmitted, Enough,
                    PaidInv, [RunNext]_allVars
             PROVE  PaidInv'
  OBVIOUS
<1>1. \A w \in Workers : run'[w].category \in Predicted \cup {Unknown}
  BY CategoryStep DEF PaidInv
<1>2. ASSUME NEW m \in Messages PROVE Budgeted(m)'
  <2>1. ASSUME NEW w \in Workers, RunWork(w) PROVE Budgeted(m)'
    BY <2>1, InsideBudget, EndBudget, TaskBudget DEF RunWork, Pipeline, InsideStep
  <2>2. ASSUME NEW w \in Workers, RunFaults(w) \/ Restarts(w) PROVE Budgeted(m)'
    BY <2>2, TaskBudget
  <2> QED BY <2>1, <2>2, OthersBudget DEF RunNext
<1> QED BY <1>1, <1>2 DEF PaidInv

LEMMA InitPaid == RunInit => PaidInv
<1> SUFFICES ASSUME RunInit PROVE PaidInv
  OBVIOUS
<1>1. ASSUME NEW m \in Messages PROVE Budgeted(m)
  <2>1. Waiting(m) = {} /\ Callers(m) = {} /\ Calls(m) = {}
    BY DEF RunInit, Init, Waiting, Callers, Calls, Holds
  <2>2. IsFiniteSet({}) /\ Cardinality({}) = 0
    BY FS_EmptySet
  <2>3. Asked(m) = 1 /\ paid[m] = 0 /\ faults = 0
    BY DEF RunInit, Init, Asked
  <2>4. Attempts(m) = 1 /\ Cardinality(Calls(m)) = 0
    BY <2>1, <2>2, <2>3 DEF Attempts
  <2>5. paid[m] + CallLimit * Attempts(m) + Cardinality(Calls(m)) <= CallLimit * (1 + faults)
    BY <2>3, <2>4, RunConstantsOK
  <2> QED BY <2>1, <2>2, <2>5 DEF Budgeted
<1>2. ASSUME NEW w \in Workers PROVE run[w].category \in Predicted \cup {Unknown}
  BY DEF RunInit, Idle
<1> QED BY <1>1, <1>2 DEF PaidInv

LEMMA PaidImplies == TypeOK /\ RunTypeOK /\ PaidInv => PaidOnce
<1> SUFFICES ASSUME TypeOK, RunTypeOK, PaidInv, NEW m \in Messages
             PROVE  paid[m] <= CallLimit * (1 + faults)
  BY DEF PaidOnce
<1>1. /\ Budgeted(m) /\ paid[m] \in Nat /\ faults \in Nat /\ CallLimit \in Nat
  BY RunConstantsOK, ConstantsOK DEF PaidInv, RunTypeOK, TypeOK
<1>2. /\ Cardinality(Waiting(m)) \in Nat /\ Cardinality(Callers(m)) \in Nat
      /\ Cardinality(Calls(m)) \in Nat /\ Asked(m) \in Nat
  BY <1>1, FS_CardinalityType DEF Budgeted, Asked
<1>3. Attempts(m) \in Nat
  BY <1>2 DEF Attempts
<1>4. \A a, b \in Nat : a * b \in Nat
  OBVIOUS
<1>5. CallLimit * Attempts(m) \in Nat /\ CallLimit * (1 + faults) \in Nat
  BY <1>1, <1>3, <1>4
<1> QED BY <1>1, <1>2, <1>5 DEF Budgeted

\* "6 paid LLM calls": however often a message is retried, deleted or
\* redelivered, and whichever run the soft limit cuts, the provider is paid for
\* one analysis and for one more per fault, where the limit is enough for one.
THEOREM PaidForOnce ==
    ASSUME Enough
    PROVE  RunSpec => []PaidOnce
<1>1. RunSpec => [](TypeOK /\ OnlySubmitted)
  BY PipelineKeepsContract, TypeCorrect, SubmittedInvariant, PTL DEF KeepsContract
<1>2. TypeOK /\ TypeOK' /\ RunTypeOK /\ RunTypeOK' /\ OnlySubmitted /\ PaidInv
          /\ [RunNext]_allVars => PaidInv'
  BY Enough, NextPaid
<1>3. RunSpec => []PaidInv
  BY <1>1, <1>2, InitPaid, RunTypeCorrect, PTL DEF RunSpec
<1> QED BY <1>1, <1>3, PaidImplies, RunTypeCorrect, PTL

=============================================================================

---------------------------- MODULE MCAnalysisRun ----------------------------
(* Constants of the model-checking runs of AnalysisRun. *)
EXTENDS AnalysisRun, TLC

CONSTANTS u1, m1, m2

OneUser == [m \in Messages |-> u1]
=============================================================================

--------------------------- MODULE MCAnalysisPage ---------------------------
(* Constants of the model-checking runs of AnalysisPage. *)
EXTENDS AnalysisPage, TLC

CONSTANTS u1, m1, m2

OneUser == [m \in Messages |-> u1]
=============================================================================

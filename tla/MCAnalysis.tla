----------------------------- MODULE MCAnalysis -----------------------------
(* Constants of the model-checking runs of Analysis. *)
EXTENDS Analysis, TLC

CONSTANTS u1, m1, m2

OneUser == [m \in Messages |-> u1]

Symmetry == Permutations(Messages) \cup Permutations(Workers)
=============================================================================

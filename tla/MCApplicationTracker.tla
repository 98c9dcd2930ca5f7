------------------------ MODULE MCApplicationTracker ------------------------
(* Constants of the model-checking runs of ApplicationTracker. *)
EXTENDS ApplicationTracker, TLC

CONSTANTS sender

\* Two roles at one company: the other role still scores for the company.
SameCompany == [e \in Names |-> [n \in Names |-> IF e = n THEN 4 ELSE 2]]

OneSender == [m \in Messages |-> sender]

Symmetry == Permutations(Messages) \cup Permutations(Workers)
            \cup Permutations(Apps) \cup Permutations(Names)
=============================================================================

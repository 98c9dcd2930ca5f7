------------------------- MODULE MCNotificationPage -------------------------
(* Constants of the model-checking runs of NotificationPage. *)
EXTENDS NotificationPage, TLC

\* Notifications 1 and 2 share a created_at; 3 was stamped before them.
Stamps == [i \in Ids |-> IF i = 3 THEN 1 ELSE 2]

Symmetry == Permutations(Calls)
=============================================================================

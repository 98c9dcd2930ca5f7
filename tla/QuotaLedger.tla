---------------------------- MODULE QuotaLedger ----------------------------
(***************************************************************************)
(* What the lifetime quota of app/services/quota_service.py promises,      *)
(* without the counters that implement it.  Every message owns one slot:   *)
(* it is taken when the message is submitted, and it may be given back     *)
(* once.  A user never holds more than Allowance slots, and at most Cap of *)
(* his slots ever come back through the "nothing to show" budget.          *)
(***************************************************************************)
EXTENDS Naturals, FiniteSets

CONSTANTS Messages,   \* message ids
          Users,      \* user ids
          Owner,      \* the submitting user of every message
          Allowance,  \* ANALYSIS_LIFETIME_QUOTA
          Cap         \* NOTHING_TO_SHOW_REFUND_CAP

VARIABLES slot,       \* per message: "none", "spent" or "returned"
          goodwill    \* per user: slots returned out of the capped budget

vars == <<slot, goodwill>>

\* The slots user u holds: what users.analyses_used counts.
Held(u) == {m \in Messages : Owner[m] = u /\ slot[m] = "spent"}

Init == /\ slot = [m \in Messages |-> "none"]
        /\ goodwill = [u \in Users |-> 0]

\* consume_and_create_message: a free slot is taken by a new message.
Take(m) == /\ slot[m] = "none"
           /\ Cardinality(Held(Owner[m])) < Allowance
           /\ slot' = [slot EXCEPT ![m] = "spent"]
           /\ UNCHANGED goodwill

\* refund_analysis: the slot of a failed analysis comes back, once.
GiveBack(m) == /\ slot[m] = "spent"
               /\ slot' = [slot EXCEPT ![m] = "returned"]
               /\ UNCHANGED goodwill

\* refund_nothing_to_show: the same, paid for from the capped budget.
GiveBackCapped(m) == /\ slot[m] = "spent"
                     /\ goodwill[Owner[m]] < Cap
                     /\ slot' = [slot EXCEPT ![m] = "returned"]
                     /\ goodwill' = [goodwill EXCEPT ![Owner[m]] = @ + 1]

Next == \E m \in Messages : Take(m) \/ GiveBack(m) \/ GiveBackCapped(m)

Spec == Init /\ [][Next]_vars
=============================================================================

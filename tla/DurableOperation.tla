-------------------------- MODULE DurableOperation --------------------------
(***************************************************************************)
(* What ADR 0012 promises of a durable operation: it is opened once, and   *)
(* the first committed terminal state wins.  That one step publishes the   *)
(* result, if there is one, and emits the one event that announces it.     *)
(* Deliveries, leases, attempts and crashes do not show.                   *)
(***************************************************************************)
VARIABLES
    outcome,  \* absent, open, or the terminal state
    result,   \* a validated result is published
    events    \* terminal events emitted

Init == outcome = "absent" /\ result = FALSE /\ events = {}

Open ==
    /\ outcome = "absent" /\ outcome' = "open"
    /\ UNCHANGED <<result, events>>

Succeed ==
    /\ outcome = "open" /\ outcome' = "succeeded"
    /\ result' = TRUE /\ events' = {"generated"}

GiveUp ==
    /\ outcome = "open" /\ outcome' \in {"failed_permanent", "expired"}
    /\ events' = {"failed"} /\ UNCHANGED result

Next == Open \/ Succeed \/ GiveUp

Spec == Init /\ [][Next]_<<outcome, result, events>>
=============================================================================

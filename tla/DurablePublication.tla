------------------------- MODULE DurablePublication -------------------------
(***************************************************************************)
(* What the transactional outbox promises, without leases, batches,        *)
(* processes or failures: a committed message is handed to the broker any  *)
(* number of times, and it is retired only once the broker has accepted    *)
(* it.  A message that was never committed is never published.             *)
(***************************************************************************)
EXTENDS Naturals

CONSTANT Messages

VARIABLES
    row,    \* row[m]: absent, pending or published
    copies  \* copies[m]: how often the broker accepted m

Init ==
    /\ row = [m \in Messages |-> "absent"]
    /\ copies = [m \in Messages |-> 0]

Commit(m) ==
    /\ row[m] = "absent"
    /\ row' = [row EXCEPT ![m] = "pending"]
    /\ UNCHANGED copies

(* Several sends of one process can reach the broker together. *)
Accept(S) ==
    /\ \A m \in S : row[m] # "absent"
    /\ copies' = [m \in Messages |-> IF m \in S THEN copies[m] + 1 ELSE copies[m]]
    /\ UNCHANGED row

Retire(m) ==
    /\ row[m] = "pending" /\ copies[m] > 0
    /\ row' = [row EXCEPT ![m] = "published"]
    /\ UNCHANGED copies

Next ==
    \/ \E m \in Messages : Commit(m) \/ Retire(m)
    \/ \E S \in SUBSET Messages : Accept(S)

Spec == Init /\ [][Next]_<<row, copies>>
=============================================================================

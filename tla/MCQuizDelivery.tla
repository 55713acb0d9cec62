--------------------------- MODULE MCQuizDelivery ---------------------------
(* Small instances of QuizDelivery. *)
EXTENDS QuizDelivery, TLC

Symmetry == Permutations(Calls) \cup Permutations(Responders) \cup Permutations(Answers)
            \cup Permutations(Keys) \cup Permutations(Schedules)

\* Bound: everything may reach its own bound, not all at once.
CONSTANT Budget
Spent ==
    Cardinality({c \in Calls : call[c].pc \notin {"idle", "over"}})
    + Cardinality({r \in Responders : responder[r].pc # "idle"})
    + Cardinality({d \in Deliveries : delivery[d].status # None})
    + Cardinality(UNION {delivery[d].items : d \in Deliveries})
    + Cardinality({u \in Updates : update[u] # NoUpdate})
    + (IF page = NoPage THEN 0 ELSE 2)
    + 2 * now + 2 * refell
WithinBudget == Spent <= Budget
=============================================================================

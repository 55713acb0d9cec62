---------------------------- MODULE MCTutorLoop -----------------------------
(* One concept with an original lesson and four questions, three generated *)
(* texts of which two share a strategy; two tabs and two questions to the  *)
(* tutor.  Mastery is the number of correct answers less the wrong ones.   *)
EXTENDS TutorLoop, TLC

CONSTANTS MaxAttempts

MCOrder == [c1 |-> 1, c2 |-> 2]
MCQuestions == [c1 |-> 3, c2 |-> 1]
MCStrategy == [o1 |-> "analogy", l1 |-> "example", l2 |-> "example", l3 |-> "analogy"]
MCOriginal == [c1 |-> "o1", c2 |-> Null]
MCSimilar == {{"l1", "l3"}}
MCMasteryAfter(bands) ==
    LET right == Cardinality({i \in DOMAIN bands : bands[i] = "correct"}) IN
    2 * right - Len(bands)

(* At most one attempt elsewhere; the tutor is asked before any attempt. *)
WithinBudget ==
    /\ \A c \in Concepts :
         /\ Len(attempts[c]) <= MaxAttempts
         /\ Cardinality({i \in 1..Len(attempts[c]) : ~attempts[c][i].here}) <= 1
    /\ (\E r \in Asks : phase[r] # "idle" \/ reply[r].kind # "none") =>
          \A c \in Concepts : attempts[c] = <<>>
MCSymmetry == Permutations(Tabs) \cup Permutations(Asks)
=============================================================================

------------------------------ MODULE MCStudy -------------------------------
(***************************************************************************)
(* Studying: the session and its placement quiz in the database, driven by *)
(* tabs, and the page that a learner sees, driven by any answers the API   *)
(* can give.  A behaviour is one of the first, or one of the second.       *)
(***************************************************************************)
EXTENDS StudySession

CONSTANT Slots

(* Question i is linked to concept i. *)
MCConceptOf == [i \in 1..Total |-> i]

VARIABLES view, flow, crossed
VARIABLE part  \* the part whose behaviour this is

viewVars == <<view, flow, crossed>>

Page == INSTANCE StudyPage WITH page <- view

(* The name of nothing is no value of the page. *)
ASSUME PageAssumption ==
    /\ None \notin Page!Learners \cup Page!Background
    /\ None \notin {"retest", "other", "question", "graded", "abstained", "short_answer", "replacement"}

MCInit == part \in {"session", "page"} /\ Init /\ Page!Init

MCNext ==
    \/ part = "session" /\ Next /\ UNCHANGED <<part, viewVars>>
    \/ part = "page" /\ Page!Next /\ UNCHANGED <<part, vars>>

MCSpec ==
    /\ MCInit /\ [][MCNext]_<<part, vars, viewVars>>
    /\ part = "session" => Fairness

(* A result that is shown is stored, and the learner who goes on is told   *)
(* in the end that the placement quiz is complete (StudySession).          *)
PlacementTold == ToldIsStored /\ (part = "session" => PlacementEnds)

(* StudyPage: a spinner is awaited, however responses cross, and where none *)
(* crossed a page that awaits nothing shows something.                      *)
PageSound == Page!PageSound
=============================================================================

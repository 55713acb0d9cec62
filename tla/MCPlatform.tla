----------------------------- MODULE MCPlatform -----------------------------
(***************************************************************************)
(* Requests to the API.  A behaviour is one of four: requests that sign in *)
(* and out of one account and overlap in the database; two requests to any *)
(* routes; the grading of a session's answers, whose routes a study page   *)
(* calls; or the reading of the progress of a course.                      *)
(*                                                                         *)
(* Grading: two questions on shared concepts, one of them with a single    *)
(* concept; four commands, two of which use one key for different answers. *)
(***************************************************************************)
EXTENDS ApiServer

CONSTANTS Keys, Concepts, Questions, ConceptsOf, Pool, Generated, Commands, MaxRetries,
          Readers, Scale, Objectives, WeightOf, Numbers, MappingSets, Masteries, Calibrations,
          MaxGenerations, MaxChanges, Null

VARIABLES op, token, lease, digest, snapshot, asked, final, bundle, mastery,
          await, cmd, grade, view, left, tries, reply
VARIABLES active, blueprint, published, knowledge, calibration, reader, scores, changes
VARIABLE part  \* the part whose behaviour this is

gradingVars == <<op, token, lease, digest, snapshot, asked, final, bundle, mastery,
                 await, cmd, grade, view, left, tries, reply>>
progressVars == <<active, blueprint, published, knowledge, calibration, reader, scores, changes>>

MCQuestions == {"q1", "q2"}
MCConceptsOf == [q1 |-> {"c1", "c2"}, q2 |-> {"c1"}]
MCPool == [c1 |-> {"p1"}, c2 |-> {"p2"}]
MCGenerated == [q1 |-> "g1", q2 |-> "g2"]

Short(k, q, a) == [kind |-> "short", key |-> k, question |-> q, answer |-> a]
MCCommands ==
    {Short("k1", "q1", "a1"), Short("k1", "q1", "a2"), Short("k2", "q2", "a1"),
     [kind |-> "replacement", key |-> "k2", of |-> "k1", concept |-> "c1", answer |-> "a1"]}

(* Progress: two objectives of the exam, whose concepts are mapped in one  *)
(* of two ways.                                                            *)
MCWeights == [o1 |-> 6, o2 |-> 4]
MCMappings == {[o1 |-> <<10, 0>>, o2 |-> <<3, 7>>], [o1 |-> <<10, 0>>, o2 |-> <<8, 2>>]}
MCCalibrations == {[representative |-> TRUE, sample |-> 100, error |-> 1],
                   [representative |-> TRUE, sample |-> 99, error |-> 1]}

Grading == INSTANCE ShortAnswerGrading WITH phase <- await, None <- Null
Progress == INSTANCE CourseProgress WITH None <- Null

ASSUME GradingBounds ==
    /\ \A q \in Questions : ConceptsOf[q] \subseteq Concepts /\ ConceptsOf[q] # {}
    /\ \A q \in Questions : Generated[q] \notin Questions
    /\ \A c \in Concepts : Pool[c] \cap Questions = {}
    /\ \A m \in Commands :
         /\ m.key \in Keys
         /\ IF m.kind = "short" THEN m.question \in Questions
            ELSE m.of \in Keys /\ m.concept \in Concepts
    /\ MaxRetries \in Nat
    /\ Null \notin Grading!Prompts \cup Keys \cup Requests

PlatformInit ==
    /\ part \in {"accounts", "routes", "grading", "progress"}
    /\ ServerInit /\ Grading!Init /\ Progress!Init
    /\ part # "progress" => blueprint /\ knowledge[<<1, 1>>].current

\* Bound: two requests to any routes, and no time between them.
AllRoutes == DOMAIN Needed \cup Signing \cup AtOnce
TwoRequests == Cardinality({p \in Requests : phase[p] # "free"}) < 2

PlatformNext ==
    \/ part = "accounts" /\ Next /\ UNCHANGED <<part, gradingVars, progressVars>>
    \/ part = "routes" /\ (Work \/ (TwoRequests /\ Arrive(AllRoutes)))
         /\ UNCHANGED <<part, gradingVars, progressVars>>
    \/ part = "grading" /\ Grading!Next /\ UNCHANGED <<part, vars, progressVars>>
    \/ part = "progress" /\ Progress!Next /\ UNCHANGED <<part, vars, gradingVars>>

PlatformSpec == PlatformInit /\ [][PlatformNext]_<<part, vars, gradingVars, progressVars>>

Symmetry == Permutations(Requests)

(* ShortAnswerGrading: what was told is stored, projected, and asked once. *)
GradesSound == Grading!GradesSound

(* CourseProgress: scores rest on enough evidence and are stored once. *)
ScoresSound == Progress!ScoresSound
=============================================================================

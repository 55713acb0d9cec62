--------------------------- MODULE CourseProgress ---------------------------
(***************************************************************************)
(* The progress of a course as PostgresAccountRepository reads it          *)
(* (getCourseProgress, packages/db/src/index.ts) and the readiness for an  *)
(* exam that is computed from it (evaluateExamReadiness,                   *)
(* packages/accounts/src/readiness.ts) and stored.  The read is one        *)
(* transaction at READ COMMITTED: each statement sees what was committed   *)
(* before it, so curricula are activated, mappings reviewed and answers    *)
(* graded between them.  A fixed-point number is a whole number of units   *)
(* of which Scale are one.                                                 *)
(***************************************************************************)
EXTENDS Integers, FiniteSets, Sequences, FiniteSetsExt

CONSTANTS
  Readers,       \* requests for the progress
  Scale,         \* FIXED_SCALE
  Objectives,    \* the objectives of the exam blueprint
  WeightOf,      \* their weights: they sum to Scale
  Numbers,       \* a generation has the concepts <<generation, number>>
  MappingSets,   \* what reviewers map: [objective -> [number -> weight]]
  Masteries,     \* masteries that grading can reach
  Calibrations,  \* calibrations that can be frozen
  MaxGenerations, MaxChanges, \* bounds on activations and on all changes
  None

VARIABLES
  active,       \* course.active_curriculum_generation_id
  blueprint,    \* has the course a target blueprint?
  published,    \* exam_readiness_mapping_set, oldest first
  knowledge,    \* knowledge_state of the learner
  calibration,  \* the newest exam_readiness_calibration
  reader,       \* where each request is, with what it has read
  scores,       \* exam_readiness_score: <<request, input_snapshot, score>>
  changes       \* changes so far

vars == <<active, blueprint, published, knowledge, calibration, reader, scores, changes>>

Generations == 1..MaxGenerations
CourseConcepts == Generations \X Numbers
Unknown == [mastery |-> None, outcomes |-> 0, current |-> TRUE]

NotReading == [at |-> "idle", generation |-> 0, shown |-> 0, set |-> None, rows |-> None,
               readiness |-> None, mapped |-> {}]
(* A course of which some concepts were answered twice, some once. *)
Init ==
    /\ active = 1 /\ blueprint \in BOOLEAN /\ published = <<>> /\ calibration = None
    /\ \E old \in BOOLEAN : knowledge = [c \in CourseConcepts |->
          IF c[1] = 1 THEN [mastery |-> Scale, outcomes |-> IF c[2] = 1 THEN 2 ELSE 1, current |-> ~old] ELSE Unknown]
    /\ reader = [r \in Readers |-> NotReading] /\ scores = {} /\ changes = 0

----------------------------------------------------------------------------
(* evaluateExamReadiness.  A mapping row is a mapping with the knowledge  *)
(* of its concept; the rows of other generations are not active.          *)
RoundedUp(n, d) == (n \div d) + 1
Rounded(n, d) == (n \div d) + (IF (n % d) * 2 >= d THEN 1 ELSE 0)
Weight(rows) == MapThenSumSet(LAMBDA row : row.weight, rows)
EnoughOne == 1
Enough == 2
EligibleRows(rows) == {row \in rows : row.outcomes >= Enough /\ row.mastery # None /\ row.current}
MinimumHalf == (Scale * 5) \div 10
Minimum == (Scale * 8) \div 10

ActiveRows(rows, generation, o) == {row \in rows : row.objective = o /\ row.generation = generation}
Coverage(rows, generation) ==
    MapThenSumSet(LAMBDA o : WeightOf[o] * Weight(EligibleRows(ActiveRows(rows, generation, o))), Objectives)
Reasons(rows, generation) ==
    {reason \in {"objective_mapping_incomplete", "objective_evidence_missing", "evidence_coverage_insufficient"} :
       CASE reason = "objective_mapping_incomplete" ->
              \E o \in Objectives : Weight(ActiveRows(rows, generation, o)) # Scale
         [] reason = "objective_evidence_missing" ->
              \E o \in Objectives : Weight(EligibleRows(ActiveRows(rows, generation, o))) = 0
         [] OTHER -> Coverage(rows, generation) < Minimum * Scale}
DivisorActive(rows, generation, o) == Weight(ActiveRows(rows, generation, o))
Divisor(rows, generation, o) == Weight(EligibleRows(ActiveRows(rows, generation, o)))
ObjectiveScore(rows, generation, o) ==
    Rounded(MapThenSumSet(LAMBDA row : row.weight * row.mastery, EligibleRows(ActiveRows(rows, generation, o))),
            Divisor(rows, generation, o))
Score(rows, generation) ==
    Rounded(MapThenSumSet(LAMBDA o : WeightOf[o] * ObjectiveScore(rows, generation, o), Objectives), Scale)

(* calibrationDisclosure *)
Adequate(c) == c # None /\ c.representative /\ c.sample >= 100 /\ c.error <= Scale \div 10

(* Of the course's concepts, those without an active mapping. *)
Unmapped(rows, generation, concepts) ==
    Cardinality(concepts \ {row.concept : row \in {old \in rows : old.generation = generation}})

Unavailable(reasons, unmapped) ==
    [status |-> "unavailable", reasons |-> reasons, score |-> None, experimental |-> TRUE, unmapped |-> unmapped]
Evaluate(has, set, rows, generation, concepts, c) ==
    LET unmapped == Unmapped(rows, generation, concepts)
    IN  IF ~has THEN Unavailable({"blueprint_missing"}, unmapped)
        ELSE IF set = None THEN Unavailable({"reviewed_mappings_unavailable"}, unmapped)
        ELSE IF Reasons(rows, generation) # {} THEN Unavailable(Reasons(rows, generation), unmapped)
        ELSE [status |-> "eligible", reasons |-> {}, score |-> Score(rows, generation),
              experimental |-> ~Adequate(c), unmapped |-> unmapped]

----------------------------------------------------------------------------
(* getCourseProgress: the course ... *)
worldVars == <<active, blueprint, published, knowledge, calibration, changes>>
ReadCourse(r) ==
    /\ reader[r].at = "idle"
    /\ reader' = [reader EXCEPT ![r].at = "concepts", ![r].generation = active]
    /\ UNCHANGED <<worldVars, scores>>

(* ... its concepts, of the generation that is active by then, ... *)
ReadConcepts(r) ==
    /\ reader[r].at = "concepts"
    /\ reader' = [reader EXCEPT ![r].at = "set", ![r].shown = active]
    /\ UNCHANGED <<worldVars, scores>>

(* ... the newest mapping set of the blueprint, ... *)
Newest == IF blueprint /\ published # <<>> THEN Len(published) ELSE None
ReadMappingSet(r) ==
    /\ reader[r].at = "set"
    /\ reader' = [reader EXCEPT ![r].at = "rows", ![r].set = Newest]
    /\ UNCHANGED <<worldVars, scores>>

(* ... its mappings with what is known of their concepts, ... *)
RowsOf(set) ==
    {[objective |-> p[1], concept |-> <<set.generation, p[2]>>, generation |-> set.generation,
      weight |-> set.weights[p[1]][p[2]],
      mastery |-> knowledge[<<set.generation, p[2]>>].mastery,
      outcomes |-> knowledge[<<set.generation, p[2]>>].outcomes,
      current |-> knowledge[<<set.generation, p[2]>>].current] :
        p \in {q \in Objectives \X Numbers : set.weights[q[1]][q[2]] > 0}}
ReadMappings(r) ==
    /\ reader[r].at = "rows"
    /\ reader' = [reader EXCEPT ![r].at = "calibration",
          ![r].rows = IF reader[r].set = None THEN {} ELSE RowsOf(published[reader[r].set])]
    /\ UNCHANGED <<worldVars, scores>>

(* The concepts of the answer: those of the generation its second         *)
(* statement saw, which need not be the generation its first one saw.     *)
ConceptsShown(r) == {reader[r].shown} \X Numbers

(* ... and the calibration: a score is stored with what it was computed   *)
(* from and what came out, once for both (persistExamReadinessScore).     *)
Snapshot(r, readiness) ==
    [generation |-> reader[r].generation, set |-> reader[r].set, rows |-> reader[r].rows,
     calibration |-> calibration, readiness |-> readiness]
Known(snapshot) == \E s \in scores : s[2] = snapshot
Evaluated(r) ==
    LET readiness == Evaluate(blueprint, reader[r].set, reader[r].rows, reader[r].generation,
                              ConceptsShown(r), calibration)
        snapshot == Snapshot(r, readiness)
    IN /\ reader[r].at = "calibration"
       /\ reader' = [reader EXCEPT ![r].at = "mapped", ![r].readiness = readiness]
       /\ scores' = IF readiness.status = "eligible" /\ ~Known(snapshot)
                    THEN scores \cup {<<r, snapshot, readiness.score>>} ELSE scores
       /\ UNCHANGED worldVars

(* Mutant of MappedOf: those of the generation that is active by now. *)
MappedActive(set, generation) ==
    IF set = None \/ published[set].generation # active THEN {}
    ELSE {<<active, n>> : n \in {n \in Numbers : \E o \in Objectives : published[set].weights[o][n] > 0}}

(* activeMappedConceptIds: the concepts that are marked as mapped. *)
MappedOf(set, generation) ==
    IF set = None \/ published[set].generation # generation THEN {}
    ELSE {<<generation, n>> : n \in {n \in Numbers : \E o \in Objectives : published[set].weights[o][n] > 0}}
ReadMapped(r) ==
    /\ reader[r].at = "mapped"
    /\ reader' = [reader EXCEPT ![r].at = "shown",
          ![r].mapped = IF reader[r].readiness.reasons \cap {"blueprint_missing", "reviewed_mappings_unavailable"} # {}
                        THEN {} ELSE MappedOf(reader[r].set, reader[r].generation)]
    /\ UNCHANGED <<worldVars, scores>>

(* The learner asks again. *)
Ask(r) == /\ reader[r].at = "shown" /\ reader' = [reader EXCEPT ![r] = NotReading]
          /\ UNCHANGED <<worldVars, scores>>

----------------------------------------------------------------------------
(* What others commit meanwhile. *)
Changes == changes < MaxChanges /\ changes' = changes + 1 /\ UNCHANGED <<blueprint, reader, scores>>
Activate ==
    /\ Changes /\ active < MaxGenerations /\ active' = active + 1
    /\ UNCHANGED <<published, knowledge, calibration>>
Publish(weights) ==
    /\ Changes /\ published' = Append(published, [generation |-> active, weights |-> weights])
    /\ UNCHANGED <<active, knowledge, calibration>>
Grade(c, mastery) ==
    /\ Changes /\ c[1] <= active
    /\ knowledge' = [knowledge EXCEPT ![c] = [mastery |-> mastery, outcomes |-> knowledge[c].outcomes + 1, current |-> TRUE]]
    /\ UNCHANGED <<active, published, calibration>>
Freeze(c) ==
    /\ Changes /\ calibration # c /\ calibration' = c
    /\ UNCHANGED <<active, published, knowledge>>

Next ==
    \/ \E r \in Readers : \/ ReadCourse(r) \/ ReadConcepts(r) \/ ReadMappingSet(r) \/ ReadMappings(r)
                          \/ Evaluated(r) \/ ReadMapped(r) \/ Ask(r)
    \/ Activate
    \/ \E weights \in MappingSets : Publish(weights)
    \/ \E c \in CourseConcepts, mastery \in Masteries : Grade(c, mastery)
    \/ \E c \in Calibrations : Freeze(c)

Spec == Init /\ [][Next]_vars

----------------------------------------------------------------------------
TypeOK ==
    /\ active \in Generations /\ changes <= MaxChanges
    /\ \A r \in Readers : reader[r].at \in {"idle", "concepts", "set", "rows", "calibration", "mapped", "shown"}
    /\ \A r \in Readers : reader[r].readiness # None =>
          reader[r].readiness.unmapped \in 0..Cardinality(Numbers)
    /\ \A s \in scores : s[1] \in Readers /\ s[3] \in 0..Scale

(* A score is shown only when four fifths of the weight of the exam is on *)
(* concepts with two graded outcomes, whatever was graded or reviewed      *)
(* while it was computed (evaluateExamReadiness).                          *)
Tested(c) == knowledge[c].outcomes >= 2 /\ knowledge[c].mastery # None
Gated == \A r \in Readers : reader[r].readiness # None /\ reader[r].readiness.status = "eligible" =>
    LET set == published[reader[r].set]
        tested(o) == {n \in Numbers : Tested(<<set.generation, n>>)}
    IN /\ \A o \in Objectives : \E n \in tested(o) : set.weights[o][n] > 0
       /\ 10 * MapThenSumSet(LAMBDA o : WeightOf[o] * MapThenSumSet(LAMBDA n : set.weights[o][n], tested(o)), Objectives)
            >= 8 * Scale * Scale

(* A stored score lies between the least and the greatest mastery it was  *)
(* computed from: no weight is lost in the rounding or in the concepts    *)
(* without evidence (evaluateExamReadiness).                              *)
ScoreBounded == \A s \in scores :
    LET masteries == {row.mastery : row \in EligibleRows(s[2].rows)}
    IN Min(masteries) <= s[3] /\ s[3] <= Max(masteries)

(* Requests that overlap store one score for one input and readiness      *)
(* (ON CONFLICT (owner_scope_id, snapshot_digest) DO NOTHING).            *)
StoredOnce == \A s, t \in scores : s[2] = t[2] => s = t

(* Although its statements see different generations and mapping sets, an  *)
(* answer agrees with itself: as many of its concepts are marked as        *)
(* unmapped by the last statement as its readiness counts (mappingStatus,  *)
(* packages/db/src/index.ts:612-617, unmappedConceptCount).                *)
MarksAgree == \A r \in Readers : reader[r].at = "shown" =>
    Cardinality(ConceptsShown(r) \ reader[r].mapped) = reader[r].readiness.unmapped

(* A score that is shown or stored rests on enough evidence, lies within   *)
(* it, is stored once for what it was computed from, and is shown beside   *)
(* marks that agree with it.                                               *)
ScoresSound == TypeOK /\ Gated /\ ScoreBounded /\ StoredOnce /\ MarksAgree
=============================================================================

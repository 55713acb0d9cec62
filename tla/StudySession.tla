---------------------------- MODULE StudySession ----------------------------
(***************************************************************************)
(* The study session of one learner in one course and its placement quiz:  *)
(* startOrResumeStudySession, loadPlacement and submitPlacementChoice of   *)
(* PostgresConnectedDemoRepository, the projection of evidence by          *)
(* KnowledgeProjectingAssessment, and the reset of the demo course.        *)
(*                                                                         *)
(* An answer takes two transactions: one stores the attempt, the next its  *)
(* evidence and the knowledge state.  A question counts as answered only   *)
(* when the state accounts for all evidence on its concept, so an answer   *)
(* whose second transaction was lost is asked for again and is replayed.   *)
(* Tabs of the browser work on the same session.                           *)
(***************************************************************************)
EXTENDS Naturals, FiniteSets

CONSTANTS
    Tabs,
    Total,        \* questions of a placement bank: 10 in the code
    Short,        \* those of them that are short answers
    Answers,      \* the options of a keyed question
    Text,         \* a short answer
    Loyal,        \* a tab whose learner goes on
    Concepts,
    Learned,      \* concepts with answers outside the placement quiz
    ConceptOf,    \* ConceptOf[i]: the concept question i is linked to
    MaxSessions,  \* bound on the sessions that are started
    MaxFaults,    \* bound on lost transactions and lost responses
    MaxResets,    \* bound on resets and completed sessions
    None

ASSUME StudyAssumption ==
    /\ Total \in Nat /\ MaxSessions \in Nat
    /\ Short \subseteq 1..Total
    /\ ConceptOf \in [1..Total -> Concepts] /\ Learned \subseteq Concepts
    /\ Loyal \in Tabs /\ None \notin Answers \cup {Text}

VARIABLES
    sessions,   \* study_session: id -> status; 0 is the id of the seeded session
    bank,       \* the placement bank of the course: none yet, failed, ready
    attempts,   \* attempt rows
    ledger,     \* attempt_concept_evidence: the ids of attempts with evidence
    states,     \* knowledge_state.evidence_count of a concept
    page,       \* tab -> what it shows
    call,       \* tab -> the answer whose evidence it projects, or None
    faults, resets

rows == <<sessions, bank, attempts, ledger, states>>
vars == <<rows, page, call, faults, resets>>

-----------------------------------------------------------------------------
Seeded == 0
Sessions == Seeded..MaxSessions
Items == 1..Total

(* An attempt is named by its idempotency key, which the page derives from *)
(* the session, the question and the answer.                               *)
Id(session, item, answer) == [session |-> session, item |-> item, answer |-> answer]
Attempt(id, outcome) == [id |-> id, outcome |-> outcome]
Elsewhere(c) == Id(Seeded, c, None)  \* evidence of an answer outside the placement quiz

Concept(id) == IF id.answer = None THEN id.item ELSE ConceptOf[id.item]
Ledger(c) == {id \in ledger : Concept(id) = c}

Blank == [phase |-> "closed", session |-> Seeded, item |-> 0, answer |-> None, abstained |-> FALSE]

Init ==
    /\ sessions = [s \in Sessions |-> "none"]
    /\ bank = "none"
    /\ attempts = {} /\ ledger = {}
    /\ states = [c \in Concepts |-> 0]
    /\ page = [t \in Tabs |-> Blank]
    /\ call = [t \in Tabs |-> None]
    /\ faults = 0 /\ resets = 0

Show(t, phase) == page' = [page EXCEPT ![t] = [@ EXCEPT !.phase = phase]]

-----------------------------------------------------------------------------
(* What counts as answered.                                                *)
(***************************************************************************)

(* The knowledge state of a concept accounts for all evidence on it. *)
Projected(id) == id \in ledger /\ states[Concept(id)] = Cardinality(Ledger(Concept(id)))

(* loadPlacementState, the column attempted: a graded attempt, or the graded *)
(* replacement of an abstained one, whose evidence is projected.             *)
Attempted(item) ==
    \E a \in attempts :
        a.id.item = item /\ a.outcome \in {"graded", "replaced"} /\ Projected(a.id)

Questions == {i \in Items : ~Attempted(i)}

-----------------------------------------------------------------------------
(* The session.                                                            *)
(***************************************************************************)

Active == {s \in Sessions : sessions[s] = "active"}

(* deriveStudyPlan, placement.answered. *)
Answered == Cardinality(Items \ Questions)

(* deriveStudyPlan, placement.status; that of the seeded session's plan is *)
(* demoFlowBPlacementComplete.                                             *)
Plan(s) ==
    IF s = Seeded THEN "complete"
    ELSE IF bank = "none" THEN "pending"
    ELSE IF bank = "failed" THEN "failed"
    ELSE IF Answered < Total THEN "question" ELSE "complete"

(* shouldEnterPlacement: what the page does first with the session. *)
Opened(s) ==
    [Blank EXCEPT !.phase = IF Plan(s) # "complete" THEN "load" ELSE "complete", !.session = s]

(* A start holds the advisory lock (214765003, 163) until it commits. *)
Starting == {t \in Tabs : page[t].phase = "starting"}

Fresh == {s \in Sessions \ {Seeded} :
            sessions[s] = "none" /\ \A o \in 1..(s - 1) : sessions[o] # "none"}

(* startOrResumeStudySession: an active session, the newest in the code,   *)
(* is resumed under its row lock.  A start that sees none goes on to       *)
(* insert a session, and only another start is kept out meanwhile: a reset *)
(* takes the lock (214765003, 162).                                        *)
Start(t) ==
    /\ page[t].phase \in {"closed", "error"} /\ Starting = {}
    /\ \/ \E s \in Active : page' = [page EXCEPT ![t] = Opened(s)]
       \/ Active = {} /\ Fresh # {} /\ Show(t, "starting")
    /\ UNCHANGED <<rows, call, faults, resets>>

(* The INSERT of a start that saw no active session. *)
Open(t) ==
    /\ page[t].phase = "starting"
    /\ \E s \in Fresh :
          /\ sessions' = [sessions EXCEPT ![s] = "active"]
          /\ page' = [page EXCEPT ![t] = Opened(s)]
    /\ UNCHANGED <<bank, attempts, ledger, states, call, faults, resets>>

Disturb == resets < MaxResets /\ resets' = resets + 1

(* loadPlacementState: the first question that is not answered. *)
Placement(s) ==
    IF s = Seeded THEN [status |-> "complete"]  \* demoFlowBPlacementComplete
    ELSE IF bank = "none" THEN [status |-> "pending"]
    ELSE IF bank = "failed" THEN [status |-> "failed"]
    ELSE IF Questions = {} THEN [status |-> "complete"]
    ELSE [status |-> "question",
          item |-> CHOOSE i \in Questions : \A j \in Questions : i <= j]

(* loadPendingFallback: answers of the session that wait for a replacement. *)
Pending(s, item) == {a.id : a \in {b \in attempts :
                        b.outcome = "abstained" /\ b.id.session = s /\ b.id.item = item}}

(* validPlacementView: the page takes a question only if its place follows *)
(* the number of answered ones.                                            *)
Valid(placement) == placement.item = Cardinality(Items \ Questions) + 1

(* loadPlacement; a session that is not active is not found. *)
Load(t) ==
    /\ page[t].phase = "load"
    /\ LET s == page[t].session
           placement == Placement(s)
       IN  page' = [page EXCEPT ![t] =
             IF sessions[s] # "active" THEN Blank
             ELSE IF placement.status = "question"
                  THEN IF ~Valid(placement) THEN [@ EXCEPT !.phase = "error"]
                       ELSE IF Pending(s, placement.item) = {}
                       THEN [@ EXCEPT !.phase = "question", !.item = placement.item, !.answer = None]
                       ELSE [@ EXCEPT !.phase = "result", !.item = placement.item,
                               !.answer = (CHOOSE id \in Pending(s, placement.item) : TRUE).answer,
                               !.abstained = TRUE]
                  ELSE [@ EXCEPT !.phase = placement.status, !.item = 0, !.answer = None]]
    /\ UNCHANGED <<rows, call, faults, resets>>

(* The page polls while the quiz is prepared, and offers to check again. *)
Refresh(t) ==
    /\ page[t].phase \in {"pending", "failed", "question"} /\ call[t] = None
    /\ Show(t, "load")
    /\ UNCHANGED <<rows, call, faults, resets>>

-----------------------------------------------------------------------------
(* Answers.                                                                *)
(***************************************************************************)

IsShort(item) == item \in Short
Stored(id) == \E a \in attempts : a.id = id

AnsweredAndProjected(s, item) == \E a \in attempts : a.id.item = item /\ Projected(a.id)

(* priorQuestionAttempt: of the learner, in any session. *)
AnsweredBefore(s, item) == \E a \in attempts : a.id.item = item

(* submitPlacementChoice without an attempt under the key: question_unavailable *)
(* or conflicting_duplicate unless the question is the current one and was not  *)
(* answered before.  A short answer has no such check: gradeShortAnswer takes   *)
(* another answer under another key.                                            *)
MayAnswer(s, item) ==
    /\ sessions[s] = "active"
    /\ IsShort(item) \/ /\ Placement(s) = [status |-> "question", item |-> item]
                        /\ ~AnsweredBefore(s, item)

(* A request whose first transaction is done; an answer the grader abstained *)
(* from has no evidence to project.                                          *)
Request(id, scored) == [id |-> id, scored |-> scored]

(* The first transaction.  A short answer's attempt comes with its evidence. *)
Submit(t, answer) ==
    LET s == page[t].session
        item == page[t].item
        id == Id(s, item, answer)
    IN
    /\ page[t].phase = "question" /\ call[t] = None
    /\ answer \in IF IsShort(item) THEN {Text} ELSE Answers
    /\ \/ /\ Stored(id) \* replayed
          /\ call' = [call EXCEPT ![t] = Request(id, Attempt(id, "graded") \in attempts)]
          /\ UNCHANGED <<attempts, ledger>>
       \/ /\ ~Stored(id) /\ MayAnswer(s, item)
          /\ \E outcome \in IF IsShort(item) THEN {"graded", "abstained"} ELSE {"graded"} :
                /\ attempts' = attempts \cup {Attempt(id, outcome)}
                /\ ledger' = IF IsShort(item) /\ outcome = "graded" THEN ledger \cup {id} ELSE ledger
                /\ call' = [call EXCEPT ![t] = Request(id, outcome = "graded")]
       \/ /\ ~Stored(id) /\ ~MayAnswer(s, item)
          /\ UNCHANGED <<attempts, ledger, call>>
    /\ page' = [page EXCEPT ![t] = [@ EXCEPT !.answer = answer]]
    /\ UNCHANGED <<sessions, bank, states, faults, resets>>

(* recordEvidenceAndReplay refuses evidence of an attempt that is not there. *)
Projectable(id) == Stored(id)

(* The evidence is stored, unless it is already, and the whole ledger of the *)
(* concept replayed.                                                         *)
Record(id) ==
    /\ ledger' = ledger \cup {id}
    /\ states' = [states EXCEPT ![Concept(id)] = Cardinality({e \in ledger' : Concept(e) = Concept(id)})]

EvidenceLater(c) == UNCHANGED <<ledger, states>>

(* The second transaction. *)
Evidence(c) == IF c.scored THEN Record(c.id) ELSE UNCHANGED <<ledger, states>>

(* The second transaction and the response: the page shows the result. *)
Project(t) ==
    /\ call[t] # None
    /\ \/ /\ Projectable(call[t].id)
          /\ Evidence(call[t])
          /\ page' = [page EXCEPT ![t] = [@ EXCEPT !.phase = "result", !.abstained = ~call[t].scored]]
       \/ /\ ~Projectable(call[t].id)  \* projection_unavailable
          /\ UNCHANGED <<ledger, states, page>>
    /\ call' = [call EXCEPT ![t] = None]
    /\ UNCHANGED <<sessions, bank, attempts, faults, resets>>

(* The retries of #projectEvidence are used up, or the process died, or the *)
(* response is lost after the commit: the page stays where it is.           *)
Fault(t) ==
    /\ faults < MaxFaults /\ faults' = faults + 1
    /\ call[t] # None
    /\ UNCHANGED <<ledger, states>> \/ (Projectable(call[t].id) /\ Evidence(call[t]))
    /\ call' = [call EXCEPT ![t] = None]
    /\ UNCHANGED <<sessions, bank, attempts, page, resets>>

(* submitPlacementFallback: the replacement of an abstained answer is graded *)
(* and its evidence stored, or is replayed.                                  *)
Replace(t) ==
    LET id == Id(page[t].session, page[t].item, page[t].answer) IN
    /\ page[t].phase = "result" /\ page[t].abstained /\ call[t] = None
    /\ IF Stored(id)
       THEN /\ attempts' = (attempts \ {Attempt(id, "abstained")}) \cup {Attempt(id, "replaced")}
            /\ ledger' = ledger \cup {id}
            /\ call' = [call EXCEPT ![t] = Request(id, TRUE)]
            /\ UNCHANGED page
       ELSE /\ Show(t, "load")  \* deleted by a reset; the learner starts again
            /\ UNCHANGED <<attempts, ledger, call>>
    /\ UNCHANGED <<sessions, bank, states, faults, resets>>

(* refreshPlacement: "Next placement question". *)
Continue(t) ==
    /\ page[t].phase = "result" /\ ~page[t].abstained /\ call[t] = None
    /\ Show(t, "load")
    /\ UNCHANGED <<rows, call, faults, resets>>

-----------------------------------------------------------------------------
(* What happens around it.                                                 *)
(***************************************************************************)

(* An activation operation stores the placement bank, or fails for good and  *)
(* is regenerated.  The bank of a rebuilt course would be another quiz.      *)
GenerateBank ==
    /\ bank # "ready" /\ bank' \in {"failed", "ready"} \ {bank}
    /\ UNCHANGED <<sessions, attempts, ledger, states, page, call, faults, resets>>

(* nextAction completes the session. *)
CompleteSession(s) ==
    /\ sessions[s] = "active" /\ Placement(s).status = "complete"
    /\ Disturb
    /\ sessions' = [sessions EXCEPT ![s] = "completed"]
    /\ UNCHANGED <<bank, attempts, ledger, states, page, call, faults>>

(* A question of the chapter is answered: its evidence is in the ledger *)
(* before it is projected, and the projection may be lost.              *)
AnswerElsewhere(c) ==
    /\ c \in Learned
    /\ Elsewhere(c) \notin ledger
    /\ ledger' = ledger \cup {Elsewhere(c)}
    /\ UNCHANGED <<sessions, bank, attempts, states, page, call, faults, resets>>

ProjectElsewhere(c) ==
    /\ Elsewhere(c) \in ledger /\ states[c] # Cardinality(Ledger(c))
    /\ states' = [states EXCEPT ![c] = Cardinality(Ledger(c))]
    /\ UNCHANGED <<sessions, bank, attempts, ledger, page, call, faults, resets>>

(* A start that waits for the rows a reset deletes sees no session when it  *)
(* goes on: the one the reset inserts is not in its statement's snapshot.   *)
Overtaken ==
    {t \in Tabs : page[t].phase \in {"closed", "error"} /\ Starting = {} /\ Active # {} /\ Fresh # {}}

(* resetWeakState: all learning of the learner is deleted, the seeded session *)
(* and its attempts are new, and reset projects their evidence afterwards,    *)
(* which is an answer elsewhere here.                                         *)
Reset ==
    /\ Disturb
    /\ sessions' = [s \in Sessions |-> IF s = Seeded THEN "active"
                                       ELSE IF sessions[s] = "none" THEN "none" ELSE "deleted"]
    /\ attempts' = {} /\ ledger' = {}
    /\ states' = [c \in Concepts |-> 0]
    /\ UNCHANGED page \/ \E t \in Overtaken : Show(t, "starting")
    /\ UNCHANGED <<bank, call, faults>>

Step(t) == Start(t) \/ Open(t) \/ Load(t) \/ Project(t) \/ Replace(t)

Next ==
    \/ \E t \in Tabs : Step(t) \/ Refresh(t) \/ Continue(t) \/ Fault(t)
    \/ \E t \in Tabs, a \in Answers \cup {Text} : Submit(t, a)
    \/ GenerateBank \/ Reset
    \/ \E s \in Sessions : CompleteSession(s)
    \/ \E c \in Concepts : AnswerElsewhere(c) \/ ProjectElsewhere(c)

(* The requests of a tab are answered, and the quiz is generated.  In one  *)
(* tab the learner goes on, tries each answer, and refreshes the page.     *)
Fairness ==
    /\ \A t \in Tabs : WF_vars(Step(t))
    /\ WF_vars(Continue(Loyal)) /\ SF_vars(Refresh(Loyal))
    /\ \A a \in Answers \cup {Text} : SF_vars(Submit(Loyal, a))
    /\ WF_vars(GenerateBank)

Spec == Init /\ [][Next]_vars /\ Fairness

-----------------------------------------------------------------------------
TypeOK ==
    /\ sessions \in [Sessions -> {"none", "active", "completed", "deleted"}]
    /\ bank \in {"none", "failed", "ready"}
    /\ \A a \in attempts : a.id.item \in Items /\ a.outcome \in {"graded", "abstained", "replaced"}
    /\ \A c \in Concepts : states[c] \in 0..Cardinality(Ledger(c))
    /\ \A t \in Tabs :
        /\ page[t].phase \in {"closed", "starting", "load", "pending", "failed", "question", "result", "complete", "error"}
        /\ page[t].phase \in {"question", "result"} => page[t].item \in Items
        /\ page[t].phase = "result" => page[t].answer \in Answers \cup {Text}

(* "prevents two browser tabs from opening duplicate active sessions for    *)
(* one learner" (connected-demo-repository.ts:521): of what starts open, one *)
(* is active, and while one is being opened none.  The seeded session may be *)
(* active beside it, since a reset and a start do not exclude each other.    *)
OneActive ==
    /\ Cardinality(Active \ {Seeded}) <= 1 /\ Cardinality(Starting) <= 1
    /\ Starting # {} => Active \subseteq {Seeded}

(* Two tabs, retries, refreshes and lost answers: a keyed question has one  *)
(* attempt, so a learner cannot correct an answer after seeing its result.  *)
OneAttempt ==
    \A a, b \in attempts : a.id.item = b.id.item /\ ~IsShort(a.id.item) => a = b

(* An answer that is on its way when the demo is reset leaves no evidence *)
(* of an attempt that is gone.                                            *)
EvidenceOfAttempts == \A id \in ledger : id.answer = None \/ Stored(id)

(* What the learner is told is stored: the page shows a result only after   *)
(* the attempt is stored and, unless the grader abstained, its evidence     *)
(* projected.                                                               *)
ToldIsStored ==
    [][\A t \in Tabs :
        page[t].phase = "question" /\ page'[t].phase = "result" =>
            LET id == Id(page[t].session, page[t].item, page[t].answer) IN
            page'[t].abstained \/ Projected(id)']_vars

(* Evidence on the concept of an answered question is not projected, so     *)
(* that the question is asked again, and the page cannot replay its answer: *)
(* it was given in an earlier session and this one has other keys, or       *)
(* later questions are answered and the page takes no question out of turn. *)
Stranded(s) ==
    /\ Placement(s).status = "question"
    /\ \/ ~Valid(Placement(s))
       \/ \E a \in attempts : a.id.item = Placement(s).item /\ a.id.session # s

(* Lost projections and lost responses take no question away: the learner   *)
(* who goes on trying is told that the placement quiz is complete.  The     *)
(* exceptions are a stranded question, and two active sessions, of which a   *)
(* page may resume the other one for ever.                                  *)
PlacementEnds ==
    []<>(\A s \in Active :
            \/ Placement(s).status = "complete" \/ Stranded(s) \/ Active # {s}
            \/ \E t \in Tabs : page[t].phase = "complete" /\ page[t].session = s)

(* Tabs, retries and resets: one active session that a start opened, one   *)
(* attempt on a question and evidence only of attempts that are stored.    *)
AttemptsSound == TypeOK /\ OneActive /\ OneAttempt /\ EvidenceOfAttempts

=============================================================================

----------------------------- MODULE TutorLoop ------------------------------
(***************************************************************************)
(* The tutor of one study session: TutorAgentService.nextAction and ask    *)
(* (packages/tutor-agent) over PostgresTutorAgentRepository (packages/db), *)
(* with the lessons ConnectedStudyService and completeStudyLesson serve.   *)
(*                                                                         *)
(* nextAction reads a snapshot of the session, decides, and carries out    *)
(* the decision in later transactions: the model is asked in between, the  *)
(* learner answers questions (here or in a quiz delivered elsewhere) and   *)
(* another tab may call nextAction too.  A transaction is one step; it     *)
(* locks the session row.  Times are only compared with the times of the   *)
(* attempts on the concept, so a time is the number of attempts before it. *)
(***************************************************************************)
EXTENDS Integers, Sequences, FiniteSets

CONSTANTS
    Tabs,            \* browser tabs, each with one nextAction at a time
    Asks,            \* tabs that ask the tutor
    Concepts,
    Order,           \* Order[c]: place of c by chapter_order, concept_order
    Questions,       \* Questions[c]: number of questions on c alone
    Lessons,         \* generated texts
    Strategy,        \* Strategy[l]: strategyTag
    Original,        \* Original[c]: the course's lesson on c, or Null
    Similar,         \* pairs of texts with similarity >= 0.85
    AskKeys,         \* idempotency keys of ask
    Spans,           \* source spans
    MasteryAfter(_), \* mastery after a sequence of bands
    Threshold,       \* RETEACH_MASTERY_THRESHOLD
    MaxReteaches,    \* MAX_RETEACHES_PER_CONCEPT_SESSION
    Null

\* A concept has its place in the plan, and NULL is no generated text and no
\* list of spans.
ASSUME TutorAssumption ==
    /\ \A c \in Concepts : Order[c] \in Nat
    /\ MaxReteaches \in Nat
    /\ Null \notin Lessons /\ \A S \in SUBSET Spans : Null # S

VARIABLES
    status,     \* study_session.status
    attempts,   \* attempts[c]: eligible evidence on c, [band, here]
    projected,  \* projected[c]: how much of it knowledge_state accounts for
    exposed,    \* exposed[c]: time of the last lesson_completed, or Null
    reteach,    \* reteach[c]: assets by ordinal, [text, baseline, served, cause]
    loop,       \* loop[c]: summary.flowB of the session, or Null
    scheduled,  \* scheduled[c]: attempts with a review_scheduled event
    asked,      \* asked[k]: the question_asked event under k, or Null
    objects,    \* texts in the object store
    phase,      \* phase[r]: the await call r is at
    job,        \* job[r]: what it is about to do
    reply       \* reply[r]: what its last call returned

records == <<status, reteach, loop, scheduled, asked>>
evidence == <<attempts, projected, exposed>>
calls == <<phase, job, reply>>
tutorVars == <<records, evidence, objects, calls>>

NoJob == [concept |-> Null]
Callers == Tabs \cup Asks

TutorInit ==
    /\ status = "active"
    /\ attempts = [c \in Concepts |-> <<>>]
    /\ projected = [c \in Concepts |-> 0]
    /\ exposed = [c \in Concepts |-> Null]
    /\ reteach = [c \in Concepts |-> <<>>]
    /\ loop = [c \in Concepts |-> Null]
    /\ scheduled = [c \in Concepts |-> {}]
    /\ asked = [k \in AskKeys |-> Null]
    /\ objects = {Original[c] : c \in Concepts} \ {Null}
    /\ phase = [r \in Callers |-> "idle"]
    /\ job = [r \in Callers |-> NoJob]
    /\ reply = [r \in Callers |-> [kind |-> "none"]]

-----------------------------------------------------------------------------
(* The learner. *)

(* completeStudyLesson: lesson_completed, of the lesson shown for c. *)
CompleteLesson(c) ==
    /\ status = "active"
    /\ Original[c] # Null \/ reteach[c] # <<>>
    /\ exposed' = [exposed EXCEPT ![c] = Len(attempts[c])]
    /\ UNCHANGED <<records, attempts, projected, objects, calls>>

(* loadRetestQuestions: a question on c not attempted in this session. *)
HasQuestion(c) ==
    Cardinality({i \in 1..Len(attempts[c]) : attempts[c][i].here}) < Questions[c]

(* An attempt on c is graded, in this session or in a delivered quiz. *)
Attempt(c) ==
    /\ \E band \in {"correct", "incorrect"}, here \in BOOLEAN :
         /\ here => status = "active" /\ HasQuestion(c)
         /\ attempts' = [attempts EXCEPT ![c] = Append(@, [band |-> band, here |-> here])]
    /\ UNCHANGED <<records, projected, exposed, objects, calls>>

(* recordEvidenceAndReplay: the ledger of c is replayed. *)
Project(c) ==
    /\ projected[c] < Len(attempts[c])
    /\ projected' = [projected EXCEPT ![c] = Len(attempts[c])]
    /\ UNCHANGED <<records, attempts, exposed, objects, calls>>

-----------------------------------------------------------------------------
(* The snapshot of loadConceptRows. *)

Mastery(c) ==
    MasteryAfter([i \in 1..projected[c] |-> attempts[c][i].band])

Latest(c) == Len(attempts[c])
LatestCorrect(c) == Latest(c) > 0 /\ attempts[c][Latest(c)].band = "correct"
LatestWrong(c) == Latest(c) > 0 /\ attempts[c][Latest(c)].band # "correct"

(* Mutant of Triggered: the number of replacements has no limit. *)
TriggeredAgain(c) ==
    /\ loop[c] = Null /\ exposed[c] # Null
    /\ LatestWrong(c) /\ Latest(c) > exposed[c]
    /\ Latest(c) >= 2 /\ Mastery(c) < Threshold

(* isReteachTrigger. *)
Triggered(c) ==
    /\ loop[c] = Null /\ exposed[c] # Null
    /\ LatestWrong(c) /\ Latest(c) > exposed[c]
    /\ Latest(c) >= 2
    /\ Mastery(c) < Threshold
    /\ Len(reteach[c]) < MaxReteaches

(* activeReteach and evidenceAfter. *)
Active(c) == loop[c] = Null /\ reteach[c] # <<>>
Retested(c) == Latest(c) > reteach[c][Len(reteach[c])].served

(* Concepts for which nextAction's first loop returns or throws. *)
Urgent(c) ==
    /\ Active(c)
    /\ \/ ~Retested(c) \/ LatestCorrect(c)
       \/ Len(reteach[c]) >= MaxReteaches \/ Triggered(c)

First(S) == CHOOSE c \in S : \A d \in S : Order[c] <= Order[d]

-----------------------------------------------------------------------------
Return(r, what) ==
    /\ phase' = [phase EXCEPT ![r] = "idle"]
    /\ reply' = [reply EXCEPT ![r] = what]
    /\ job' = [job EXCEPT ![r] = NoJob]

Throw(r) == Return(r, [kind |-> "error"])

Await(r, p, j) ==
    /\ phase' = [phase EXCEPT ![r] = p]
    /\ job' = [job EXCEPT ![r] = j]
    /\ reply' = [reply EXCEPT ![r] = [kind |-> "none"]]

(* The LoopSuccessRecord of recordLoopSuccess and recordLoopStopped. *)
LoopRecord(c, outcome) ==
    [outcome |-> outcome, initial |-> reteach[c][1].baseline, final |-> Mastery(c),
     attempt |-> Latest(c), count |-> Len(reteach[c])]

(* What #generateReteach takes from the snapshot. *)
Generation(c) ==
    LET n == Len(reteach[c]) IN
    [concept |-> c, ordinal |-> n + 1,
     prior |-> IF n > 0 THEN reteach[c][n].text ELSE Original[c],
     baseline |-> IF n > 0 THEN reteach[c][1].baseline ELSE Mastery(c),
     cause |-> Latest(c)]

(* The branches of nextAction's first loop for the concept it stops at. *)
Follow(r, c) ==
    \/ ~Retested(c) /\ HasQuestion(c) /\ Return(r, [kind |-> "retest", concept |-> c])
    \/ ~Retested(c) /\ ~HasQuestion(c) /\ Throw(r)
    \/ /\ Retested(c) /\ LatestCorrect(c)
       /\ IF Mastery(c) <= reteach[c][Len(reteach[c])].baseline THEN Throw(r)
          ELSE Await(r, "recording", [concept |-> c, record |-> LoopRecord(c, "succeeded")])
    \/ /\ Retested(c) /\ ~LatestCorrect(c) /\ Len(reteach[c]) >= MaxReteaches
       /\ Await(r, "scheduling", [concept |-> c, record |-> LoopRecord(c, "stopped")])
    \/ /\ Retested(c) /\ Triggered(c)
       /\ Await(r, "generating", Generation(c))

(* The selection after the loop; due is dueForReview.  A concept with no   *)
(* question left is never offered.                                         *)
Select(r, due) ==
    LET open == {c \in Concepts : loop[c] = Null /\ HasQuestion(c)}
        review == {c \in open : c \in due}
        weak == {c \in open : LatestWrong(c) /\ Mastery(c) < Threshold}
        advance == {c \in open : exposed[c] = Null /\ Original[c] # Null}
    IN
    CASE review # {} -> Return(r, [kind |-> "review", concept |-> First(review)])
      [] review = {} /\ weak # {} -> Return(r, [kind |-> "review", concept |-> First(weak)])
      [] review = {} /\ weak = {} /\ advance # {} ->
           Return(r, [kind |-> "advance", concept |-> First(advance)])
      [] OTHER -> Await(r, "completing", NoJob)

(* nextAction: loadSession and the decision. *)
Load(r) ==
    LET urgent == {c \in Concepts : Urgent(c)}
        triggered == {c \in Concepts : Triggered(c)}
    IN
    /\ phase[r] = "idle"
    /\ IF status # "active" THEN Throw(r)
       ELSE IF urgent # {} THEN Follow(r, First(urgent))
       ELSE IF triggered # {} THEN Await(r, "generating", Generation(First(triggered)))
       ELSE \E due \in SUBSET {c \in Concepts : projected[c] > 0} : Select(r, due)
    /\ UNCHANGED <<records, evidence, objects>>

-----------------------------------------------------------------------------
(* Mutant of Distinct: the strategy tag is not compared. *)
DistinctBySimilarityOnly(l, prior) == {l, prior} \notin Similar

(* validateGroundedLesson and the similarity of the embeddings. *)
Distinct(l, prior) == Strategy[l] # Strategy[prior] /\ {l, prior} \notin Similar

(* #generateReteach: the prior text, the model's lesson and its embedding, *)
(* the object stored; then saveReteach begins its transaction, whose now() *)
(* is the lesson's served_at.                                              *)
Generate(r) ==
    /\ phase[r] = "generating" /\ job[r].prior \in objects
    /\ \E l \in Lessons :
         /\ Distinct(l, job[r].prior)
         /\ objects' = objects \cup {l}
         /\ Await(r, "saving", [concept |-> job[r].concept, ordinal |-> job[r].ordinal,
                                baseline |-> job[r].baseline, cause |-> job[r].cause,
                                text |-> l, served |-> Latest(job[r].concept)])
    /\ UNCHANGED <<records, evidence>>

(* assertReteachState: a knowledge state, the next or the last ordinal,    *)
(* and the baseline of the loop, or the mastery now.                       *)
Expected(g) ==
    LET c == g.concept IN
    /\ projected[c] > 0
    /\ Len(reteach[c]) \in {g.ordinal - 1, g.ordinal}
    /\ g.baseline = IF reteach[c] = <<>> THEN Mastery(c) ELSE reteach[c][1].baseline

Asset(g) == [text |-> g.text, baseline |-> g.baseline, served |-> g.served, cause |-> g.cause]

(* Mutant of SameAsset: a lesson stored for the ordinal is not compared. *)
SameAssetUnchecked(g) == TRUE

(* The WHERE of ON CONFLICT, and the event appendReteachEvent compares. *)
SameAsset(g) ==
    LET a == reteach[g.concept][g.ordinal] IN a.text = g.text /\ a.cause = g.cause

(* saveReteach. *)
Save(r) ==
    LET g == job[r] IN
    /\ phase[r] = "saving" /\ status = "active" /\ Expected(g)
    /\ IF Len(reteach[g.concept]) < g.ordinal
       THEN /\ reteach' = [reteach EXCEPT ![g.concept] = Append(@, Asset(g))]
            /\ Return(r, [kind |-> "reteach", concept |-> g.concept,
                          ordinal |-> g.ordinal, text |-> g.text])
       ELSE /\ UNCHANGED reteach
            /\ IF SameAsset(g)
               THEN Return(r, [kind |-> "reteach", concept |-> g.concept,
                               ordinal |-> g.ordinal, text |-> g.text])
               ELSE Throw(r)
    /\ UNCHANGED <<status, loop, scheduled, asked, evidence, objects>>

(* saveReteach: authorization_denied or invalid_session. *)
SaveRefused(r) ==
    /\ phase[r] = "saving" /\ ~(status = "active" /\ Expected(job[r])) /\ Throw(r)
    /\ UNCHANGED <<records, evidence, objects>>

-----------------------------------------------------------------------------
(* Mutant of Schedule: the review is left for later. *)
ScheduleLater(r) ==
    /\ phase[r] = "scheduling" /\ Await(r, "recording", job[r])
    /\ UNCHANGED <<records, evidence, objects>>

(* scheduleLaterReview: the schedule of c exists since its projection, and *)
(* the attempt that caused it is a wrong one of this session.              *)
Schedule(r) ==
    LET c == job[r].concept
        a == job[r].record.attempt
    IN
    /\ phase[r] = "scheduling"
    /\ IF status = "active" /\ projected[c] > 0
          /\ attempts[c][a].here /\ attempts[c][a].band # "correct"
       THEN /\ scheduled' = [scheduled EXCEPT ![c] = @ \cup {a}]
            /\ Await(r, "recording", job[r])
       ELSE UNCHANGED scheduled /\ Throw(r)
    /\ UNCHANGED <<status, reteach, loop, asked, evidence, objects>>

(* Mutant of Proven: what the call read is taken as it is. *)
ProvenAsRead(c, rec) == projected[c] > 0 /\ reteach[c] # <<>>

(* assertLoopResultEvidence. *)
Proven(c, rec) ==
    /\ projected[c] > 0 /\ reteach[c] # <<>>
    /\ rec.final = Mastery(c)
    /\ rec.initial = reteach[c][1].baseline
    /\ rec.count = Len(reteach[c])
    /\ attempts[c][rec.attempt].here
    /\ \A i \in 1..Len(reteach[c]) : rec.attempt > reteach[c][i].served
    /\ IF rec.outcome = "succeeded"
       THEN attempts[c][rec.attempt].band = "correct" /\ rec.final > rec.initial
       ELSE attempts[c][rec.attempt].band # "correct" /\ rec.count = 2

(* Mutant of Recorded: the result found is replaced. *)
RecordedAgain(c, rec) == Proven(c, rec)

(* #recordLoopResult: a result found is returned if it is this one.        *)
Recorded(c, rec) == IF loop[c] # Null THEN loop[c] = rec ELSE Proven(c, rec)

RecordLoop(r) ==
    LET c == job[r].concept
        rec == job[r].record
    IN
    /\ phase[r] = "recording"
    /\ IF status = "active" /\ Recorded(c, rec)
       THEN /\ loop' = [loop EXCEPT ![c] = rec]
            /\ Return(r, [kind |-> "looped", concept |-> c, record |-> rec])
       ELSE UNCHANGED loop /\ Throw(r)
    /\ UNCHANGED <<status, reteach, scheduled, asked, evidence, objects>>

(* completeSession. *)
Complete(r) ==
    /\ phase[r] = "completing"
    /\ IF status = "active"
       THEN status' = "completed" /\ Return(r, [kind |-> "session_complete"])
       ELSE UNCHANGED status /\ Throw(r)
    /\ UNCHANGED <<reteach, loop, scheduled, asked, evidence, objects>>

(* content_unavailable, a model or store that fails, a lesson or an answer *)
(* that is refused, the deadline, or the process or its connection lost.   *)
Lost(r) ==
    /\ phase[r] # "idle" /\ Throw(r)
    /\ UNCHANGED <<records, evidence, objects>>

-----------------------------------------------------------------------------
(* ask: the spans the retrieval finds and the model's answer, which cites  *)
(* some of them, or none for not_found; one citing others is refused.      *)
Ask(r) ==
    /\ phase[r] = "idle"
    /\ IF status # "active" THEN Throw(r)
       ELSE \E k \in AskKeys, cites \in SUBSET Spans :
              Await(r, "answered", [key |-> k, cites |-> cites])
    /\ UNCHANGED <<records, evidence, objects>>

(* Mutant of Agrees: the event under the key is not compared. *)
AgreesAlways(k, cites) == TRUE

(* recordTutorQuestion: a first result, or the one recorded under the key. *)
Agrees(k, cites) == asked[k] = Null \/ asked[k] = cites

RecordQuestion(r) ==
    LET q == job[r] IN
    /\ phase[r] = "answered"
    /\ IF status = "active" /\ Agrees(q.key, q.cites)
       THEN /\ asked' = [asked EXCEPT ![q.key] = IF @ = Null THEN q.cites ELSE @]
            /\ Return(r, [kind |-> "answer", key |-> q.key, cites |-> q.cites])
       ELSE UNCHANGED asked /\ Throw(r)
    /\ UNCHANGED <<status, reteach, loop, scheduled, evidence, objects>>

TutorNext ==
    \/ \E c \in Concepts : CompleteLesson(c) \/ Attempt(c) \/ Project(c)
    \/ \E r \in Tabs :
         \/ Load(r) \/ Generate(r) \/ Save(r) \/ SaveRefused(r)
         \/ Schedule(r) \/ RecordLoop(r) \/ Complete(r)
    \/ \E r \in Asks : Ask(r) \/ RecordQuestion(r)
    \/ \E r \in Callers : Lost(r)

TutorSpec == TutorInit /\ [][TutorNext]_tutorVars

-----------------------------------------------------------------------------
LoopRecords == {loop[c] : c \in Concepts} \ {Null}

(* What the tables hold: a lesson has its place among the attempts, and    *)
(* the loop's result names a lesson count and an attempt that exist.       *)
TutorTypes ==
    /\ status \in {"active", "completed"}
    /\ \A c \in Concepts :
         /\ projected[c] \in 0..Len(attempts[c])
         /\ exposed[c] \in 0..Len(attempts[c]) \cup {Null}
         /\ Len(reteach[c]) <= MaxReteaches
         /\ \A i \in 1..Len(reteach[c]) :
              /\ reteach[c][i].text \in objects
              /\ reteach[c][i].served \in 1..Len(attempts[c])
         /\ scheduled[c] \subseteq 1..Len(attempts[c])
    /\ \A rec \in LoopRecords : rec.count \in 1..MaxReteaches

(* A lesson a learner is given is the one stored for its ordinal, whatever *)
(* another tab generated meanwhile.                                        *)
ShownIsStored ==
    \A r \in Tabs : reply[r].kind = "reteach" =>
        reteach[reply[r].concept][reply[r].ordinal].text = reply[r].text

(* Each replacement differs in strategy from the lesson before it, and all *)
(* of a loop start from one baseline.                                      *)
LessonsDiffer ==
    \A c \in Concepts : \A i \in 1..Len(reteach[c]) :
        LET prior == IF i = 1 THEN Original[c] ELSE reteach[c][i - 1].text IN
        /\ prior # Null => Strategy[reteach[c][i].text] # Strategy[prior]
        /\ reteach[c][i].baseline = reteach[c][1].baseline

(* A loop ends well only with a correct answer of this session after the   *)
(* lessons it counts and a mastery above the baseline; it is stopped only  *)
(* after two lessons and a wrong answer to them.                           *)
LoopEarned ==
    \A c \in Concepts : loop[c] # Null =>
        LET rec == loop[c] IN
        /\ attempts[c][rec.attempt].here
        /\ rec.attempt > reteach[c][rec.count].served
        /\ rec.initial = reteach[c][1].baseline
        /\ IF rec.outcome = "succeeded"
           THEN attempts[c][rec.attempt].band = "correct" /\ rec.final > rec.initial
           ELSE attempts[c][rec.attempt].band # "correct" /\ rec.count = 2

(* A loop that is given up has a review scheduled for the failed attempt:  *)
(* the schedule is written first.                                          *)
StoppedIsScheduled ==
    \A c \in Concepts : loop[c] # Null /\ loop[c].outcome = "stopped" =>
        loop[c].attempt \in scheduled[c]

(* Two answers under one idempotency key cite the same spans, those of the *)
(* event that was recorded.                                                *)
AnswerIsRecorded ==
    \A r \in Asks : reply[r].kind = "answer" => asked[reply[r].key] = reply[r].cites

(* Lessons, results and answers are written once, and a completed session  *)
(* takes none: a call that read it before may still be on its way.         *)
RecordsStand ==
    [][/\ \A c \in Concepts :
            /\ loop[c] # Null => loop'[c] = loop[c]
            /\ \A i \in 1..Len(reteach[c]) : reteach'[c][i] = reteach[c][i]
       /\ status = "completed" =>
            UNCHANGED <<status, reteach, loop, scheduled, asked>>]_tutorVars

(* What a tab is given, lesson or answer, is what the tables hold. *)
ToldIsRecorded == ShownIsStored /\ AnswerIsRecorded

(* The lessons of a loop differ, and it ends only on the evidence it needs. *)
LoopSound == TutorTypes /\ LessonsDiffer /\ LoopEarned /\ StoppedIsScheduled
=============================================================================

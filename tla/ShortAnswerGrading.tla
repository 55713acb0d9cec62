------------------------- MODULE ShortAnswerGrading -------------------------
(***************************************************************************)
(* Grading in one study session: AssessmentService.gradeShortAnswer and    *)
(* gradeReplacement (packages/assessment), the transactions of             *)
(* PostgresAssessmentRepository (packages/db) and the projection of the    *)
(* evidence into the knowledge state that KnowledgeProjectingAssessment    *)
(* (apps/api) runs before it answers the learner.                          *)
(*                                                                         *)
(* A transaction is one step: claimShortAnswer locks the session row, and  *)
(* the others write a row under a key the table keeps unique, or under a   *)
(* claim token that the same statement compares.  Between two transactions *)
(* a request awaits the model or the database, and others run.  A token is *)
(* a fresh UUID: a request claims once, so its own name stands for it.     *)
(***************************************************************************)
EXTENDS Naturals

CONSTANTS
    Requests,     \* calls of the grading routes, client retries included
    Keys,         \* idempotency keys
    Commands,     \* what a call may ask for: [kind, key, ...], see Digest
    Questions,    \* short-answer quiz items
    Concepts,
    ConceptsOf,   \* ConceptsOf[q]: concepts q has a rubric for
    Pool,         \* Pool[c]: prompts of the multiple-choice items of the quiz banks on c
    Generated,    \* Generated[q]: prompt createSourceBackedFallback writes for q
    MaxRetries,   \* projectionRetryDelaysMs.length
    None          \* SQL NULL

Prompts == Questions \cup UNION {Pool[c] : c \in Concepts}
             \cup {Generated[q] : q \in Questions}

VARIABLES
    \* assessment_grading_operation, assessment_session_question
    op,        \* op[k]: "absent", "processing" or "finalized"
    token,     \* claim_token
    lease,     \* lease_expires_at, as it compares with now()
    digest,    \* request_digest of the operation
    snapshot,  \* fallbackCandidates of authorized_snapshot, by concept
    asked,     \* rows [prompt, key, kind, shown]
    \* attempt, attempt_concept_evidence, assessment_finalization
    final,     \* final[k]: the finalization view stored under k
    bundle,    \* assessment_replacement_item: rows [of, concept, prompt]
    mastery,   \* mastery[c]: the keys whose evidence the knowledge state holds
    \* the requests
    phase,     \* phase[r]: the await that call r is at
    cmd,       \* cmd[r]: its command
    grade,     \* grade[r]: outcome and evidence it is about to finalize
    view,      \* view[r]: the finalization it will answer with
    left,      \* left[r]: evidence of the view it has not projected yet
    tries,     \* tries[r]: projectionAttempt
    reply      \* reply[r]: what the caller was told

opVars == <<op, token, lease, digest, snapshot, asked>>
resultVars == <<final, bundle, mastery>>
callVars == <<phase, cmd, grade, view, left, tries, reply>>
vars == <<opVars, resultVars, callVars>>

NoView == [outcome |-> "none", evidence |-> {}, digest |-> None, of |-> None]
NoGrade == [outcome |-> "none", evidence |-> {}]
Marks == {"eligible", "below_threshold", "attempt_abstained"}
Phases == {"idle", "claiming", "grading", "finalizing", "releasing",
           "looking", "resolving", "replacing", "projecting", "done"}

(* shortAnswerRequestDigest, replacementRequestDigest: all of the command  *)
(* but its key.                                                            *)
Digest(m) ==
    IF m.kind = "short" THEN <<m.question, m.answer>> ELSE <<m.of, m.concept, m.answer>>

Init ==
    /\ op = [k \in Keys |-> "absent"]
    /\ token = [k \in Keys |-> None]
    /\ lease = [k \in Keys |-> "none"]
    /\ digest = [k \in Keys |-> None]
    /\ snapshot = [k \in Keys |-> {}]
    /\ asked = {} /\ bundle = {}
    /\ final = [k \in Keys |-> NoView]
    /\ mastery = [c \in Concepts |-> {}]
    /\ phase = [r \in Requests |-> "idle"]
    /\ cmd = [r \in Requests |-> None]
    /\ grade = [r \in Requests |-> NoGrade]
    /\ view = [r \in Requests |-> NoView]
    /\ left = [r \in Requests |-> {}]
    /\ tries = [r \in Requests |-> 0]
    /\ reply = [r \in Requests |-> "none"]

-----------------------------------------------------------------------------
(* The call ends with an answer or an error. *)
Finish(r, what) ==
    /\ phase' = [phase EXCEPT ![r] = "done"]
    /\ reply' = [reply EXCEPT ![r] = what]
    /\ grade' = [grade EXCEPT ![r] = NoGrade]
    /\ left' = [left EXCEPT ![r] = {}]
    /\ tries' = [tries EXCEPT ![r] = 0]
    /\ UNCHANGED <<cmd, view>>

Goto(r, p) ==
    /\ phase' = [phase EXCEPT ![r] = p]
    /\ UNCHANGED <<cmd, grade, view, left, tries, reply>>

(* A finalization, created or replayed: its evidence is projected next. *)
Answer(r, v) ==
    /\ phase' = [phase EXCEPT ![r] = "projecting"]
    /\ view' = [view EXCEPT ![r] = v]
    /\ left' = [left EXCEPT ![r] = v.evidence]
    /\ grade' = [grade EXCEPT ![r] = NoGrade]
    /\ UNCHANGED <<cmd, tries, reply>>

(* A call with a valid command arrives (validateCommand, validatePolicy). *)
Call(r) ==
    /\ phase[r] = "idle"
    /\ \E m \in Commands :
         /\ cmd' = [cmd EXCEPT ![r] = m]
         /\ phase' = [phase EXCEPT ![r] = IF m.kind = "short" THEN "claiming" ELSE "looking"]
    /\ UNCHANGED <<opVars, resultVars, grade, view, left, tries, reply>>

-----------------------------------------------------------------------------
(* Prompts a new question of the session may not repeat. *)
Seen == {row.prompt : row \in asked}

(* Items of the course on c that earlier claims hold, those that they      *)
(* wrote among them.                                                       *)
Written(c) == {x[2] : x \in {y \in UNION {snapshot[k] : k \in Keys} : y[1] = c}}

(* loadAuthorizedSnapshot: an unseen item of the course for each concept;  *)
(* without one createSourceBackedFallback writes it, from a question on a  *)
(* single concept only.  It does not ask whether what it writes was seen:  *)
(* the primary key of assessment_session_question then refuses the claim.  *)
(* An item that another question's claim wrote is taken when its source    *)
(* spans are those of the rubric, which may be or not.                     *)
FallbackChoices(q, c) ==
    LET free == Pool[c] \ (Seen \cup {q})
        writes == free = {} /\ ConceptsOf[q] = {c}
    IN free \cup (Written(c) \ (Seen \cup {q})) \cup (IF writes THEN {Generated[q]} \ Seen ELSE {})

(* Mutant of Snapshots: the prompts this session has seen are not left out. *)
SnapshotsUnchecked(q) ==
    {s \in SUBSET (ConceptsOf[q] \X Prompts) :
        /\ \A c \in ConceptsOf[q] : \E p \in Pool[c] : <<c, p>> \in s
        /\ \A x, y \in s : (x[1] = y[1] \/ x[2] = y[2]) => x = y
        /\ \A x \in s : x[2] \in Pool[x[1]]}

(* The candidates of all concepts of q, no prompt twice. *)
Snapshots(q) ==
    {s \in SUBSET (ConceptsOf[q] \X Prompts) :
        /\ \A c \in ConceptsOf[q] : \E p \in FallbackChoices(q, c) : <<c, p>> \in s
        /\ \A x, y \in s : (x[1] = y[1] \/ x[2] = y[2]) => x = y
        /\ \A x \in s : x[2] \in FallbackChoices(q, x[1])}

(* reserveSessionQuestions: the original is shown, the fallbacks are held. *)
Reservations(k, q, s) ==
    {[prompt |-> q, key |-> k, kind |-> "original", shown |-> TRUE]} \cup
    {[prompt |-> x[2], key |-> k, kind |-> "fallback", shown |-> FALSE] : x \in s}

(* claimShortAnswer, no operation under the key yet. *)
ClaimNew(r) ==
    LET k == cmd[r].key
        q == cmd[r].question
    IN
    /\ phase[r] = "claiming" /\ op[k] = "absent"
    /\ q \notin Seen
    /\ \E s \in Snapshots(q) :
         /\ snapshot' = [snapshot EXCEPT ![k] = s]
         /\ asked' = asked \cup Reservations(k, q, s)
    /\ op' = [op EXCEPT ![k] = "processing"]
    /\ token' = [token EXCEPT ![k] = r]
    /\ lease' = [lease EXCEPT ![k] = "live"]
    /\ digest' = [digest EXCEPT ![k] = Digest(cmd[r])]
    /\ Goto(r, "grading")
    /\ UNCHANGED resultVars

(* claimShortAnswer: question_unavailable, fallback_unavailable, or a       *)
(* reservation that the primary key refuses.                               *)
ClaimRefused(r) ==
    /\ phase[r] = "claiming" /\ op[cmd[r].key] = "absent"
    /\ cmd[r].question \in Seen \/ Snapshots(cmd[r].question) = {}
    /\ Finish(r, "question_unavailable")
    /\ UNCHANGED <<opVars, resultVars>>

(* claimShortAnswer: the session is not active any more, which it asks     *)
(* before it looks for the operation.                                      *)
ClaimDenied(r) ==
    /\ phase[r] = "claiming" /\ Finish(r, "authorization_denied")
    /\ UNCHANGED <<opVars, resultVars>>

(* claimShortAnswer: the key belongs to another command. *)
ClaimConflict(r) ==
    /\ phase[r] = "claiming" /\ op[cmd[r].key] # "absent"
    /\ digest[cmd[r].key] # Digest(cmd[r])
    /\ Finish(r, "conflicting_duplicate")
    /\ UNCHANGED <<opVars, resultVars>>

(* claimShortAnswer: a finalized operation is replayed. *)
ClaimReplay(r) ==
    LET k == cmd[r].key IN
    /\ phase[r] = "claiming" /\ op[k] = "finalized" /\ digest[k] = Digest(cmd[r])
    /\ Answer(r, final[k])
    /\ UNCHANGED <<opVars, resultVars>>

(* claimShortAnswer: a claim released or past its lease is taken over. *)
ClaimTakeover(r) ==
    LET k == cmd[r].key IN
    /\ phase[r] = "claiming" /\ op[k] = "processing" /\ digest[k] = Digest(cmd[r])
    /\ token[k] = None \/ lease[k] # "live"
    /\ token' = [token EXCEPT ![k] = r]
    /\ lease' = [lease EXCEPT ![k] = "live"]
    /\ Goto(r, "grading")
    /\ UNCHANGED <<op, digest, snapshot, asked, resultVars>>

(* acquireShortAnswerClaim: still pending at the call's deadline. *)
ClaimDeadline(r) ==
    LET k == cmd[r].key IN
    /\ phase[r] = "claiming" /\ op[k] = "processing"
    /\ token[k] # None /\ lease[k] = "live"
    /\ Finish(r, "grading_in_progress")
    /\ UNCHANGED <<opVars, resultVars>>

-----------------------------------------------------------------------------
(* Mutant of Judged: the evidence the model was sure of stays eligible. *)
JudgedKeepingEligible(q, sure) ==
    IF sure = ConceptsOf[q]
    THEN [outcome |-> "graded", evidence |-> {<<c, "eligible">> : c \in sure}]
    ELSE [outcome |-> "abstained",
          evidence |-> {<<c, "eligible">> : c \in sure} \cup
                       {<<c, "below_threshold">> : c \in ConceptsOf[q] \ sure}]

(* normalizeJudgments: one concept the model is not sure of abstains the   *)
(* whole attempt, and the evidence it was sure of becomes ineligible.      *)
Judged(q, sure) ==
    IF sure = ConceptsOf[q]
    THEN [outcome |-> "graded", evidence |-> {<<c, "eligible">> : c \in sure}]
    ELSE [outcome |-> "abstained",
          evidence |-> {<<c, "attempt_abstained">> : c \in sure} \cup
                       {<<c, "below_threshold">> : c \in ConceptsOf[q] \ sure}]

(* models.execute returns judgments under the expected provenance. *)
ModelAnswers(r) ==
    /\ phase[r] = "grading"
    /\ \E sure \in SUBSET ConceptsOf[cmd[r].question] :
         grade' = [grade EXCEPT ![r] = Judged(cmd[r].question, sure)]
    /\ phase' = [phase EXCEPT ![r] = "finalizing"]
    /\ UNCHANGED <<opVars, resultVars, cmd, view, left, tries, reply>>

(* models.execute throws invalid_result: abstain without evidence. *)
ModelInvalid(r) ==
    /\ phase[r] = "grading"
    /\ grade' = [grade EXCEPT ![r] = [outcome |-> "abstained", evidence |-> {}]]
    /\ phase' = [phase EXCEPT ![r] = "finalizing"]
    /\ UNCHANGED <<opVars, resultVars, cmd, view, left, tries, reply>>

(* models.execute fails, or its provenance is not the policy's. *)
ModelFails(r) ==
    /\ phase[r] = "grading" /\ Goto(r, "releasing")
    /\ UNCHANGED <<opVars, resultVars>>

(* releaseShortAnswerClaim, for the token it was given only. *)
Release(r) ==
    LET k == cmd[r].key IN
    /\ phase[r] = "releasing"
    /\ IF token[k] = r
       THEN /\ token' = [token EXCEPT ![k] = None]
            /\ lease' = [lease EXCEPT ![k] = "none"]
       ELSE UNCHANGED <<token, lease>>
    /\ Finish(r, "grading_unavailable")
    /\ UNCHANGED <<op, digest, snapshot, asked, resultVars>>

(* Mutant of Completed: the fallbacks are given back in every case. *)
CompletedReleasing(k, outcome) ==
    {row \in asked : ~(row.key = k /\ row.kind = "fallback")}

(* completeGradingOperation: the fallbacks are shown, or given back. *)
Completed(k, outcome) ==
    {row \in asked : ~(row.key = k /\ row.kind = "fallback")} \cup
    (IF outcome = "graded" THEN {}
     ELSE {[row EXCEPT !.shown = TRUE] : row \in {x \in asked : x.key = k}})

(* Mutant of MayFinalize: neither the replay nor the claim is checked. *)
FinalizesUnchecked(r) == TRUE

(* finalizeShortAnswer goes on: loadAndVerifyReplay found nothing, and     *)
(* assertGradingClaim finds its token on the operation.  An expired lease  *)
(* that nobody took over does not matter.                                  *)
MayFinalize(r) ==
    LET k == cmd[r].key IN
    final[k] = NoView /\ op[k] = "processing" /\ token[k] = r

(* finalizeShortAnswer: attempt, evidence, bundle and finalization, and    *)
(* the operation completed, in one transaction.                            *)
FinalizeNew(r) ==
    LET k == cmd[r].key
        v == [outcome |-> grade[r].outcome, evidence |-> grade[r].evidence,
              digest |-> Digest(cmd[r]), of |-> None]
    IN
    /\ phase[r] = "finalizing"
    /\ MayFinalize(r)
    /\ final' = [final EXCEPT ![k] = v]
    /\ bundle' = IF v.outcome = "graded" THEN bundle
                 ELSE bundle \cup {[of |-> k, concept |-> x[1], prompt |-> x[2]] : x \in snapshot[k]}
    /\ asked' = Completed(k, v.outcome)
    /\ op' = [op EXCEPT ![k] = "finalized"]
    /\ token' = [token EXCEPT ![k] = None]
    /\ lease' = [lease EXCEPT ![k] = "none"]
    /\ Answer(r, v)
    /\ UNCHANGED <<digest, snapshot, mastery>>

(* finalizeShortAnswer: loadAndVerifyReplay finds the same command's. *)
FinalizeReplay(r) ==
    LET k == cmd[r].key IN
    /\ phase[r] = "finalizing"
    /\ final[k] # NoView /\ final[k].digest = Digest(cmd[r])
    /\ Answer(r, final[k])
    /\ UNCHANGED <<opVars, resultVars>>

(* finalizeShortAnswer throws, for another command's finalization, a lost  *)
(* claim or a failed database: the claim is released, but not when the     *)
(* model's result was invalid, because that call is outside the try.       *)
FinalizeFails(r) ==
    /\ phase[r] = "finalizing"
    /\ IF grade[r].evidence = {} THEN Finish(r, "error") ELSE Goto(r, "releasing")
    /\ UNCHANGED <<opVars, resultVars>>

-----------------------------------------------------------------------------
(* gradeReplacement: loadFinalization. *)
LookReplay(r) ==
    LET k == cmd[r].key IN
    /\ phase[r] = "looking"
    /\ IF final[k] = NoView THEN Goto(r, "resolving")
       ELSE IF final[k].digest = Digest(cmd[r]) THEN Answer(r, final[k])
       ELSE Finish(r, "conflicting_duplicate")
    /\ UNCHANGED <<opVars, resultVars>>

(* An item of a bundle whose original attempt was abstained. *)
Replaceable(m) ==
    /\ final[m.of].outcome = "abstained"
    /\ \E item \in bundle : item.of = m.of /\ item.concept = m.concept

(* resolveReplacementAnswer. *)
Resolve(r) ==
    /\ phase[r] = "resolving"
    /\ IF Replaceable(cmd[r]) THEN Goto(r, "replacing") ELSE Finish(r, "authorization_denied")
    /\ UNCHANGED <<opVars, resultVars>>

(* finalizeReplacement: the keyed answer is eligible evidence. *)
Replace(r) ==
    LET k == cmd[r].key
        v == [outcome |-> "graded", evidence |-> {<<cmd[r].concept, "eligible">>},
              digest |-> Digest(cmd[r]), of |-> cmd[r].of]
    IN
    /\ phase[r] = "replacing" /\ Replaceable(cmd[r])
    /\ IF final[k] = NoView
       THEN final' = [final EXCEPT ![k] = v] /\ Answer(r, v)
       ELSE /\ UNCHANGED final
            /\ IF final[k].digest = Digest(cmd[r])
               THEN Answer(r, final[k]) ELSE Finish(r, "conflicting_duplicate")
    /\ UNCHANGED <<opVars, bundle, mastery>>

-----------------------------------------------------------------------------
(* The ledger recordEvidenceAndReplay replays for c: all eligible evidence *)
(* committed by now, not only the one it was called for.                   *)
Ledger(c) == {k \in Keys : <<c, "eligible">> \in final[k].evidence}

(* #projectEvidence: one evidence recorded and its concept replayed. *)
Project(r, e) ==
    /\ phase[r] = "projecting" /\ e \in left[r]
    /\ mastery' = [mastery EXCEPT ![e[1]] = Ledger(e[1])]
    /\ left' = [left EXCEPT ![r] = @ \ {e}]
    /\ tries' = [tries EXCEPT ![r] = 0]
    /\ UNCHANGED <<opVars, final, bundle, phase, cmd, grade, view, reply>>

(* Mutant of ProjectFails: it retries for ever. *)
ProjectFailsForever(r) ==
    /\ phase[r] = "projecting" /\ left[r] # {}
    /\ tries' = [tries EXCEPT ![r] = @ + 1]
    /\ UNCHANGED <<phase, cmd, grade, view, left, reply, opVars, resultVars>>

(* recordEvidenceAndReplay fails: retried after a delay, then given up. *)
ProjectFails(r) ==
    /\ phase[r] = "projecting" /\ left[r] # {}
    /\ IF tries[r] < MaxRetries
       THEN /\ tries' = [tries EXCEPT ![r] = @ + 1]
            /\ UNCHANGED <<phase, cmd, grade, view, left, reply>>
       ELSE Finish(r, "projection_unavailable")
    /\ UNCHANGED <<opVars, resultVars>>

(* recordEvidenceAndReplay refuses with a KnowledgePersistenceError. *)
ProjectRefused(r) ==
    /\ phase[r] = "projecting" /\ left[r] # {}
    /\ Finish(r, "projection_unavailable")
    /\ UNCHANGED <<opVars, resultVars>>

(* Mutant of Reply: the answer does not wait for the projection. *)
ReplyEarly(r) ==
    /\ phase[r] = "projecting"
    /\ Finish(r, "final")
    /\ UNCHANGED <<opVars, resultVars>>

(* The learner gets the finalization. *)
Reply(r) ==
    /\ phase[r] = "projecting" /\ left[r] = {}
    /\ Finish(r, "final")
    /\ UNCHANGED <<opVars, resultVars>>

(* The process or the connection is lost, or a claim (for its policy, too: *)
(* invalid_configuration), a look-up or a replacement transaction fails:   *)
(* nothing is released.                                                    *)
Crash(r) ==
    /\ phase[r] \notin {"idle", "done"} /\ Finish(r, "error")
    /\ UNCHANGED <<opVars, resultVars>>

(* now() passes lease_expires_at. *)
Expire(k) ==
    /\ lease[k] = "live"
    /\ lease' = [lease EXCEPT ![k] = "expired"]
    /\ UNCHANGED <<op, token, digest, snapshot, asked, resultVars, callVars>>

Claim(r) == ClaimNew(r) \/ ClaimDenied(r) \/ ClaimRefused(r) \/ ClaimConflict(r) \/ ClaimReplay(r)
              \/ ClaimTakeover(r) \/ ClaimDeadline(r)
Finalize(r) == FinalizeNew(r) \/ FinalizeReplay(r) \/ FinalizeFails(r)
Projection(r) == (\E e \in left[r] : Project(r, e)) \/ ProjectFails(r) \/ ProjectRefused(r)

Next ==
    \/ \E r \in Requests :
         \/ Call(r) \/ Claim(r)
         \/ ModelAnswers(r) \/ ModelInvalid(r) \/ ModelFails(r)
         \/ Release(r) \/ Finalize(r)
         \/ LookReplay(r) \/ Resolve(r) \/ Replace(r)
         \/ Projection(r) \/ Reply(r) \/ Crash(r)
    \/ \E k \in Keys : Expire(k)

Spec == Init /\ [][Next]_vars

-----------------------------------------------------------------------------
Outcomes == {"none", "graded", "abstained"}
Evidence == SUBSET (Concepts \X Marks)
Digests == {Digest(m) : m \in Commands} \cup {None}
Views == [outcome : Outcomes, evidence : Evidence, digest : Digests, of : Keys \cup {None}]
Grades == [outcome : Outcomes, evidence : Evidence]
Snapshot == SUBSET (Concepts \X Prompts)
Rows == [prompt : Prompts, key : Keys, kind : {"original", "fallback"}, shown : BOOLEAN]
Items == [of : Keys, concept : Concepts, prompt : Prompts]
Replies == {"none", "final", "error", "question_unavailable", "conflicting_duplicate",
            "grading_in_progress", "grading_unavailable", "authorization_denied",
            "projection_unavailable"}

(* What the tables and the calls may hold. *)
TypeOK ==
    /\ op \in [Keys -> {"absent", "processing", "finalized"}]
    /\ token \in [Keys -> Requests \cup {None}]
    /\ lease \in [Keys -> {"none", "live", "expired"}]
    /\ digest \in [Keys -> Digests]
    /\ snapshot \in [Keys -> Snapshot]
    /\ asked \subseteq Rows
    /\ final \in [Keys -> Views]
    /\ bundle \subseteq Items
    /\ mastery \in [Concepts -> SUBSET Keys]
    /\ phase \in [Requests -> Phases]
    /\ cmd \in [Requests -> Commands \cup {None}]
    /\ grade \in [Requests -> Grades]
    /\ view \in [Requests -> Views]
    /\ left \in [Requests -> Evidence]
    /\ tries \in [Requests -> 0..MaxRetries]
    /\ reply \in [Requests -> Replies]

(* Whatever a grader whose claim was taken over computed, every call that  *)
(* answers under a key answers with the finalization stored there.         *)
ShownIsFinal ==
    \A r \in Requests : view[r] # NoView => view[r] = final[cmd[r].key]

(* A learner who was given a grade has it in the knowledge state: the      *)
(* answer is sent after the projection of all its evidence.                *)
AnsweredIsProjected ==
    \A r \in Requests : reply[r] = "final" =>
        \A e \in final[cmd[r].key].evidence :
            e[2] = "eligible" => cmd[r].key \in mastery[e[1]]

(* No prompt is used twice in the session: the questions asked and the     *)
(* fallbacks held or shown for them all differ.                            *)
NoPromptTwice ==
    \A x, y \in asked : x.prompt = y.prompt => x = y

(* An abstained short answer offers one replacement for each concept of    *)
(* its question, and the session remembers that they were shown.           *)
AbstentionReplaced ==
    \A k \in Keys : final[k].outcome = "abstained" =>
        /\ \A c \in ConceptsOf[final[k].digest[1]] :
             \E i \in bundle : i.of = k /\ i.concept = c
        /\ \A i \in bundle : i.of = k =>
             \E row \in asked : row.prompt = i.prompt /\ row.key = k /\ row.shown

(* Mastery moves only by an attempt graded in full or by the keyed answer  *)
(* to a replacement, never by an abstained attempt.                        *)
MasteryEarned ==
    \A c \in Concepts : \A k \in mastery[c] :
        /\ final[k].outcome = "graded"
        /\ final[k].of # None => final[final[k].of].outcome = "abstained"


(* Graders that outlive their claims, abstentions and repeated calls: what *)
(* was told is stored and projected, and nothing is asked or counted twice. *)
GradesSound ==
    /\ TypeOK /\ ShownIsFinal /\ AnsweredIsProjected
    /\ NoPromptTwice /\ AbstentionReplaced /\ MasteryEarned
=============================================================================

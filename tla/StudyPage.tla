----------------------------- MODULE StudyPage ------------------------------
(***************************************************************************)
(* The study page (flow-b-study.tsx): its phase, the data each phase       *)
(* renders, and the asynchronous functions that change both.  A function   *)
(* runs between two responses at once; while it awaits one, the learner    *)
(* may press what the page shows and a background poll may end.  What the  *)
(* API answers is any answer it can give.                                  *)
(*                                                                         *)
(* `crossed` records the two things the page does not guard against: a     *)
(* response applied while another function awaits one, and a failure of    *)
(* the second request of loadPlacement in a function whose catch does not  *)
(* choose a phase.                                                         *)
(***************************************************************************)
EXTENDS Naturals

CONSTANTS
    Slots,       \* functions that may await a response at the same time
    None

VARIABLES
    page,      \* the React state of the page
    flow,      \* slot -> the function in it and the request it awaits
    crossed

vars == <<page, flow, crossed>>

-----------------------------------------------------------------------------
Phases ==
    {"idle", "checking", "blocked", "preparing", "activation_failed", "placement_pending",
     "placement_failed", "placement_question", "placement_result", "placement_complete",
     "lesson", "question", "submitting", "result", "summary", "error"}

(* Functions the learner starts, and the polls and events of the page. *)
Learners ==
    {"start", "check", "continue", "nextAction", "completeLesson", "grade", "fallback",
     "retryLesson", "retryView", "placementAnswer", "placementFallback", "refreshPlacement",
     "regeneratePlacement", "regenerateLesson"}
Background == {"poll", "pollPlacement", "openLesson"}

Idle == [kind |-> None, at |-> None, state |-> None]

(* What loadView may find; "retest" comes with the lesson of the reteach. *)
Views == {"complete", "retest", "question", "unavailable"}

(* initialStudyPhase: a page that resumes a session starts by itself. *)
Init ==
    /\ page = [phase |-> "idle", view |-> None, courseLesson |-> FALSE, question |-> FALSE,
               assessment |-> None, placement |-> None,
               placementResult |-> None, submissionRetry |-> None, nextRetry |-> FALSE]
    /\ flow = [s \in Slots |-> Idle]
    /\ crossed = FALSE

Running(kind) == \E s \in Slots : flow[s].kind = kind
Alone(s) == \A other \in Slots \ {s} : flow[other] = Idle

-----------------------------------------------------------------------------
(* Starting a function: what it sets before its first request.             *)
(***************************************************************************)

Call(s, kind, at, p) ==
    /\ flow[s] = Idle
    /\ flow' = [flow EXCEPT ![s] = [Idle EXCEPT !.kind = kind, !.at = at]]
    /\ page' = p
    /\ UNCHANGED crossed

Phase(phase) == [page EXCEPT !.phase = phase]

(* start: the button of an idle page and of a blocked one, and the retry of *)
(* an error without anything to go back to.                                 *)
Start(s) ==
    /\ \/ page.phase \in {"idle", "blocked"}
       \/ page.phase = "error" /\ page.submissionRetry = None /\ ~page.nextRetry
            /\ ~page.courseLesson /\ page.view = None
    /\ Call(s, "start", "preflight", Phase("checking"))

(* The page is offline: "Refresh status". *)
CheckPreparedLesson(s) ==
    /\ page.phase = "preparing" /\ ~Running("check")
    /\ Call(s, "check", "session", page)

RegenerateLesson(s) ==
    /\ page.phase = "activation_failed" /\ ~Running("regenerateLesson")
    /\ Call(s, "regenerateLesson", "regenerate", page)

RefreshPlacement(s) ==
    /\ \/ page.phase \in {"placement_pending", "placement_failed"} /\ page.placement # None
       \/ page.phase = "placement_result" /\ page.placementResult = "graded"
    /\ ~Running("refreshPlacement") /\ ~Running("regeneratePlacement")
    /\ Call(s, "refreshPlacement", "placement", page)

RegeneratePlacement(s) ==
    /\ page.phase = "placement_failed" /\ page.placement # None
    /\ ~Running("refreshPlacement") /\ ~Running("regeneratePlacement")
    /\ Call(s, "regeneratePlacement", "regenerate", page)

(* placementSubmissionInFlight. *)
PlacementBusy == Running("placementAnswer") \/ Running("placementFallback")

SubmitPlacementAnswer(s) ==
    /\ page.phase = "placement_question" /\ page.placement = "question" /\ ~PlacementBusy
    /\ Call(s, "placementAnswer", "answer", page)

SubmitPlacementFallback(s) ==
    /\ page.phase = "placement_result" /\ page.placementResult = "abstained" /\ ~PlacementBusy
    /\ Call(s, "placementFallback", "answer", page)

ContinueAfterPlacement(s) ==
    /\ page.phase = "placement_complete" /\ page.placement # None
    /\ Call(s, "continue", "session", Phase("checking"))

CompleteCourseLesson(s) ==
    /\ page.phase = "lesson" /\ page.courseLesson
    /\ Call(s, "completeLesson", "complete", Phase("checking"))

(* gradeShortAnswer, from the form and from the retry of an error. *)
GradeShortAnswer(s) ==
    /\ page.phase = "question" \/ (page.phase = "error" /\ page.submissionRetry = "short_answer")
    /\ page.view # None /\ page.question
    /\ Call(s, "grade", "answer", Phase("submitting"))

SubmitFallback(s) ==
    /\ page.phase = "result" \/ (page.phase = "error" /\ page.submissionRetry = "replacement")
    /\ page.assessment = "abstained" /\ page.view # None
    /\ Call(s, "fallback", "answer", Phase("submitting"))

(* nextAction: after a graded answer, after a reteach, and as a retry. *)
NextAction(s) ==
    /\ \/ page.phase = "result" /\ page.assessment = "graded"
       \/ page.phase = "lesson" /\ page.view = "retest"
       \/ page.phase = "error" /\ page.submissionRetry = None /\ page.nextRetry
    /\ page.view # None \/ page.courseLesson \/ page.nextRetry
    /\ Call(s, "nextAction", "next", [Phase("checking") EXCEPT !.nextRetry = FALSE])

(* retryStudyError: the lesson or the view that was open. *)
RetryOpen(s) ==
    /\ page.phase = "error" /\ page.submissionRetry = None /\ ~page.nextRetry
    /\ IF page.courseLesson
       THEN ~Running("retryLesson") /\ Call(s, "retryLesson", "lesson", page)
       ELSE /\ page.view # None /\ ~Running("retryView")
            /\ Call(s, "retryView", "view", page)

(* pollActivationPlan: the controller's fallback and failed artifacts, while *)
(* the stream is open.                                                       *)
Streaming == page.phase \in {"preparing", "placement_pending"} \/ (page.phase = "lesson" /\ page.courseLesson)
Poll(s) ==
    /\ Streaming /\ ~Running("poll")
    /\ Call(s, "poll", "session", page)

(* The timer of a placement quiz that is being prepared. *)
PollPlacement(s) ==
    /\ page.phase = "placement_pending" /\ ~Running("pollPlacement")
    /\ Call(s, "pollPlacement", "placement", page)

(* handleActivationEvent: the lesson is ready, or has failed. *)
OpenLesson(s) ==
    /\ page.phase = "preparing" /\ ~Running("openLesson")
    /\ Call(s, "openLesson", "lesson", page)
ActivationFails(s) ==
    /\ page.phase = "preparing" /\ ~Running("poll")
    /\ Call(s, "poll", "session", Phase("activation_failed"))

Press(s) ==
    \/ Start(s) \/ CheckPreparedLesson(s) \/ RegenerateLesson(s) \/ RefreshPlacement(s)
    \/ RegeneratePlacement(s) \/ SubmitPlacementAnswer(s) \/ SubmitPlacementFallback(s)
    \/ ContinueAfterPlacement(s) \/ CompleteCourseLesson(s) \/ GradeShortAnswer(s)
    \/ SubmitFallback(s) \/ NextAction(s) \/ RetryOpen(s)

-----------------------------------------------------------------------------
(* Responses.                                                              *)
(***************************************************************************)

Goto(s, at, p) == flow' = [flow EXCEPT ![s] = [@ EXCEPT !.at = at]] /\ page' = p
Done(s, p) == flow' = [flow EXCEPT ![s] = Idle] /\ page' = p

(* Mutant: the catch of a submission keeps the spinner. *)
FailedQuietly(s) ==
    IF flow[s].kind \in {"start", "continue", "completeLesson", "nextAction"}
    THEN [Phase("error") EXCEPT !.submissionRetry = None]
    ELSE page

(* The catch of each function.  fail shows an error; a poll and a request *)
(* about placement leave the page as it is.                               *)
Failed(s) ==
    LET kind == flow[s].kind IN
    IF kind \in {"start", "continue", "completeLesson", "retryLesson", "retryView"}
    THEN [Phase("error") EXCEPT !.submissionRetry = None]
    ELSE IF kind = "nextAction"
    THEN [Phase("error") EXCEPT !.submissionRetry = None, !.nextRetry = TRUE]
    ELSE IF kind = "grade" THEN [Phase("error") EXCEPT !.submissionRetry = "short_answer"]
    ELSE IF kind = "fallback" THEN [Phase("error") EXCEPT !.submissionRetry = "replacement"]
    ELSE IF kind = "check" THEN Phase("preparing")
    ELSE page

Throw(s) == Done(s, Failed(s))

(* showQuestion: a retest that repeats the first question is an error. *)
ShowQuestion(s, stage) ==
    \/ stage = "retest" /\ Done(s, [Phase("error") EXCEPT !.submissionRetry = None])
    \/ Done(s, [Phase("question") EXCEPT !.question = TRUE, !.assessment = None])

Preflight(s) ==
    /\ flow[s].at = "preflight"
    /\ Done(s, Phase("blocked")) \/ Goto(s, "session", page)

(* applyStartedSession, by what the plan says. *)
Session(s) ==
    /\ flow[s].at = "session"
    /\ \/ flow[s].kind # "continue" /\ Goto(s, "placement", page)
       \/ Done(s, Phase("activation_failed"))
       \/ Done(s, Phase("preparing"))
       \/ Goto(s, "pending", page)

(* loadPlacement, first request. *)
Placement(s) ==
    /\ flow[s].at = "placement"
    /\ \E status \in {"pending", "failed", "complete", "question"} :
        LET p == [page EXCEPT !.placement = IF status = "question" THEN status ELSE "other",
                              !.courseLesson = FALSE, !.view = None, !.assessment = None,
                              !.placementResult = None]
        IN  IF status = "question" THEN Goto(s, "placementPending", p)
            ELSE Done(s, [p EXCEPT !.phase = IF status = "pending" THEN "placement_pending"
                                             ELSE IF status = "failed" THEN "placement_failed"
                                             ELSE "placement_complete"])

(* loadPlacement, second request. *)
PlacementPending(s) ==
    /\ flow[s].at = "placementPending"
    /\ \/ Done(s, Phase("placement_question"))
       \/ Done(s, [Phase("placement_result") EXCEPT !.placementResult = "abstained"])

WithAssessment(outcome) ==
    [Phase("result") EXCEPT !.assessment = outcome, !.submissionRetry = None]

(* loadPendingAssessment in applyStartedSession. *)
Pending(s) ==
    /\ flow[s].at = "pending"
    /\ Goto(s, "view", WithAssessment("abstained")) \/ Goto(s, "lesson", page)

(* Mutant: the lesson that is open is dropped before the other is there. *)
LessonDroppedFirst(s) ==
    /\ flow[s].at = "lesson"
    /\ \/ Done(s, [Phase("lesson") EXCEPT !.courseLesson = TRUE, !.view = None, !.assessment = None])
       \/ Done(s, [Failed(s) EXCEPT !.courseLesson = FALSE])

(* loadCourseLesson: the lesson, or 404 and what the caller does then. *)
Lesson(s) ==
    /\ flow[s].at = "lesson"
    /\ \/ Done(s, [Phase("lesson") EXCEPT !.courseLesson = TRUE, !.view = None, !.assessment = None])
       \/ /\ flow[s].kind \in {"start", "continue", "nextAction"}
          /\ Goto(s, "view", page)
       \/ flow[s].kind \in {"check", "poll", "retryLesson", "openLesson"} /\ Throw(s)

(* loadView, first request. *)
View(s) ==
    /\ flow[s].at = "view"
    /\ \E state \in Views :
        /\ flow' = [flow EXCEPT ![s] = [@ EXCEPT !.at = "viewPending", !.state = state]]
        /\ page' = [page EXCEPT !.view = IF state = "retest" THEN state ELSE "other",
                              !.courseLesson = FALSE]

(* loadView, second request: a pending assessment is shown first. *)
ViewPending(s) ==
    /\ flow[s].at = "viewPending"
    /\ \/ Done(s, WithAssessment("abstained"))
       \/ flow[s].state = "unavailable" /\ Throw(s)
       \/ flow[s].state = "complete" /\ Done(s, Phase("summary"))
       \/ flow[s].state = "retest" /\ Done(s, Phase("lesson"))
       \/ flow[s].state = "question" /\ ShowQuestion(s, "initial")

(* nextAction, by the tutor's decision. *)
Next_(s) ==
    /\ flow[s].at = "next"
    /\ \/ Done(s, Phase("summary"))                                  \* session_complete
       \/ Goto(s, "view", page)                                      \* reteach and the end of a loop
       \/ ShowQuestion(s, "retest")                                  \* retest
       \/ Goto(s, "lesson", page)                                    \* advance, review

Complete(s) == flow[s].at = "complete" /\ Goto(s, "view", page)

Regenerate(s) ==
    /\ flow[s].at = "regenerate"
    /\ Done(s, Phase(IF flow[s].kind = "regenerateLesson" THEN "preparing" ELSE "placement_pending"))

(* The result of an answer. *)
Answer(s) ==
    /\ flow[s].at = "answer"
    /\ \/ /\ flow[s].kind \in {"grade", "fallback"}
          /\ \E outcome \in {"graded"} \cup IF flow[s].kind = "grade" THEN {"abstained"} ELSE {} :
                Done(s, WithAssessment(outcome))
       \/ /\ flow[s].kind \in {"placementAnswer", "placementFallback"}
          /\ \E result \in {"graded"} \cup IF flow[s].kind = "placementAnswer" THEN {"abstained"} ELSE {} :
                Done(s, [Phase("placement_result") EXCEPT !.placementResult = result])

Respond(s) ==
    /\ flow[s] # Idle
    /\ \/ Preflight(s) \/ Session(s) \/ Placement(s) \/ PlacementPending(s) \/ Pending(s) \/ Lesson(s)
       \/ View(s) \/ ViewPending(s) \/ Next_(s) \/ Complete(s) \/ Regenerate(s) \/ Answer(s)
    /\ crossed' = (crossed \/ ~Alone(s))

(* The request fails, or its response is not valid. *)
Reject(s) ==
    /\ flow[s] # Idle
    /\ Throw(s)
    /\ crossed' = (crossed \/ ~Alone(s) \/ flow[s].at = "placementPending")

Next ==
    \E s \in Slots :
        \/ Press(s) \/ Poll(s) \/ PollPlacement(s) \/ OpenLesson(s) \/ ActivationFails(s)
        \/ Respond(s) \/ Reject(s)

(* Every request is answered or fails. *)
Fairness == \A s \in Slots : WF_vars(Respond(s) \/ Reject(s))

Spec == Init /\ [][Next]_vars /\ Fairness

-----------------------------------------------------------------------------
TypeOK ==
    /\ page.phase \in Phases
    /\ page.view \in {None, "retest", "other"}
    /\ page.question \in BOOLEAN
    /\ page.assessment \in {None, "abstained", "graded"}
    /\ page.placement \in {None, "question", "other"}
    /\ \A s \in Slots : flow[s].kind \in {None} \cup Learners \cup Background

(* A page that says it is busy is: some function the learner started is     *)
(* still going to replace the spinner, however polls and events cross it.   *)
BusyIsWaiting ==
    page.phase \in {"checking", "submitting"} =>
        \E s \in Slots : flow[s].kind \in
            {"start", "continue", "nextAction", "completeLesson", "grade", "fallback"}

(* What each block of the page needs beside its phase: the quiz, ...        *)
PlacementRendered ==
    /\ page.phase \in {"placement_pending", "placement_failed", "placement_complete"} => page.placement # None
    /\ page.phase = "placement_question" => page.placement = "question"
    /\ page.phase = "placement_result" => page.placementResult # None

(* ... a question and its result, ...                                      *)
AnswerRendered ==
    /\ page.phase = "question" => page.view # None /\ page.question
    /\ page.phase = "result" => page.assessment # None

(* ... a lesson of the course or of a reteach, ...                         *)
LessonRendered == page.phase = "lesson" => page.courseLesson \/ page.view = "retest"

(* ... and the summary; what remains is shown in its phase alone.          *)
SummaryRendered == page.phase = "summary" => page.view # None

Rendered == PlacementRendered /\ AnswerRendered /\ LessonRendered /\ SummaryRendered

(* When nothing is awaited, the page shows something, provided that no      *)
(* response was applied while another function awaited one.  A response     *)
(* that crosses another function's can leave the page blank: a poll that    *)
(* began before an answer was given clears placementResult after the        *)
(* answer is shown (flow-b-study.tsx:686), and nothing draws the phase      *)
(* placement_result without it.                                             *)
NeverBlank == (~crossed /\ \A s \in Slots : flow[s] = Idle) => Rendered

(* A spinner is awaited, and where no responses crossed a page that awaits  *)
(* nothing shows something.                                                 *)
PageSound == TypeOK /\ BusyIsWaiting /\ NeverBlank
=============================================================================

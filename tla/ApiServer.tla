----------------------------- MODULE ApiServer ------------------------------
(***************************************************************************)
(* The request listener of the API (apps/api/src/server.ts): what it       *)
(* routes where, in which order it asks for the origin, the session, the   *)
(* CSRF token and the body, and what it answers.  Each action is the code  *)
(* between two awaits.  Signing in and out are the transactions of         *)
(* Accounts; the other handlers are one step, which may have stored what   *)
(* was asked for even when it fails.                                       *)
(***************************************************************************)
EXTENDS Accounts

CONSTANTS
  Routes,      \* the routes that are asked for
  MaxInFlight, \* bound on the requests in flight at a time
  MaxFaults,   \* bound on the failures
  Configured   \* the dependencies the process was started with

VARIABLES
  request,  \* what was sent, and whether its session had ended by then
  phase,    \* where the listener is with it
  status,   \* the answer, 0 for none
  stored,   \* the requests whose handler has committed a change
  faults    \* failures so far

serverVars == <<request, phase, status, stored, faults>>
vars == <<accountVars, serverVars>>

----------------------------------------------------------------------------
(* The routes: before the session is looked at ... *)
Signing == {"magic-link", "redeem"}
Asked == {"private-assets", "preflight"}
Hooks == {"webhooks/telegram"}
AtOnce == {"health", "webhooks/email", "auth-inbox", "options", "unknown"}

(* ... the reads, ... *)
AccountReads == {"account", "library", "session-history", "progress"}
UploadReads == {"uploads/approvals", "uploads/status", "uploads/outline"}
DeliveryReads == {"email-quiz", "delivery-preference"}
SessionReads == {"summary", "placement", "activation/events"}
AssessmentReads == {"assessments/pending-fallback"}
StudyReads == {"state", "lesson"}
AssetReads == {"assets/delivery"}
Reads == AccountReads \cup UploadReads \cup DeliveryReads \cup SessionReads \cup AssessmentReads
            \cup StudyReads \cup AssetReads \cup {"csrf-token"}

(* ... and what changes something. *)
AccountWrites == {"logout", "deletion-start", "archive"}
DeliveryWrites == {"deliveries/dispatch", "delivery-preference/update", "email-quiz/submit"}
SeedWrites == {"seed/reset"}
SessionWrites == {"study-sessions", "lesson/complete", "placement/answers"}
RegenerationWrites == {"activation/regenerate", "assessments/regenerate"}
UploadWrites == {"uploads"}
TutorWrites == {"next", "ask"}
AssessmentWrites == {"answers/short-answer", "answers/replacement"}
Writes == AccountWrites \cup DeliveryWrites \cup SeedWrites \cup SessionWrites
             \cup RegenerationWrites \cup UploadWrites \cup TutorWrites \cup AssessmentWrites

(* The dependency a route cannot be served without. *)
Needed == [r \in Reads \cup Writes \cup Asked \cup Hooks |->
    CASE r \in UploadReads \cup UploadWrites -> "demoUploads"
      [] r \in DeliveryReads \cup DeliveryWrites \cup Hooks -> "delivery"
      [] r \in SessionReads \cup SessionWrites \cup RegenerationWrites -> "sessions"
      [] r \in AssessmentReads \cup AssessmentWrites -> "assessment"
      [] r \in StudyReads -> "study"
      [] r \in AssetReads \cup {"private-assets"} -> "privateAssets"
      [] r \in TutorWrites -> "tutorAgent"
      [] r \in SeedWrites -> "seed"
      [] r = "preflight" -> "preflight"
      [] OTHER -> "accounts"]
Unavailable(r) == IF r \in AssetReads \cup {"private-assets"} THEN 404 ELSE 503

(* Routes that read a body (readJsonBody, readBinaryBody), and those that *)
(* answer 404 to what is not there.                                       *)
WithBody == Signing \cup Hooks \cup UploadWrites \cup AssessmentWrites \cup RegenerationWrites
               \cup ((DeliveryWrites \cup SessionWrites \cup TutorWrites) \ {"study-sessions", "next"})
MayMiss == {"progress", "uploads/status", "uploads/outline", "archive", "study-sessions", "lesson/complete"}
              \cup SessionReads \cup StudyReads \cup AssetReads
Success(r) == IF r \in {"logout", "archive", "webhooks/email", "options"} THEN 204
              ELSE IF r \in {"deletion-start", "uploads", "magic-link"} \cup RegenerationWrites
              THEN 202 ELSE 200

(* The answer to an error: activation, assessment, delivery, tutor, the   *)
(* account, an upload, a body, and any other.                             *)
Hidden == {"activation_denied", "assessment_denied", "delivery_unknown", "tutor_denied", "upload_denied"}
Conflicts == {"not_allowed", "conflicting_duplicate", "grading_in_progress", "retest_unavailable"}
Gone == {"delivery_expired", "link_redeemed"}
Malformed == {"invalid_request", "invalid_input", "fallback_unavailable"}
Unserved == {"projection_unavailable", "dependency", "dispatch_failed", "unavailable"}
ErrorStatus ==
    [ e \in Hidden \cup Conflicts \cup Gone \cup Malformed \cup Unserved
            \cup {"cooldown", "recent_required", "signature", "too_large", "format"} |->
        IF e \in Hidden THEN 404 ELSE IF e \in Conflicts THEN 409 ELSE IF e \in Gone THEN 410
        ELSE IF e \in Malformed THEN 400 ELSE IF e \in Unserved THEN 503
        ELSE IF e = "cooldown" THEN 429 ELSE IF e = "recent_required" THEN 403
        ELSE IF e = "signature" THEN 401 ELSE IF e = "too_large" THEN 413 ELSE 415 ]

(* The errors a handler can end with: those of the component it calls, and *)
(* any other failure.  A repeated command of a delivery that says another *)
(* thing is an invalid input.                                              *)
Graded == AssessmentWrites \cup {"placement/answers"}
Errors(r) == {"unavailable"} \cup
    ( CASE r \in Graded -> {"assessment_denied", "conflicting_duplicate", "grading_in_progress",
                           "fallback_unavailable", "invalid_input", "projection_unavailable"}
        [] r \in AssessmentReads -> {"assessment_denied"}
        [] r \in RegenerationWrites -> {"activation_denied", "cooldown", "not_allowed", "invalid_request"}
        [] r \in DeliveryReads \cup DeliveryWrites ->
             {"delivery_unknown", "delivery_expired", "link_redeemed", "invalid_input", "dispatch_failed"}
        [] r \in Hooks -> {"signature", "delivery_unknown", "delivery_expired", "invalid_input"}
        [] r \in TutorWrites -> {"tutor_denied", "retest_unavailable", "dependency"}
        [] r \in UploadReads -> {"upload_denied"}
        [] r \in UploadWrites -> {"upload_denied", "format", "invalid_request"}
        [] OTHER -> {} )

----------------------------------------------------------------------------
Nothing == [route |-> "none", trusted |-> FALSE, csrf |-> FALSE, ended |-> FALSE]

ServerInit ==
    /\ Init
    /\ request = [p \in Requests |-> Nothing] /\ phase = [p \in Requests |-> "free"]
    /\ status = [p \in Requests |-> 0] /\ stored = {} /\ faults = 0

storeVars == <<clock, user, links, sessions, reserved, allowed, inbox, lock>>
Replied(p, code) == phase' = [phase EXCEPT ![p] = "answered"] /\ status' = [status EXCEPT ![p] = code]

(* An answer; what was asked is remembered when it was a change that is    *)
(* said to be made.                                                        *)
Answered(p, code) ==
    LET kept == code < 300 /\ request[p].route \in Writes
    IN /\ Replied(p, code)
       /\ request' = IF kept THEN request ELSE [request EXCEPT ![p] = Nothing]
       /\ call' = Now(p, "idle", 0, None, IF kept THEN call[p].session ELSE None, "none")
       /\ UNCHANGED storeVars
Await(p, what) == phase' = [phase EXCEPT ![p] = what] /\ UNCHANGED status
Waits(p, what) == Await(p, what) /\ UNCHANGED accountVars
InFlight == {p \in Requests : phase[p] \notin {"free", "answered", "lost"}}
Ended(s) == s = None \/ sessions[s].state # "open" \/ user # "active"

(* A browser sends a request: it knows the links of its inbox and the     *)
(* sessions it was given.  What follows runs up to the first await.       *)
AtOnceStatus(r, trusted) ==
    IF r \in {"auth-inbox", "unknown"} THEN 404
    ELSE IF r = "options" /\ ~trusted THEN 403 ELSE Success(r)
Cookies == {None} \cup {s \in Sessions : sessions[s].state # "unused"}
Receive(p, r, trusted, csrf, l, s) ==
    /\ phase[p] = "free" /\ Cardinality(InFlight) < MaxInFlight
    /\ request' = [request EXCEPT ![p] = [route |-> r, trusted |-> trusted, csrf |-> csrf, ended |-> Ended(s)]]
    /\ \/ r \in AtOnce /\ Replied(p, AtOnceStatus(r, trusted))
            /\ UNCHANGED accountVars
       \/ r \in Asked \cup Hooks
            /\ IF Needed[r] \notin Configured THEN Replied(p, Unavailable(r)) /\ UNCHANGED accountVars
               ELSE Waits(p, IF r \in Asked THEN "asked" ELSE "body")
       \/ r \in Signing
            /\ IF trusted THEN Await(p, "body") /\ call' = Now(p, "idle", 0, l, None, "none") /\ UNCHANGED storeVars
               ELSE Replied(p, 403) /\ UNCHANGED accountVars
       \/ r \in Reads \cup Writes /\ BeginAuthenticate(p, s) /\ Await(p, "session")
    /\ UNCHANGED stored

(* The account is known: a read, or a change that has its CSRF token. *)
MayChangeTrusted(p) == request[p].trusted
MayChange(p) == request[p].trusted /\ request[p].csrf
Authenticated(p) ==
    LET r == request[p].route
    IN /\ phase[p] = "session" /\ call[p].step = "returned" /\ call[p].result = "account"
       /\ IF r = "csrf-token" THEN Answered(p, IF request[p].csrf THEN 200 ELSE 403)
          ELSE IF r \in Writes /\ ~MayChange(p) THEN Answered(p, 403)
          ELSE IF r = "logout" THEN BeginLogout(p) /\ Await(p, "account") /\ UNCHANGED request
          ELSE IF r = "deletion-start" THEN BeginDeletion(p) /\ Await(p, "account") /\ UNCHANGED request
          ELSE IF Needed[r] \notin Configured THEN Answered(p, Unavailable(r))
          ELSE Waits(p, IF r \in WithBody THEN "body" ELSE "handler") /\ UNCHANGED request
       /\ UNCHANGED stored

(* The body was read, or it is not what the route asks for. *)
ReadBody(p) ==
    LET r == request[p].route
    IN /\ phase[p] = "body"
       /\ \/ r = "magic-link" /\ BeginMagicLink(p) /\ Await(p, "account") /\ UNCHANGED request
          \/ r = "redeem" /\ BeginRedeem(p, call[p].link) /\ Await(p, "account") /\ UNCHANGED request
          \/ r \notin Signing /\ Waits(p, "handler") /\ UNCHANGED request
          \/ \E e \in {"invalid_request", "too_large"} : Answered(p, ErrorStatus[e])
       /\ UNCHANGED stored

(* A handler of another component: it answers, finds nothing, or throws;  *)
(* what fails to be served may have been stored, and what could not be    *)
(* projected has been.                                                    *)
StoredBefore(p, e) ==
    IF e = "projection_unavailable" THEN {stored \cup {p}}
    ELSE IF e \in Unserved /\ request[p].route \in Writes THEN {stored, stored \cup {p}} ELSE {stored}
Handle(p) ==
    LET r == request[p].route
    IN /\ phase[p] = "handler"
       /\ \/ Answered(p, Success(r)) /\ stored' = IF r \in Writes THEN stored \cup {p} ELSE stored
          \/ r \in MayMiss /\ Answered(p, 404) /\ UNCHANGED stored
          \/ \E e \in Errors(r) : Answered(p, ErrorStatus[e]) /\ stored' \in StoredBefore(p, e)

(* What the account service returned. *)
AccountStatusSwallowing(p) ==
    IF call[p].result = "refused" THEN 401 ELSE Success(request[p].route)
AccountStatus(p) ==
    IF call[p].result = "refused" THEN 401
    ELSE IF call[p].result \in DOMAIN ErrorStatus THEN ErrorStatus[call[p].result]
    ELSE Success(request[p].route)
Serviced(p) ==
    /\ phase[p] = "account" /\ call[p].step = "returned" /\ Answered(p, AccountStatus(p))
    /\ stored' = IF call[p].result \in {"opened", "done"} THEN stored \cup {p} ELSE stored

(* No account: 401, or 503 when the database could not say. *)
Refusal(result) == IF result = "refused" THEN 401 ELSE 503
Refused(p) ==
    /\ phase[p] = "session" /\ call[p].step = "returned" /\ call[p].result # "account"
    /\ Answered(p, Refusal(call[p].result))
    /\ UNCHANGED stored

(* private-assets and preflight are awaited outside the listener's try: a *)
(* rejection has no handler, the process ends, and with it every request  *)
(* it had not answered.                                                   *)
Asks(p) ==
    /\ phase[p] = "asked"
    /\ \E code \in {200, IF request[p].route = "preflight" THEN 503 ELSE 404} : Answered(p, code)
    /\ UNCHANGED stored
Rejected(p) ==
    /\ phase[p] = "asked"
    /\ phase' = [q \in Requests |-> IF q \in InFlight THEN "lost" ELSE phase[q]]
    /\ lock' = [r \in DOMAIN lock |-> Free] /\ allowed' = {}
    /\ call' = [q \in Requests |-> IF q \in InFlight THEN Idle ELSE call[q]]
    /\ UNCHANGED <<clock, user, links, sessions, reserved, inbox, request, status, stored>>

Step(p) ==
    \/ (Authenticated(p) \/ Refused(p) \/ ReadBody(p) \/ Handle(p) \/ Serviced(p) \/ Asks(p)) /\ UNCHANGED faults
    \/ Serve(p) /\ UNCHANGED serverVars

Fault(p) ==
    /\ faults < MaxFaults /\ faults' = faults + 1
    /\ Rejected(p) \/ (Fail(p) /\ UNCHANGED <<request, phase, status, stored>>)

(* A browser, a provider or a probe. *)
Arrive(routes) ==
    \E p \in Requests, r \in routes, trusted, csrf \in BOOLEAN, s \in Cookies :
      \E l \in (IF r = "redeem" THEN inbox ELSE {None}) :
        /\ r \notin Reads \cup Writes => csrf /\ s = None
        /\ Receive(p, r, trusted, csrf, l, s) /\ UNCHANGED faults
Work == \E p \in Requests : Step(p) \/ Fault(p)

Next == Arrive(Routes) \/ Work \/ (Tick /\ UNCHANGED serverVars)

Spec == ServerInit /\ [][Next]_vars

----------------------------------------------------------------------------
TypeOK ==
    /\ AccountTypeOK
    /\ \A p \in Requests :
         /\ phase[p] \in {"free", "session", "body", "handler", "account", "asked", "answered", "lost"}
         /\ (phase[p] = "answered") = (status[p] # 0)
    /\ stored \subseteq Requests

(* A request whose session had ended when it was sent changes nothing and *)
(* is told to sign in; nor does one without the CSRF token of its session *)
(* (authenticate, verifyCsrf).                                            *)
ChangesAreAuthorized == \A p \in stored :
    request[p].route \in Writes => request[p].trusted /\ request[p].csrf /\ ~request[p].ended

(* A change that is answered with success has been made: the session of a *)
(* logout is over, the user of a deletion is leaving, and all else is     *)
(* stored (the handlers answer after their commit).                       *)
ToldIsDone == \A p \in Requests : phase[p] = "answered" /\ status[p] < 300 =>
    LET r == request[p].route
    IN /\ r = "logout" => sessions[call[p].session].state = "revoked"
       /\ r = "deletion-start" => user = "deletion_pending"
       /\ r \in Writes \ {"logout", "deletion-start"} => p \in stored

(* What the API changes was authorized, and what it answers was done. *)
AnswersSound == TypeOK /\ ChangesAreAuthorized /\ ToldIsDone
=============================================================================

---------------------------- MODULE UploadPanel -----------------------------
(***************************************************************************)
(* Building a course from a PDF: the panel of the page                     *)
(* (apps/web/src/demo-upload-panel.tsx), whose effects start timers and    *)
(* requests when the selected course or the upload that is shown changes,  *)
(* and the service behind it (apps/api/src/demo-upload.ts), with           *)
(* PostgresDemoUploadRepository.  What becomes of an upload that is        *)
(* scheduled is CourseProcessing: here it ends in one of its ways.  Each   *)
(* action is the code between two awaits.                                  *)
(***************************************************************************)
EXTENDS Naturals, FiniteSets

CONSTANTS
  Uploads,    \* ids of uploads, numbers from 1 on
  Submits,    \* submissions of the form that can be in flight at a time
  MaxMoves,   \* bound on what the learner does
  MaxFaults   \* bound on requests, workers and processes that fail

None == 0

VARIABLES
  uploads,    \* source_document, course and operations of each upload
  scheduled,  \* the uploads the process works on
  panel,      \* what the panel shows and remembers
  get, poll, outlineGet,  \* the timer or the request of each effect
  submits,    \* the submissions in flight
  moves, faults

vars == <<uploads, scheduled, panel, get, poll, outlineGet, submits, moves, faults>>

----------------------------------------------------------------------------
(* uploadState and demoUploadPresentation: a working upload is polled and *)
(* locks the form, one that is ready locks it.                            *)
Absent == [state |-> "absent", archived |-> FALSE, replaces |-> None]
Visible(u) == u # None /\ uploads[u].state # "absent" /\ ~uploads[u].archived
Recoverable == {u \in Uploads : Visible(u) /\ uploads[u].state = "working"}
PolledStates == {"working"}
Locks(state) == state \in {"working", "outline_ready"}

NoView == [id |-> None, state |-> "none"]
View(u) == [id |-> u, state |-> uploads[u].state]
RejectedView == [id |-> None, state |-> "failed"]

NoSubmit == [phase |-> "free", replaces |-> None, upload |-> None, lost |-> FALSE]

(* One upload failed and may be tried again, or is at work. *)
Init ==
    /\ \E state \in {"failed_retryable", "working"} :
         /\ uploads = [u \in Uploads |-> IF u = 1 THEN [Absent EXCEPT !.state = state] ELSE Absent]
         /\ scheduled = IF state = "working" THEN {1} ELSE {}
    /\ panel = [approvals |-> "loading", tracked |-> None, resolved |-> None, screen |-> "idle", shown |-> NoView,
                outline |-> None, submission |-> "idle", guard |-> FALSE, file |-> FALSE]
    /\ get = "timer" /\ poll = "none" /\ outlineGet = "none"
    /\ submits = [s \in Submits |-> NoSubmit] /\ moves = 0 /\ faults = 0

serviceVars == <<uploads, scheduled>>
Moves == moves < MaxMoves /\ moves' = moves + 1 /\ UNCHANGED faults
Quiet == UNCHANGED <<moves, faults>>
Fault == faults < MaxFaults /\ faults' = faults + 1 /\ UNCHANGED moves

----------------------------------------------------------------------------
(* loadApprovals: a failure can be tried again; an answer that hides the   *)
(* panel (404), or one whose body cannot be read, leaves no form for good. *)
ApprovalsAnswered ==
    /\ panel.approvals = "loading" /\ panel' = [panel EXCEPT !.approvals = "ready"] /\ Quiet
    /\ UNCHANGED <<serviceVars, get, poll, outlineGet, submits>>
ApprovalsFail ==
    /\ panel.approvals = "loading" /\ Fault
    /\ \E screen \in {"error", "closed"} : panel' = [panel EXCEPT !.approvals = screen]
    /\ UNCHANGED <<serviceVars, get, poll, outlineGet, submits>>
RetryApprovals ==
    /\ panel.approvals = "error" /\ panel' = [panel EXCEPT !.approvals = "loading"] /\ Moves
    /\ UNCHANGED <<serviceVars, get, poll, outlineGet, submits>>

(* The effects that a new upload starts again: setUpload. *)
NotPolled(view) == "none"
PollOf(view) == IF view.state \in PolledStates THEN "timer" ELSE "none"
OutlineOf(view, outline) == IF view.state = "outline_ready" /\ outline = None THEN "timer" ELSE "none"
Show(view, rest) ==
    /\ panel' = [rest EXCEPT !.shown = view, !.guard = Locks(view.state)]
    /\ poll' = PollOf(view) /\ outlineGet' = OutlineOf(view, rest.outline)

----------------------------------------------------------------------------
(* The course that is selected in the dashboard changes, or the learner   *)
(* asks for its status again: the request in flight is aborted.           *)
Track(u) ==
    /\ Moves /\ u # panel.tracked
    /\ u = None \/ (Visible(u) /\ uploads[u].state # "outline_ready")
    /\ panel' = [panel EXCEPT !.tracked = u] /\ get' = "timer"
    /\ UNCHANGED <<serviceVars, poll, outlineGet, submits>>
TrackAgain ==
    /\ Moves /\ panel.screen = "error" /\ get' = "timer"
    /\ UNCHANGED <<serviceVars, panel, poll, outlineGet, submits>>

(* Its timer: the panel starts anew, while a submission goes on. *)
Emptied == [panel EXCEPT !.resolved = None, !.shown = NoView, !.outline = None, !.file = FALSE,
                         !.submission = "idle", !.guard = (panel.tracked # None),
                         !.screen = IF panel.tracked = None THEN "idle" ELSE "loading"]
StartTracking ==
    /\ get = "timer" /\ Quiet
    /\ panel' = Emptied
    /\ get' = IF panel.tracked = None THEN "none" ELSE "asked"
    /\ poll' = "none" /\ outlineGet' = "none"
    /\ UNCHANGED <<serviceVars, submits>>

(* ApprovedDemoUploadService.get: work that is not scheduled is scheduled *)
(* again.                                                                 *)
RescheduledNot(u) == scheduled
Rescheduled(u) == scheduled \cup ({u} \cap Recoverable)
Got(u) == IF Visible(u) THEN scheduled' = Rescheduled(u) /\ UNCHANGED uploads ELSE UNCHANGED serviceVars

TrackedAnswered ==
    LET u == panel.tracked
        rest == [panel EXCEPT !.resolved = u]
    IN /\ get = "asked" /\ get' = "none" /\ Got(u)
       /\ IF Visible(u) THEN Show(View(u), [rest EXCEPT !.submission = "tracking", !.screen = "ready"])
          ELSE panel' = [rest EXCEPT !.screen = "error"] /\ UNCHANGED <<poll, outlineGet>>
       /\ Quiet /\ UNCHANGED submits
TrackedFails ==
    /\ get = "asked" /\ get' = "none" /\ Fault
    /\ panel' = [panel EXCEPT !.resolved = panel.tracked, !.screen = "error"]
    /\ UNCHANGED <<serviceVars, poll, outlineGet, submits>>

(* poll: the status is asked for until it is final; a failure is no end. *)
PollTimer ==
    /\ poll = "timer" /\ poll' = "asked" /\ Quiet
    /\ UNCHANGED <<serviceVars, panel, get, outlineGet, submits>>
PollAnswered ==
    LET u == panel.shown.id
    IN /\ poll = "asked" /\ Got(u) /\ Quiet
       /\ IF Visible(u) THEN Show(View(u), panel)
          ELSE poll' = "timer" /\ UNCHANGED <<panel, outlineGet>>
       /\ UNCHANGED <<get, submits>>
PollFails ==
    /\ poll = "asked" /\ poll' = "timer" /\ Fault
    /\ UNCHANGED <<serviceVars, panel, get, outlineGet, submits>>

(* The outline of the upload that is shown, while none is there. *)
OutlineTimer ==
    /\ outlineGet = "timer" /\ outlineGet' = "asked" /\ Quiet
    /\ UNCHANGED <<serviceVars, panel, get, poll, submits>>
OutlineAnswered ==
    LET u == panel.shown.id
    IN /\ outlineGet = "asked" /\ outlineGet' = "none" /\ Quiet
       /\ panel' = IF Visible(u) THEN [panel EXCEPT !.outline = u, !.submission = "tracking"] ELSE panel
       /\ UNCHANGED <<serviceVars, get, poll, submits>>
OutlineFails ==
    /\ outlineGet = "asked" /\ outlineGet' = "none" /\ Fault
    /\ UNCHANGED <<serviceVars, panel, get, poll, submits>>

----------------------------------------------------------------------------
FormLocked ==
    \/ panel.approvals # "ready" \/ panel.submission = "submitting" \/ Locks(panel.shown.state)
    \/ panel.tracked # None /\ (panel.screen = "loading" \/ panel.resolved # panel.tracked)
    \/ panel.screen = "error"

ChooseFile ==
    /\ ~FormLocked /\ ~panel.file /\ panel' = [panel EXCEPT !.file = TRUE] /\ Moves
    /\ UNCHANGED <<serviceVars, get, poll, outlineGet, submits>>

(* submit: a failed upload that may be tried again is replaced. *)
Replaced == IF panel.shown.state = "failed_retryable" THEN panel.shown.id ELSE None
FreeSubmit == CHOOSE s \in Submits : submits[s] = NoSubmit
Submit(s) ==
    /\ submits[s] = NoSubmit /\ ~FormLocked /\ ~panel.guard /\ panel.file /\ s = FreeSubmit /\ Moves
    /\ panel' = [panel EXCEPT !.guard = TRUE, !.outline = None, !.submission = "submitting"]
    /\ submits' = [submits EXCEPT ![s] = [NoSubmit EXCEPT !.phase = "csrf", !.replaces = Replaced]]
    /\ UNCHANGED <<serviceVars, get, poll, outlineGet>>
Goes(s, phase) == submits' = [submits EXCEPT ![s].phase = phase]
SubmitToken(s) ==
    /\ submits[s].phase = "csrf" /\ Goes(s, "post") /\ Quiet
    /\ UNCHANGED <<serviceVars, panel, get, poll, outlineGet>>

(* ApprovedDemoUploadService.create: a file that is not approved has a    *)
(* view and no upload; a replacement waits for the lease of what it       *)
(* replaces, which must have failed.                                      *)
InService == {"check", "put", "create", "reread"}
Leased(s) == \E t \in Submits \ {s} : submits[t].phase \in InService /\ submits[t].replaces = submits[s].replaces
Create(s) ==
    /\ submits[s].phase = "post" /\ Quiet
    /\ \/ Goes(s, "rejected")
       \/ submits[s].replaces = None /\ Goes(s, "put")
       \/ submits[s].replaces # None /\ ~Leased(s) /\ Goes(s, "check")
    /\ UNCHANGED <<serviceVars, panel, get, poll, outlineGet>>
Check(s) ==
    LET u == submits[s].replaces
    IN /\ submits[s].phase = "check" /\ Quiet
       /\ Goes(s, IF Visible(u) /\ uploads[u].state = "failed_retryable" THEN "put" ELSE "refused")
       /\ UNCHANGED <<serviceVars, panel, get, poll, outlineGet>>
Put(s) ==
    /\ submits[s].phase = "put" /\ Goes(s, "create") /\ Quiet
    /\ UNCHANGED <<serviceVars, panel, get, poll, outlineGet>>

(* PostgresDemoUploadRepository.create: the course that is replaced is    *)
(* archived in the transaction that creates the other.                    *)
Replaceable(u) == Visible(u) /\ uploads[u].state = "failed_retryable"
RetiredNot(upload) == upload
Retired(upload) == [upload EXCEPT !.archived = TRUE]
Commit(s) ==
    LET r == submits[s].replaces
    IN /\ submits[s].phase = "create" /\ Quiet
       /\ IF r # None /\ ~Replaceable(r) THEN Goes(s, "refused") /\ UNCHANGED uploads
          ELSE \E u \in {u \in Uploads : uploads[u] = Absent /\ \A v \in Uploads : v < u => uploads[v] # Absent} :
                 /\ uploads' = [v \in Uploads |->
                       IF v = u THEN [state |-> "working", archived |-> FALSE, replaces |-> r]
                       ELSE IF v = r THEN Retired(uploads[v]) ELSE uploads[v]]
                 /\ submits' = [submits EXCEPT ![s].phase = "reread", ![s].upload = u]
       /\ UNCHANGED <<scheduled, panel, get, poll, outlineGet>>
Reread(s) ==
    LET u == submits[s].upload
    IN /\ submits[s].phase = "reread" /\ Quiet
       /\ IF Visible(u) THEN scheduled' = scheduled \cup {u} /\ Goes(s, "created")
          ELSE UNCHANGED scheduled /\ Goes(s, "refused")
       /\ UNCHANGED <<uploads, panel, get, poll, outlineGet>>
(* A request fails on its way or in the service. *)
SubmitFails(s) ==
    /\ submits[s].phase \in {"csrf", "post", "created"} \cup InService /\ Goes(s, "refused") /\ Fault
    /\ UNCHANGED <<serviceVars, panel, get, poll, outlineGet>>

(* The browser loses the request while the service works on it: the form  *)
(* can be sent again, and the service goes on.                            *)
SubmitLost(s) ==
    /\ submits[s].phase \in {"post"} \cup InService /\ ~submits[s].lost /\ Fault
    /\ submits' = [submits EXCEPT ![s].lost = TRUE]
    /\ panel' = [panel EXCEPT !.guard = FALSE, !.submission = "idle"]
    /\ UNCHANGED <<serviceVars, get, poll, outlineGet>>

(* A token or an answer whose body cannot be read ends the submission, and *)
(* the form is at "submitting" until another course is selected.           *)
SubmitUnread(s) ==
    /\ submits[s].phase \in {"csrf", "rejected", "created"} /\ ~submits[s].lost /\ Fault
    /\ submits' = [submits EXCEPT ![s] = NoSubmit]
    /\ UNCHANGED <<serviceVars, panel, get, poll, outlineGet>>

(* The answer: the view of the upload is shown, whatever was selected     *)
(* since, or the form can be sent again; nobody waits for one that the    *)
(* browser has lost.                                                      *)
Told(s) ==
    \/ submits[s].phase = "created" /\ Show(View(submits[s].upload), [panel EXCEPT !.submission = "tracking"])
    \/ submits[s].phase = "rejected" /\ Show(RejectedView, [panel EXCEPT !.submission = "tracking"])
    \/ submits[s].phase = "refused" /\ UNCHANGED <<poll, outlineGet>>
         /\ panel' = [panel EXCEPT !.guard = FALSE, !.submission = "idle"]
SubmitAnswered(s) ==
    /\ submits[s].phase \in {"created", "rejected", "refused"}
    /\ submits' = [submits EXCEPT ![s] = NoSubmit] /\ Quiet
    /\ IF submits[s].lost THEN UNCHANGED <<panel, poll, outlineGet>> ELSE Told(s)
    /\ UNCHANGED <<serviceVars, get>>

----------------------------------------------------------------------------
(* What becomes of an upload: it ends in one of its ways, and not at all  *)
(* when its course is archived.                                           *)
Work(u) ==
    /\ u \in scheduled /\ scheduled' = scheduled \ {u} /\ Quiet
    /\ IF u \in Recoverable
       THEN \E end \in {"outline_ready", "failed_retryable", "failed", "ocr_required"} :
              uploads' = [uploads EXCEPT ![u].state = end]
       ELSE UNCHANGED uploads
    /\ UNCHANGED <<panel, get, poll, outlineGet, submits>>
WorkStops(u) ==
    /\ u \in scheduled /\ scheduled' = scheduled \ {u} /\ Fault
    /\ UNCHANGED <<uploads, panel, get, poll, outlineGet, submits>>

(* The process ends, and another schedules what listRecoverable finds. *)
Restart ==
    /\ Fault /\ scheduled' = Recoverable
    /\ submits' = [s \in Submits |-> IF submits[s].phase \in InService THEN [submits[s] EXCEPT !.phase = "refused"]
                                     ELSE submits[s]]
    /\ UNCHANGED <<uploads, panel, get, poll, outlineGet>>

Archive(u) ==
    /\ Moves /\ Visible(u) /\ uploads' = [uploads EXCEPT ![u].archived = TRUE]
    /\ UNCHANGED <<scheduled, panel, get, poll, outlineGet, submits>>

----------------------------------------------------------------------------
Steps ==
    \/ ApprovalsAnswered \/ StartTracking \/ TrackedAnswered
    \/ OutlineTimer \/ OutlineAnswered
    \/ \E s \in Submits : SubmitToken(s) \/ Create(s) \/ Check(s) \/ Put(s) \/ Commit(s) \/ Reread(s) \/ SubmitAnswered(s)
Polls == PollTimer \/ PollAnswered
Works == \E u \in Uploads : Work(u)

Next ==
    \/ Steps \/ Polls \/ Works
    \/ ApprovalsFail \/ RetryApprovals \/ TrackAgain \/ TrackedFails \/ PollFails \/ OutlineFails \/ ChooseFile
    \/ \E u \in Uploads \cup {None} : Track(u)
    \/ \E u \in Uploads : Archive(u) \/ WorkStops(u)
    \/ \E s \in Submits : Submit(s) \/ SubmitFails(s) \/ SubmitLost(s) \/ SubmitUnread(s)
    \/ Restart

(* Timers fire, requests end, and what is scheduled is worked on. *)
Fairness == WF_vars(Steps) /\ WF_vars(Polls) /\ WF_vars(Works)
Spec == Init /\ [][Next]_vars /\ Fairness

----------------------------------------------------------------------------
TypeOK ==
    /\ \A u \in Uploads : uploads[u].state \in {"absent", "working", "outline_ready", "failed_retryable", "failed", "ocr_required"}
                          /\ uploads[u].replaces \in Uploads \cup {None}
    /\ scheduled \subseteq Uploads /\ panel.tracked \in Uploads \cup {None} /\ panel.outline \in Uploads \cup {None}
    /\ panel.submission \in {"idle", "submitting", "tracking"} /\ panel.guard \in BOOLEAN
    /\ get \in {"none", "timer", "asked"} /\ poll \in {"none", "timer", "asked"} /\ outlineGet \in {"none", "timer", "asked"}

(* A failed upload is replaced once, though it can be submitted again      *)
(* from a page that does not know of the first time, and the lease is lost *)
(* when a process ends (withReplacementLease, create).                     *)
ReplacedOnce == \A u, v \in Uploads :
    uploads[u].replaces # None /\ uploads[u].replaces = uploads[v].replaces => u = v

(* An upload that is shown at work is being asked about: no change of the *)
(* selection and no failure ends the poll.                                *)
Polled == panel.shown.state \in PolledStates => poll # "none"

(* An upload that is shown at work is followed to its end, though its      *)
(* process may have ended, or dropped it, meanwhile (get).                 *)
FollowedToEnd == \A u \in Uploads :
    panel.shown = [id |-> u, state |-> "working"] /\ ~uploads[u].archived
        ~> panel.shown.id # u \/ panel.shown.state # "working" \/ uploads[u].archived

(* A failed upload is replaced once, and one at work is asked about. *)
UploadsTracked == TypeOK /\ ReplacedOnce /\ Polled
=============================================================================

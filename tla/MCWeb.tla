-------------------------------- MODULE MCWeb -------------------------------
(***************************************************************************)
(* The dashboard: the page that loads the library and the progress of a    *)
(* course, and the panel in it that builds a course from a PDF.  They meet *)
(* in what the learner selects, which each of the two takes as it comes:   *)
(* a behaviour is one of one of them, and the other is at rest.            *)
(***************************************************************************)
EXTENDS Naturals, FiniteSets

CONSTANTS
    Courses, NoCourse,  \* the courses of the learner, and none
    RequestIds,         \* loads of the library, or of the progress, in flight at a time
    Uploads, Submits,   \* ids of uploads, and submissions in flight at a time
    MaxMoves, MaxLosses \* bounds on what the learner does and on what fails

VARIABLES server, url, entries, shell, loads, newest, fetches, newestFetch, archive, mail,
          wanted, moves, losses
VARIABLES uploads, scheduled, panel, get, poll, outlineGet, submits, actions, failures
VARIABLE side  \* the part whose behaviour this is

shellVars == <<server, url, entries, shell, loads, newest, fetches, newestFetch, archive, mail,
               wanted, moves, losses>>
panelVars == <<uploads, scheduled, panel, get, poll, outlineGet, submits, actions, failures>>

ASSUME WebAssumption ==
    /\ NoCourse \notin Courses \cup RequestIds /\ RequestIds # {}
    /\ Uploads \subseteq Nat \ {0} /\ 1 \in Uploads
    /\ MaxMoves \in Nat \ {0} /\ MaxLosses \in Nat

Shell == INSTANCE AccountShell WITH None <- NoCourse, Slots <- RequestIds, MaxMoves <- MaxMoves - 1,
                                  MaxFaults <- MaxLosses, faults <- losses
Panel == INSTANCE UploadPanel WITH moves <- actions, faults <- failures, MaxFaults <- MaxLosses

ShellAtRest ==
    /\ server = [signedIn |-> TRUE, library |-> {}] /\ url = NoCourse /\ entries = {}
    /\ shell = [Shell!Opened EXCEPT !.screen = "dashboard"]
    /\ loads = [s \in RequestIds |-> Shell!NoLoad] /\ newest = NoCourse
    /\ fetches = [s \in RequestIds |-> Shell!NoFetch] /\ newestFetch = NoCourse
    /\ archive = Shell!NoArchive /\ mail = FALSE /\ wanted = NoCourse
    /\ moves = 0 /\ losses = 0

PanelAtRest ==
    /\ uploads = [u \in Uploads |-> Panel!Absent] /\ scheduled = {}
    /\ panel = [approvals |-> "ready", tracked |-> 0, resolved |-> 0, screen |-> "idle",
                shown |-> Panel!NoView, outline |-> 0, submission |-> "idle", guard |-> FALSE,
                file |-> FALSE]
    /\ get = "none" /\ poll = "none" /\ outlineGet = "none"
    /\ submits = [s \in Submits |-> Panel!NoSubmit] /\ actions = 0 /\ failures = 0

WebInit ==
    \/ side = "shell" /\ Shell!Init /\ PanelAtRest
    \/ side = "panel" /\ Panel!Init /\ ShellAtRest

WebNext ==
    \/ side = "shell" /\ Shell!Next /\ UNCHANGED <<side, panelVars>>
    \/ side = "panel" /\ Panel!Next /\ UNCHANGED <<side, shellVars>>

WebSpec ==
    /\ WebInit /\ [][WebNext]_<<side, shellVars, panelVars>>
    /\ Shell!Fairness /\ Panel!Fairness

(* AccountShell: the dashboard shows one course, of the address.           *)
(* UploadPanel: a failed upload is replaced once, one at work asked about. *)
DashboardSound == Shell!DashboardMatches /\ Panel!UploadsTracked

(* The learner who tries again is told how it ended (AccountShell), and an *)
(* upload that is shown at work is followed to its end (UploadPanel).      *)
AnswersArrive == Shell!RetryEnds /\ Panel!FollowedToEnd
=============================================================================

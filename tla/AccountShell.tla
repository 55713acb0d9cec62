---------------------------- MODULE AccountShell ----------------------------
(***************************************************************************)
(* The page around the dashboard (apps/web/src/account-shell.tsx): the     *)
(* library and the progress of the selected course are loaded by requests  *)
(* that overlap, and a load applies its answer only while its number is    *)
(* the newest.  A number is kept here as the slot that has it.  Each       *)
(* action is the code between two awaits, or what the server does.         *)
(***************************************************************************)
EXTENDS Naturals, FiniteSets

CONSTANTS
  Courses,    \* the courses of the learner
  None,       \* no course
  Slots,      \* the loads that can be in flight at a time
  MaxMoves,   \* bound on what the learner does
  MaxFaults   \* bound on requests that fail

VARIABLES
  server,     \* is the session open, and which courses are not archived
  url,        \* the course in the address bar
  entries,    \* the addresses the browser's history can go back to
  shell,      \* what the page shows
  loads,      \* loadAccount in flight
  newest,     \* the slot of accountRequestId, None when no load has it
  fetches,    \* loadProgress in flight
  newestFetch,\* the slot of progressRequestId
  archive,    \* archiveCourse in flight
  mail,       \* the form of requestLink is on its way
  wanted,     \* the course the learner asked for last, None for any
  moves, faults

vars == <<server, url, entries, shell, loads, newest, fetches, newestFetch, archive, mail, wanted, moves, faults>>

NoLoad == [phase |-> "free", preferred |-> None, kind |-> "refresh", answer |-> "none", courses |-> {}]
NoFetch == [phase |-> "free", course |-> None, answer |-> "none"]
NoArchive == [phase |-> "idle", course |-> None, slot |-> None]
FreeSlot(f, s) == (\E t \in Slots : f[t].phase = "free") /\ s = CHOOSE t \in Slots : f[t].phase = "free"
Asked(preferred, kind) == [NoLoad EXCEPT !.phase = "asked", !.preferred = preferred, !.kind = kind]

(* A page that was just opened at the address of any course or of none. *)
Opened == [screen |-> "loading", courses |-> {}, selected |-> None, progress |-> None,
           progressScreen |-> "idle", retry |-> "idle"]
Init ==
    /\ server = [signedIn |-> TRUE, library |-> Courses]
    /\ url \in Courses \cup {None} /\ entries = {url}
    /\ shell = Opened
    /\ newest = CHOOSE s \in Slots : TRUE
    /\ loads = [s \in Slots |-> IF s = newest THEN Asked(url, "initial") ELSE NoLoad]
    /\ fetches = [s \in Slots |-> NoFetch] /\ newestFetch = None
    /\ archive = NoArchive /\ mail = FALSE /\ wanted = url /\ moves = 0 /\ faults = 0

----------------------------------------------------------------------------
(* loadAccount and loadProgress up to their first await. *)
Load(s, preferred, kind) ==
    /\ FreeSlot(loads, s) /\ newest' = s
    /\ loads' = [loads EXCEPT ![s] = Asked(preferred, kind)]
Fetch(s, course) ==
    /\ FreeSlot(fetches, s) /\ newestFetch' = s
    /\ fetches' = [fetches EXCEPT ![s] = [phase |-> "asked", course |-> course, answer |-> "none"]]

(* The server answers with what it has now, or something fails on the way. *)
Answers(ok) == IF ~server.signedIn THEN "signed-out" ELSE ok
AnswerLoad(s) ==
    /\ loads[s].phase = "asked"
    /\ loads' = [loads EXCEPT ![s] = [@ EXCEPT !.phase = "answered", !.answer = Answers("ok"),
                                                !.courses = server.library]]
    /\ UNCHANGED <<server, url, entries, shell, newest, fetches, newestFetch, archive, mail, moves, faults, wanted>>
AnswerFetch(s) ==
    /\ fetches[s].phase = "asked"
    /\ fetches' = [fetches EXCEPT ![s] = [@ EXCEPT !.phase = "answered",
          !.answer = Answers(IF fetches[s].course \in server.library THEN "ok" ELSE "error")]]
    /\ UNCHANGED <<server, url, entries, shell, loads, newest, newestFetch, archive, mail, moves, faults, wanted>>
AnswerLost(s) ==
    /\ faults < MaxFaults /\ faults' = faults + 1
    /\ \/ loads[s].phase \in {"asked", "body"} /\ UNCHANGED fetches
            /\ loads' = [loads EXCEPT ![s] = [@ EXCEPT !.phase = "answered", !.answer = "error"]]
       \/ fetches[s].phase \in {"asked", "body"} /\ UNCHANGED loads
            /\ fetches' = [fetches EXCEPT ![s] = [@ EXCEPT !.phase = "answered", !.answer = "error"]]
    /\ UNCHANGED <<server, url, entries, shell, newest, newestFetch, archive, mail, moves, wanted>>

----------------------------------------------------------------------------
CurrentAny(s) == TRUE
Current(s) == s = newest

SignedOutStillPending == [shell EXCEPT !.screen = "signed-out"]
SignedOut == [shell EXCEPT !.screen = "signed-out", !.retry = "idle"]

(* The responses are there: a load that is not the newest is dropped. *)
Failed(kind) == [shell EXCEPT !.screen = "error", !.retry = IF kind = "retry" THEN "failed" ELSE "idle"]
LoadResponds(s) ==
    LET load == loads[s]
    IN /\ load.phase = "answered"
       /\ loads' = [loads EXCEPT ![s] = IF Current(s) /\ load.answer = "ok" THEN [load EXCEPT !.phase = "body"]
                                        ELSE NoLoad]
       /\ shell' = IF ~Current(s) \/ load.answer = "ok" THEN shell
                   ELSE IF load.answer = "signed-out" THEN SignedOut ELSE Failed(load.kind)
       /\ UNCHANGED <<server, url, entries, newest, fetches, newestFetch, archive, mail, moves, faults, wanted>>

(* Their bodies are there: the course of the address, or of the upload, is *)
(* selected again, else any first one, and its progress is asked for.      *)
RestoredOnly(courses, preferred) == {preferred} \cap courses
RestoredAlways(courses, preferred) == IF preferred # None THEN {preferred} ELSE IF courses = {} THEN {None} ELSE courses
Restored(courses, preferred) == IF preferred \in courses THEN {preferred}
                                ELSE IF courses = {} THEN {None} ELSE courses
LoadApplies(s) ==
    LET load == loads[s]
    IN /\ load.phase = "body" /\ loads' = [loads EXCEPT ![s] = NoLoad]
       /\ IF ~Current(s) THEN UNCHANGED <<url, entries, shell, fetches, newestFetch>>
          ELSE \E c \in Restored(load.courses, load.preferred) :
                 /\ url' = c /\ entries' = (entries \ {url}) \cup {c}
                 /\ shell' = [screen |-> "dashboard", courses |-> load.courses, selected |-> c, progress |-> None,
                              progressScreen |-> IF c = None THEN "idle" ELSE "loading", retry |-> "idle"]
                 /\ IF c = None THEN newestFetch' = None /\ UNCHANGED fetches
                    ELSE \E f \in Slots : Fetch(f, c)
       /\ UNCHANGED <<server, newest, archive, mail, moves, faults, wanted>>

CurrentFetchAny(s) == TRUE
CurrentFetch(s) == s = newestFetch
FetchResponds(s) ==
    LET fetch == fetches[s]
        ready == CurrentFetch(s) /\ fetch.answer = "ok"
    IN /\ fetch.phase = "answered"
       /\ fetches' = [fetches EXCEPT ![s] = IF ready THEN [fetch EXCEPT !.phase = "body"] ELSE NoFetch]
       /\ shell' = IF ~CurrentFetch(s) \/ ready THEN shell
                   ELSE IF fetch.answer = "signed-out"
                        THEN [shell EXCEPT !.screen = "signed-out", !.progressScreen = "idle"]
                        ELSE [shell EXCEPT !.progressScreen = "error"]
       /\ UNCHANGED <<server, url, entries, loads, newest, newestFetch, archive, mail, moves, faults, wanted>>
FetchApplies(s) ==
    /\ fetches[s].phase = "body" /\ fetches' = [fetches EXCEPT ![s] = NoFetch]
    /\ shell' = IF CurrentFetch(s) THEN [shell EXCEPT !.progress = fetches[s].course, !.progressScreen = "ready"]
                ELSE shell
    /\ UNCHANGED <<server, url, entries, loads, newest, newestFetch, archive, mail, moves, faults, wanted>>

----------------------------------------------------------------------------
Moves == moves < MaxMoves /\ moves' = moves + 1 /\ UNCHANGED faults

(* onSelectCourse, also from the history of sessions: a load in flight is *)
(* no longer the newest.                                                  *)
SupersedingNothing == newest
Superseding == None
SelectCourse(c) ==
    /\ Moves /\ shell.screen = "dashboard" /\ c \in shell.courses
    /\ newest' = Superseding /\ wanted' = c
    /\ url' = c /\ entries' = entries \cup {c}
    /\ shell' = [shell EXCEPT !.selected = c, !.progress = None, !.progressScreen = "loading"]
    /\ \E f \in Slots : Fetch(f, c)
    /\ UNCHANGED <<server, loads, archive, mail>>

(* onRetryProgress: also when a study step was completed. *)
RefreshProgress ==
    /\ Moves /\ shell.screen = "dashboard" /\ shell.selected # None
    /\ shell' = [shell EXCEPT !.progress = None, !.progressScreen = "loading"]
    /\ \E f \in Slots : Fetch(f, shell.selected)
    /\ UNCHANGED <<server, url, entries, loads, newest, archive, mail, wanted>>

(* onUploadedCourse: the generated course of an upload is opened. *)
OpenUploaded(c) ==
    /\ Moves /\ shell.screen = "dashboard" /\ c \in server.library /\ wanted' = c
    /\ url' = c /\ entries' = entries \cup {c}
    /\ \E s \in Slots : Load(s, c, "refresh")
    /\ UNCHANGED <<server, shell, fetches, newestFetch, archive, mail>>

(* restoreBrowserCourse: the learner goes back or forward. *)
GoBack(c) ==
    /\ Moves /\ c \in entries \ {url} /\ shell.screen \notin {"callback", "expired"}
    /\ url' = c /\ wanted' = c
    /\ \E s \in Slots : Load(s, c, "refresh")
    /\ UNCHANGED <<server, entries, shell, fetches, newestFetch, archive, mail>>

(* retryAccount: once at a time. *)
RetryPending == \E s \in Slots : loads[s].phase # "free" /\ loads[s].kind = "retry"
Retry ==
    /\ Moves /\ shell.screen = "error" /\ shell.retry # "pending" /\ ~RetryPending
    /\ shell' = [shell EXCEPT !.retry = "pending"]
    /\ \E s \in Slots : Load(s, url, "retry")
    /\ UNCHANGED <<server, url, entries, fetches, newestFetch, archive, mail, wanted>>

----------------------------------------------------------------------------
(* archiveCourse: a token is fetched, the course is archived, and the     *)
(* library is loaded again.                                               *)
StartArchive ==
    /\ Moves /\ shell.screen = "dashboard" /\ shell.selected # None /\ archive.phase = "idle"
    /\ archive' = [phase |-> "csrf", course |-> shell.selected, slot |-> None]
    /\ UNCHANGED <<server, url, entries, shell, loads, newest, fetches, newestFetch, mail, wanted>>
ArchiveToken ==
    /\ archive.phase = "csrf"
    /\ archive' = IF server.signedIn THEN [archive EXCEPT !.phase = "post"] ELSE NoArchive
    /\ UNCHANGED <<server, url, entries, shell, loads, newest, fetches, newestFetch, mail, moves, faults, wanted>>
ArchiveCommits ==
    /\ archive.phase = "post" /\ server.signedIn
    /\ server' = [server EXCEPT !.library = @ \ {archive.course}]
    /\ archive' = [archive EXCEPT !.phase = "posted"]
    /\ UNCHANGED <<url, entries, shell, loads, newest, fetches, newestFetch, mail, moves, faults, wanted>>
ArchiveReloads ==
    /\ archive.phase = "posted" /\ wanted' = None
    /\ \E s \in Slots : Load(s, None, "refresh") /\ archive' = [archive EXCEPT !.phase = "reload", !.slot = s]
    /\ UNCHANGED <<server, url, entries, shell, fetches, newestFetch, mail, moves, faults>>
ArchiveEnds ==
    /\ archive.phase = "reload" /\ loads[archive.slot].phase = "free"
    /\ archive' = NoArchive
    /\ UNCHANGED <<server, url, entries, shell, loads, newest, fetches, newestFetch, mail, moves, faults, wanted>>
ArchiveRefused ==
    /\ archive.phase = "post" /\ ~server.signedIn /\ archive' = NoArchive
    /\ UNCHANGED <<server, url, entries, shell, loads, newest, fetches, newestFetch, mail, moves, faults, wanted>>
ArchiveFails ==
    /\ archive.phase \in {"csrf", "post", "posted"} /\ faults < MaxFaults /\ faults' = faults + 1
    /\ archive' = NoArchive
    /\ UNCHANGED <<server, url, entries, shell, loads, newest, fetches, newestFetch, mail, moves, wanted>>

----------------------------------------------------------------------------
(* requestLink: its answer sets the screen, whatever is shown by then. *)
RequestLink ==
    /\ Moves /\ shell.screen = "signed-out" /\ ~mail /\ mail' = TRUE
    /\ UNCHANGED <<server, url, entries, shell, loads, newest, fetches, newestFetch, archive, wanted>>
LinkRequested ==
    /\ mail /\ mail' = FALSE
    /\ \/ shell' = [shell EXCEPT !.screen = "email-sent"] /\ UNCHANGED faults
       \/ faults < MaxFaults /\ faults' = faults + 1 /\ shell' = [shell EXCEPT !.screen = "error"]
    /\ UNCHANGED <<server, url, entries, loads, newest, fetches, newestFetch, archive, moves, wanted>>

(* The link of the mail is opened in this tab (AuthCallback): the page and *)
(* its requests are gone; when it is redeemed, the library is opened.      *)
Away == /\ loads' = [s \in Slots |-> NoLoad] /\ newest' = None
        /\ fetches' = [s \in Slots |-> NoFetch] /\ newestFetch' = None /\ archive' = NoArchive /\ mail' = FALSE
FollowLink ==
    /\ Moves /\ shell.screen = "email-sent" /\ Away
    /\ shell' = [Opened EXCEPT !.screen = "callback"] /\ url' = None /\ entries' = entries \cup {None}
    /\ wanted' = None /\ UNCHANGED server
OpenPage(s) ==
    /\ FreeSlot(loads, s)
    /\ loads' = [t \in Slots |-> IF t = s THEN Asked(None, "initial") ELSE NoLoad] /\ newest' = s
    /\ shell' = Opened
Redeemed ==
    /\ shell.screen = "callback"
    /\ \/ server' = [server EXCEPT !.signedIn = TRUE] /\ UNCHANGED faults /\ \E s \in Slots : OpenPage(s)
       \/ /\ faults < MaxFaults /\ faults' = faults + 1
          /\ shell' = [shell EXCEPT !.screen = "expired"] /\ UNCHANGED <<server, loads, newest>>
    /\ UNCHANGED <<url, entries, fetches, newestFetch, archive, mail, moves, wanted>>
BackToSignIn ==
    /\ Moves /\ shell.screen = "expired" /\ \E s \in Slots : OpenPage(s)
    /\ UNCHANGED <<server, url, entries, fetches, newestFetch, archive, mail, wanted>>

SessionLapses ==
    /\ server.signedIn /\ server' = [server EXCEPT !.signedIn = FALSE] /\ Moves
    /\ UNCHANGED <<url, entries, shell, loads, newest, fetches, newestFetch, archive, mail, wanted>>

Continue ==
    \/ \E s \in Slots : AnswerLoad(s) \/ LoadResponds(s) \/ LoadApplies(s)
    \/ \E s \in Slots : AnswerFetch(s) \/ FetchResponds(s) \/ FetchApplies(s)
    \/ ArchiveToken \/ ArchiveCommits \/ ArchiveReloads \/ ArchiveEnds \/ ArchiveRefused
    \/ LinkRequested \/ Redeemed

Next ==
    \/ Continue
    \/ \E s \in Slots : AnswerLost(s)
    \/ \E c \in Courses : SelectCourse(c) \/ OpenUploaded(c)
    \/ \E c \in Courses \cup {None} : GoBack(c)
    \/ RefreshProgress \/ Retry \/ StartArchive \/ ArchiveFails
    \/ RequestLink \/ FollowLink \/ BackToSignIn \/ SessionLapses

(* A request ends, and its continuation runs. *)
Fairness == WF_vars(Continue)
Spec == Init /\ [][Next]_vars /\ Fairness

----------------------------------------------------------------------------
TypeOK ==
    /\ url \in Courses \cup {None} /\ newest \in Slots \cup {None} /\ newestFetch \in Slots \cup {None}
    /\ shell.screen \in {"loading", "signed-out", "email-sent", "dashboard", "error", "callback", "expired"}
    /\ shell.courses \subseteq Courses /\ shell.selected \in shell.courses \cup {None}
    /\ moves <= MaxMoves /\ faults <= MaxFaults

(* The progress that is shown is of the course that is selected, though   *)
(* the progress of others may still be on its way (loadProgress).         *)
ProgressMatches == shell.screen = "dashboard" /\ shell.progressScreen = "ready" =>
    shell.progress = shell.selected /\ shell.selected # None

(* Once nothing newer is loading, the dashboard shows the course of the   *)
(* address, which is the one the learner asked for last while it is in    *)
(* the library, however moves in the history, selections, uploads and an  *)
(* archived course overlap (accountRequestId, replaceBrowserCourse).      *)
AddressMatches == shell.screen = "dashboard" /\ (newest = None \/ loads[newest].phase = "free") =>
    /\ url = shell.selected
    /\ wanted \in shell.courses => shell.selected = wanted

(* What says that it is loading or trying again waits for a load that can *)
(* end it.                                                                *)
BusyIsWaiting ==
    /\ shell.screen = "loading" \/ shell.retry = "pending" => newest # None /\ loads[newest].phase # "free"
    /\ shell.screen = "dashboard" /\ shell.progressScreen = "loading" =>
          newestFetch # None /\ fetches[newestFetch].phase # "free"

(* A learner who tries again is told how it ended (retryAccount). *)
RetryEnds == shell.retry = "pending" ~> shell.retry # "pending"

(* Loads, selections and moves in the history overlap, and the dashboard  *)
(* still shows one course: the selected one, of the address, with its own *)
(* progress, and it says that it is loading only while it is.             *)
DashboardMatches == TypeOK /\ ProgressMatches /\ AddressMatches /\ BusyIsWaiting
=============================================================================

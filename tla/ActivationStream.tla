-------------------------- MODULE ActivationStream --------------------------
(***************************************************************************)
(* How a page follows the preparation of a course: an event stream that    *)
(* the API writes from the database (streamActivationProgress) and the     *)
(* controller that reads it (createActivationProgressController), which    *)
(* reconnects a few times, then polls a few times, and must neither show a *)
(* snapshot that is older than one it has shown nor turn a finished        *)
(* preparation into a lost connection.                                     *)
(*                                                                         *)
(* A source is named by the generation the controller gave it.  Messages   *)
(* of a source arrive in order, and may still be queued when the           *)
(* controller has closed it.                                               *)
(***************************************************************************)
EXTENDS Naturals, Sequences

CONSTANTS
    Last,            \* the version of the snapshot that is terminal
    MaxReconnects,   \* maxReconnects: 3 in the code
    MaxPolls,        \* maxPolls: 6 in the code
    None

VARIABLES
    progress,    \* the version of the snapshot in the database
    stream,      \* source -> the version the server wrote last, or its end
    wire,        \* source -> events written and not yet dispatched by the browser
    page,        \* the variables of the controller's closure
    timers,      \* which of its timers are set
    poll,        \* the version an unanswered poll has read, or None
    visible,     \* document.visibilityState
    shown,       \* the version the page shows
    opened       \* sources the browser holds open

controller == <<page, timers, opened>>
vars == <<progress, stream, wire, controller, poll, visible, shown>>

-----------------------------------------------------------------------------
Sources == 0..(2 * MaxReconnects + 3)
Versions == 0..Last
Terminal(version) == version = Last
Ended == Last + 1  \* of a stream: its response has ended

Activation(version) == [event |-> "activation", version |-> version]
Open == [event |-> "open"]
Failed == [event |-> "error"]

Init ==
    /\ progress \in Versions
    /\ stream = [s \in Sources |-> None]
    /\ wire = [s \in Sources |-> <<>>]
    /\ page = [connection |-> None, source |-> None, generation |-> 0, live |-> FALSE,
               polls |-> 0, reconnects |-> 0, stopped |-> FALSE, terminal |-> FALSE]
    /\ timers = {"reconnect"}
    /\ poll = None /\ visible \in BOOLEAN /\ shown = 0 /\ opened = {}

-----------------------------------------------------------------------------
(* The server.                                                             *)
(***************************************************************************)

Progress ==
    /\ progress < Last /\ progress' = progress + 1
    /\ UNCHANGED <<stream, wire, controller, poll, visible, shown>>

Write(s, events) == wire' = [wire EXCEPT ![s] = @ \o events]

(* The end of a response reaches the browser as an error of the source. *)
End(s) == stream' = [stream EXCEPT ![s] = Ended]

(* The request is authorized and answered with the current snapshot. *)
StreamBegin(s) ==
    /\ s \in opened /\ stream[s] = None
    /\ IF Terminal(progress)
       THEN Write(s, <<Open, Activation(progress), Failed>>) /\ End(s)
       ELSE /\ Write(s, <<Open, Activation(progress)>>)
            /\ stream' = [stream EXCEPT ![s] = progress]
    /\ UNCHANGED <<progress, controller, poll, visible, shown>>

(* A turn of the loop: the snapshot is written when it differs from the *)
(* previous one, and a terminal one ends the response.                  *)
StreamPoll(s) ==
    /\ s \in opened /\ stream[s] \in Versions /\ stream[s] # progress
    /\ IF Terminal(progress)
       THEN Write(s, <<Activation(progress), Failed>>) /\ End(s)
       ELSE /\ Write(s, <<Activation(progress)>>)
            /\ stream' = [stream EXCEPT ![s] = progress]
    /\ UNCHANGED <<progress, controller, poll, visible, shown>>

(* maxConnectionMs has passed, the session is gone or a read failed: the   *)
(* reconnect and the error event have the same listener.                   *)
StreamEnds(s) ==
    /\ s \in opened /\ stream[s] # Ended
    /\ Write(s, <<Failed>>) /\ End(s)
    /\ UNCHANGED <<progress, controller, poll, visible, shown>>

-----------------------------------------------------------------------------
(* The controller.                                                         *)
(***************************************************************************)

(* closeSource: what the source still delivers is of an older generation. *)
Closed(p) == [p EXCEPT !.source = None, !.generation = @ + 1]

FallbackOnce(p) == IF p.stopped \/ p.live \/ p.polls > 0 THEN {} ELSE {"fallback"}

FallbackUncounted(p) == IF p.stopped \/ p.live \/ p.polls > MaxPolls THEN {} ELSE {"fallback"}

(* scheduleFallback, as the timer it sets. *)
Fallback(p) == IF p.stopped \/ p.live \/ p.polls >= MaxPolls THEN {} ELSE {"fallback"}

(* moveOffline. *)
Offline(p) ==
    /\ page' = [p EXCEPT !.live = FALSE, !.connection = "offline"]
    /\ timers' = (timers \ {"connection", "reconnect"}) \cup Fallback([p EXCEPT !.live = FALSE])

CurrentUntilStopped(s) == ~page.stopped

(* An event of another source, or after the end, changes nothing. *)
Current(s) == ~page.stopped /\ ~page.terminal /\ s = page.generation

RetryLeavingSource ==
    LET p == Closed(page) IN
    /\ UNCHANGED opened
    /\ IF p.reconnects >= MaxReconnects
       THEN Offline(p)
       ELSE /\ page' = [p EXCEPT !.live = FALSE, !.reconnects = @ + 1, !.connection = "connecting"]
            /\ timers' = (timers \ {"connection"}) \cup {"reconnect"}

(* retryConnection. *)
Retry ==
    LET p == Closed(page) IN
    /\ opened' = opened \ {page.source}
    /\ IF p.reconnects >= MaxReconnects
       THEN Offline(p)
       ELSE /\ page' = [p EXCEPT !.live = FALSE, !.reconnects = @ + 1, !.connection = "connecting"]
            /\ timers' = (timers \ {"connection"}) \cup {"reconnect"}

(* connect, from the timer that starts it; the browser may refuse to *)
(* create the source.                                                *)
Connect ==
    /\ "reconnect" \in timers
    /\ \/ /\ page.stopped \/ page.terminal
          /\ timers' = timers \ {"reconnect"}
          /\ UNCHANGED <<page, opened>>
       \/ /\ ~page.stopped /\ ~page.terminal /\ ~visible
          /\ Offline(page)
          /\ UNCHANGED opened
       \/ /\ ~page.stopped /\ ~page.terminal /\ visible
          /\ LET s == page.generation + 1 IN
             /\ page' = [page EXCEPT !.connection = "connecting", !.source = s, !.generation = s]
             /\ opened' = opened \cup {s}
             /\ timers' = (timers \ {"reconnect"}) \cup {"connection"}
       \/ /\ ~page.stopped /\ ~page.terminal /\ visible
          /\ LET p == Closed(page) IN
             IF p.reconnects >= MaxReconnects
             THEN Offline(p)
             ELSE /\ page' = [p EXCEPT !.reconnects = @ + 1, !.connection = "connecting"]
                  /\ UNCHANGED timers
          /\ UNCHANGED opened
    /\ UNCHANGED <<progress, stream, wire, poll, visible, shown>>

(* The connection timer: 8 s without onopen. *)
ConnectionTimeout ==
    /\ "connection" \in timers
    /\ Retry
    /\ UNCHANGED <<progress, stream, wire, poll, visible, shown>>

Dispatched(s) == wire' = [wire EXCEPT ![s] = Tail(@)]

OnOpen(s) ==
    /\ wire[s] # <<>> /\ Head(wire[s]) = Open
    /\ Dispatched(s)
    /\ IF Current(s)
       THEN /\ page' = [page EXCEPT !.live = TRUE, !.connection = "live"]
            /\ timers' = timers \ {"connection", "fallback"}
       ELSE UNCHANGED <<page, timers>>
    /\ UNCHANGED <<progress, stream, opened, poll, visible, shown>>

AcceptsAnySource(s) == ~page.stopped /\ ~page.terminal /\ page.connection # "offline"

(* accept reads a snapshot of the current source only. *)
Accepts(s) == Current(s)

(* accept: terminal is set before React is notified, and then everything *)
(* is closed.                                                            *)
OnActivation(s) ==
    /\ wire[s] # <<>> /\ Head(wire[s]).event = "activation"
    /\ Dispatched(s)
    /\ LET version == Head(wire[s]).version IN
       IF ~Accepts(s)
       THEN UNCHANGED <<controller, shown>>
       ELSE /\ shown' = version
            /\ IF Terminal(version)
               THEN /\ page' = Closed([page EXCEPT !.terminal = TRUE, !.live = FALSE,
                                                   !.connection = "idle"])
                    /\ timers' = timers \ {"connection", "fallback", "reconnect"}
                    /\ opened' = opened \ {page.source}
               ELSE /\ page' = [page EXCEPT !.live = TRUE, !.connection = "live"]
                    /\ timers' = timers \ {"fallback"}
                    /\ UNCHANGED opened
    /\ UNCHANGED <<progress, stream, poll, visible>>

OnError(s) ==
    /\ wire[s] # <<>> /\ Head(wire[s]) = Failed
    /\ Dispatched(s)
    /\ IF Current(s) THEN Retry ELSE UNCHANGED controller
    /\ UNCHANGED <<progress, stream, poll, visible, shown>>

(* The fallback timer: a hidden page waits, a visible one polls. *)
FallbackTimer ==
    /\ "fallback" \in timers
    /\ IF page.stopped \/ ~visible
       THEN /\ timers' = (timers \ {"fallback"}) \cup Fallback(page)
            /\ UNCHANGED <<page, poll>>
       ELSE /\ timers' = timers \ {"fallback"}
            /\ page' = [page EXCEPT !.polls = @ + 1]
            /\ poll' = progress
    /\ UNCHANGED <<progress, stream, wire, opened, visible, shown>>

(* stop: by the poll that found nothing left to wait for, or by the page. *)
Stopped ==
    /\ page' = IF page.stopped THEN page
               ELSE Closed([page EXCEPT !.stopped = TRUE, !.terminal = TRUE])
    /\ timers' = {}
    /\ opened' = opened \ {page.source}

(* pollActivationPlan: the answer is applied to the page; nothing more is *)
(* polled when it is terminal.                                            *)
PollAnswer ==
    /\ poll # None /\ poll' = None
    /\ shown' = poll
    /\ IF Terminal(poll)
       THEN Stopped
       ELSE timers' = timers \cup Fallback(page) /\ UNCHANGED <<page, opened>>
    /\ UNCHANGED <<progress, stream, wire, visible>>

PollFails ==
    /\ poll # None /\ poll' = None
    /\ timers' = timers \cup Fallback(page)
    /\ UNCHANGED <<progress, stream, wire, page, opened, visible, shown>>

(* The effect of the page is cleaned up. *)
Stop ==
    /\ ~page.stopped
    /\ Stopped
    /\ UNCHANGED <<progress, stream, wire, poll, visible, shown>>

ChangeVisibility ==
    /\ visible' = ~visible
    /\ UNCHANGED <<progress, stream, wire, controller, poll, shown>>

Browser ==
    \/ Connect \/ ConnectionTimeout \/ FallbackTimer \/ PollAnswer \/ PollFails
    \/ \E s \in Sources : OnOpen(s) \/ OnActivation(s) \/ OnError(s)

Next ==
    \/ Progress \/ Browser \/ Stop \/ ChangeVisibility
    \/ \E s \in Sources : StreamBegin(s) \/ StreamPoll(s) \/ StreamEnds(s)

(* The server's loop and the browser's timers and dispatch go on. *)
Fairness ==
    /\ WF_vars(Browser)
    /\ \A s \in Sources :
        /\ WF_vars(StreamBegin(s)) /\ WF_vars(StreamPoll(s))
        /\ WF_vars(OnOpen(s) \/ OnActivation(s) \/ OnError(s))

Spec == Init /\ [][Next]_vars /\ Fairness

-----------------------------------------------------------------------------
TypeOK ==
    /\ progress \in Versions
    /\ stream \in [Sources -> {None, Ended} \cup Versions]
    /\ page.connection \in {None, "connecting", "live", "offline", "idle"}
    /\ page.polls \in 0..MaxPolls /\ page.reconnects \in 0..MaxReconnects
    /\ page.generation \in Sources /\ page.source \in {None} \cup Sources
    /\ timers \subseteq {"connection", "fallback", "reconnect"}
    /\ poll \in {None} \cup Versions /\ shown \in Versions /\ opened \subseteq Sources

(* The browser holds at most the source the controller reads, and none    *)
(* after the end: no stream stays open on the server for a page that does *)
(* not read it.                                                           *)
OneSource == opened = IF page.source = None THEN {} ELSE {page.source}

(* "The following native error must not overwrite that authoritative      *)
(* snapshot with an offline state": once the terminal snapshot is shown   *)
(* the connection is idle, and no timer and no poll is left.              *)
QuietAtEnd ==
    page.terminal /\ ~page.stopped =>
        page.connection = "idle" /\ shown = Last /\ timers = {} /\ poll = None

(* Sources are replaced while their events are queued: the page still     *)
(* never shows an older snapshot after a newer one.                       *)
NeverOlder == [][shown' >= shown]_shown

(* The page is told: when the preparation has ended the page shows it, or *)
(* the controller was stopped, or it is offline, where the page offers a  *)
(* refresh, and has no polls left or is hidden.                           *)
PageIsTold ==
    (progress = Last) ~>
        \/ shown = Last \/ page.stopped
        \/ page.connection = "offline" /\ (page.polls = MaxPolls \/ ~visible)

(* The controller holds one source, and nothing after the end. *)
SourceHeld == TypeOK /\ OneSource /\ QuietAtEnd

(* The page is told how far the preparation is, never goes back, and       *)
(* learns the end.                                                         *)
ProgressTold == NeverOlder /\ PageIsTold
=============================================================================

---------------------------- MODULE LocalBridge ----------------------------
(***************************************************************************)
(* LocalIngestionBridgeBroker (apps/api/src/local-ingestion-bridge.ts): it *)
(* lends the documents the API wants parsed to a bridge process on another *)
(* host, one at a time, and settles the promise of each execute call.      *)
(*                                                                         *)
(* Handlers run between awaits of one event loop.  lease, stageOutput,     *)
(* complete, close and the expiry of a lease await the file system in the  *)
(* middle and take two actions; the others take one.  A call that is       *)
(* refused changes nothing and has no action.  A job is leased once, so    *)
(* it stands for its lease id.                                             *)
(***************************************************************************)
EXTENDS Naturals, FiniteSets

CONSTANTS
    Jobs,    \* execute calls
    NoJob,   \* undefined
    Polls    \* lease calls that can be in progress at once

ASSUME BridgeAssumption == IsFiniteSet(Jobs) /\ NoJob \notin Jobs

VARIABLES
    outcome,   \* outcome[j]: the promise of execute
    arrival,   \* arrival[j]: place in the order of arrival
    queue,     \* #queue, as the set of its jobs
    active,    \* #active
    timer,     \* timer[j]: the timer armed for the job
    lapsed,    \* lapsed[j]: the clock is past the lease's expiresAt
    poll,      \* poll[p]: the job whose input lease call p is looking at
    upload,    \* upload[j]: a stageOutput call is writing
    staged,    \* staged[j]: an output was accepted as stagedOutput
    file,      \* file[j]: the staged file exists
    settling,  \* settling[j]: released, its promise not settled yet
    fresh,     \* the last heartbeat is younger than its time to live
    closed     \* #closed

vars == <<outcome, arrival, queue, active, timer, lapsed, poll, upload, staged, file,
          settling, fresh, closed>>
fileVars == <<upload, staged, file>>

Settled == {"resolved", "rejected"}

Init ==
    /\ outcome = [j \in Jobs |-> "uncalled"]
    /\ arrival = [j \in Jobs |-> 0]
    /\ queue = {} /\ active = NoJob
    /\ timer = [j \in Jobs |-> "none"]
    /\ lapsed = [j \in Jobs |-> FALSE]
    /\ poll = [p \in Polls |-> NoJob]
    /\ upload = [j \in Jobs |-> FALSE]
    /\ staged = [j \in Jobs |-> FALSE]
    /\ file = [j \in Jobs |-> FALSE]
    /\ settling = [j \in Jobs |-> "none"]
    /\ fresh = FALSE /\ closed = FALSE

-----------------------------------------------------------------------------
(* A valid heartbeat, and the time after which it no longer counts. *)
Heartbeat ==
    /\ ~closed /\ fresh' = TRUE
    /\ UNCHANGED <<outcome, arrival, queue, active, timer, lapsed, poll, fileVars, settling, closed>>

HeartbeatAges ==
    /\ fresh /\ fresh' = FALSE
    /\ UNCHANGED <<outcome, arrival, queue, active, timer, lapsed, poll, fileVars, settling, closed>>

Available == ~closed /\ fresh

(* execute: refused unless a heartbeat is current, else queued with a      *)
(* timer for what is left of that heartbeat.                               *)
Execute(j) ==
    /\ outcome[j] = "uncalled"
    /\ \/ /\ ~Available
          /\ outcome' = [outcome EXCEPT ![j] = "rejected"]
          /\ UNCHANGED <<arrival, queue, timer>>
       \/ /\ Available
          /\ outcome' = [outcome EXCEPT ![j] = "pending"]
          /\ arrival' = [arrival EXCEPT ![j] = Cardinality({k \in Jobs : outcome[k] # "uncalled"})]
          /\ queue' = queue \cup {j}
          /\ timer' = [timer EXCEPT ![j] = "admission"]
    /\ UNCHANGED <<active, lapsed, poll, fileVars, settling, fresh, closed>>

(* Mutant of ExpireQueued: the job is dropped and its promise forgotten. *)
ExpireQueuedSilently(j) ==
    /\ timer[j] = "admission"
    /\ timer' = [timer EXCEPT ![j] = "none"]
    /\ queue' = queue \ {j}
    /\ UNCHANGED <<outcome, arrival, active, lapsed, poll, fileVars, settling, fresh, closed>>

(* The admission timer fires.  A later heartbeat does not put it off. *)
ExpireQueued(j) ==
    /\ timer[j] = "admission"
    /\ timer' = [timer EXCEPT ![j] = "none"]
    /\ queue' = queue \ {j}
    /\ outcome' = [outcome EXCEPT ![j] = IF j \in queue THEN "rejected" ELSE @]
    /\ UNCHANGED <<arrival, active, lapsed, poll, fileVars, settling, fresh, closed>>

First(j) == j \in queue /\ \A k \in queue : arrival[j] <= arrival[k]

(* lease, up to its await: nothing is active and the first job is shifted. *)
LeaseBegin(p) ==
    /\ poll[p] = NoJob
    /\ Available /\ active = NoJob
    /\ \E j \in Jobs :
         /\ First(j)
         /\ queue' = queue \ {j}
         /\ timer' = [timer EXCEPT ![j] = "none"]
         /\ poll' = [poll EXCEPT ![p] = j]
    /\ UNCHANGED <<outcome, arrival, active, lapsed, fileVars, settling, fresh, closed>>

(* Mutant of LeaseEnd: no timer is set. *)
LeaseEndUntimed(p) ==
    /\ poll[p] # NoJob
    /\ poll' = [poll EXCEPT ![p] = NoJob]
    /\ active' = poll[p]
    /\ UNCHANGED <<outcome, arrival, queue, timer, lapsed, fileVars, settling, fresh, closed>>

(* lease, after lstat: the input cannot be lent, or the lease is granted.  *)
(* Neither #active nor #closed is looked at again.                         *)
LeaseEnd(p) ==
    /\ poll[p] # NoJob
    /\ poll' = [poll EXCEPT ![p] = NoJob]
    /\ \/ /\ outcome' = [outcome EXCEPT ![poll[p]] = "rejected"]
          /\ UNCHANGED <<active, timer>>
       \/ /\ active' = poll[p]
          /\ timer' = [timer EXCEPT ![poll[p]] = "lease"]
          /\ UNCHANGED outcome
    /\ UNCHANGED <<arrival, queue, lapsed, fileVars, settling, fresh, closed>>

-----------------------------------------------------------------------------
(* #currentLease *)
Current(j) == active = j /\ ~lapsed[j]

LeaseLapses(j) ==
    /\ timer[j] = "lease" /\ ~lapsed[j]
    /\ lapsed' = [lapsed EXCEPT ![j] = TRUE]
    /\ UNCHANGED <<outcome, arrival, queue, active, timer, poll, fileVars, settling, fresh, closed>>

(* stageOutput: the file is created exclusively, then written, then its    *)
(* length and digest are compared with what was announced.                 *)
StageBegin(j) ==
    /\ Current(j) /\ ~staged[j] /\ ~file[j]
    /\ file' = [file EXCEPT ![j] = TRUE]
    /\ upload' = [upload EXCEPT ![j] = TRUE]
    /\ UNCHANGED <<outcome, arrival, queue, active, timer, lapsed, poll, staged, settling, fresh, closed>>

StageEnd(j) ==
    /\ upload[j]
    /\ upload' = [upload EXCEPT ![j] = FALSE]
    /\ \/ staged' = [staged EXCEPT ![j] = TRUE] /\ UNCHANGED file
       \/ file' = [file EXCEPT ![j] = FALSE] /\ UNCHANGED staged
    /\ UNCHANGED <<outcome, arrival, queue, active, timer, lapsed, poll, settling, fresh, closed>>

(* How a failed job leaves: removeStagedOutput looks for an output now. *)
Failing(j) == IF staged[j] THEN "removing" ELSE "failing"

(* Mutant of Leave: #active is not reset. *)
LeaveKeepingActive(j, how) ==
    /\ timer' = [timer EXCEPT ![j] = "none"]
    /\ settling' = [settling EXCEPT ![j] = how]
    /\ UNCHANGED active

(* The job leaves #active; what follows the next await settles it. *)
Leave(j, how) ==
    /\ active' = NoJob
    /\ timer' = [timer EXCEPT ![j] = "none"]
    /\ settling' = [settling EXCEPT ![j] = how]

CompleteFailure(j) ==
    /\ Current(j) /\ Leave(j, Failing(j))
    /\ UNCHANGED <<outcome, arrival, queue, lapsed, poll, fileVars, fresh, closed>>

(* Mutant of CompleteSuccess: an output still being written is enough. *)
CompleteUnchecked(j) ==
    /\ Current(j) /\ file[j]
    /\ Leave(j, "reading")
    /\ UNCHANGED <<outcome, arrival, queue, lapsed, poll, fileVars, fresh, closed>>

(* Without a staged output the promise is rejected at once. *)
CompleteSuccess(j) ==
    /\ Current(j)
    /\ \/ staged[j] /\ Leave(j, "reading") /\ UNCHANGED outcome
       \/ /\ ~staged[j]
          /\ Leave(j, "none")
          /\ outcome' = [outcome EXCEPT ![j] = "rejected"]
    /\ UNCHANGED <<arrival, queue, lapsed, poll, fileVars, fresh, closed>>

(* The lease timer fires; a lease that is not the active one is ignored. *)
Expire(j) ==
    /\ timer[j] = "lease"
    /\ \/ active = j /\ Leave(j, Failing(j))
       \/ /\ active # j
          /\ timer' = [timer EXCEPT ![j] = "none"]
          /\ UNCHANGED <<active, settling>>
    /\ UNCHANGED <<outcome, arrival, queue, lapsed, poll, fileVars, fresh, closed>>

(* After the await: the staged file is removed and the promise settled;    *)
(* what was read resolves it if it is JSON.  Removal is taken to succeed.  *)
Settle(j) ==
    /\ settling[j] # "none"
    /\ settling' = [settling EXCEPT ![j] = "none"]
    /\ file' = [file EXCEPT ![j] = @ /\ settling[j] = "failing"]
    /\ \/ settling[j] = "reading" /\ outcome' = [outcome EXCEPT ![j] = "resolved"]
       \/ outcome' = [outcome EXCEPT ![j] = "rejected"]
    /\ UNCHANGED <<arrival, queue, active, timer, lapsed, poll, upload, staged, fresh, closed>>

(* Mutant of Close: queued executions are forgotten. *)
CloseForgetting ==
    /\ ~closed /\ closed' = TRUE
    /\ queue' = {} /\ active' = NoJob
    /\ timer' = [j \in Jobs |-> IF j \in queue \cup {active} THEN "none" ELSE timer[j]]
    /\ settling' = [j \in Jobs |-> IF j = active THEN Failing(j) ELSE settling[j]]
    /\ UNCHANGED <<outcome, arrival, lapsed, poll, fileVars, fresh>>

(* close: whatever is queued is rejected and the active lease is ended. *)
Close ==
    /\ ~closed /\ closed' = TRUE
    /\ queue' = {} /\ active' = NoJob
    /\ outcome' = [j \in Jobs |-> IF j \in queue THEN "rejected" ELSE outcome[j]]
    /\ timer' = [j \in Jobs |-> IF j \in queue \cup {active} THEN "none" ELSE timer[j]]
    /\ settling' = [j \in Jobs |-> IF j = active THEN Failing(j) ELSE settling[j]]
    /\ UNCHANGED <<arrival, lapsed, poll, fileVars, fresh>>

-----------------------------------------------------------------------------
JobStep(j) ==
    \/ Execute(j) \/ ExpireQueued(j) \/ LeaseLapses(j) \/ StageBegin(j) \/ StageEnd(j)
    \/ CompleteFailure(j) \/ CompleteSuccess(j) \/ Expire(j) \/ Settle(j)

Next ==
    \/ Heartbeat \/ HeartbeatAges \/ Close
    \/ \E p \in Polls : LeaseBegin(p) \/ LeaseEnd(p)
    \/ \E j \in Jobs : JobStep(j)

(* Timers fire and the file system answers.  Nothing is assumed of the     *)
(* bridge: it may stop polling, uploading or completing at any point.      *)
Fairness ==
    /\ \A j \in Jobs : WF_vars(ExpireQueued(j)) /\ WF_vars(Expire(j)) /\ WF_vars(Settle(j))
    /\ \A p \in Polls : WF_vars(LeaseEnd(p))

Spec == Init /\ [][Next]_vars /\ Fairness

-----------------------------------------------------------------------------
(* The values of every variable; an active lease has its timer armed. *)
TypeOK ==
    /\ outcome \in [Jobs -> {"uncalled", "pending"} \cup Settled]
    /\ arrival \in [Jobs -> Nat]
    /\ queue \subseteq Jobs
    /\ active \in Jobs \cup {NoJob}
    /\ active # NoJob => timer[active] = "lease"
    /\ timer \in [Jobs -> {"none", "admission", "lease"}]
    /\ lapsed \in [Jobs -> BOOLEAN]
    /\ poll \in [Polls -> Jobs \cup {NoJob}]
    /\ upload \in [Jobs -> BOOLEAN] /\ staged \in [Jobs -> BOOLEAN] /\ file \in [Jobs -> BOOLEAN]
    /\ settling \in [Jobs -> {"none", "reading", "removing", "failing"}]
    /\ fresh \in BOOLEAN /\ closed \in BOOLEAN

(* The four places an unsettled execution can be in. *)
Queued(j) == j \in queue
Looked(j) == \E p \in Polls : poll[p] = j
Leased(j) == active = j
Leaving(j) == settling[j] # "none"

(* An execution is held in one place at most and only while its promise is *)
(* open, so no code path settles it twice or lends a document twice: two   *)
(* lease calls never look at the same job, and a job that was rejected,    *)
(* expired or completed is nowhere any more.                               *)
HeldOnce ==
    \A j \in Jobs :
        /\ Queued(j) \/ Looked(j) \/ Leased(j) \/ Leaving(j) => outcome[j] = "pending"
        /\ ~(Queued(j) /\ (Looked(j) \/ Leased(j) \/ Leaving(j)))
        /\ ~(Looked(j) /\ (Leased(j) \/ Leaving(j)))
        /\ ~(Leased(j) /\ Leaving(j))
        /\ \A p, q \in Polls : poll[p] = j /\ poll[q] = j => p = q

(* While lease calls do not overlap, an open promise is always held        *)
(* somewhere, under a timer or an await that will settle it: no execution  *)
(* is forgotten by expiry, completion, closing or a lost bridge.           *)
NeverForgotten ==
    \A j \in Jobs : outcome[j] = "pending" =>
        \/ Queued(j) /\ timer[j] = "admission"
        \/ Looked(j)
        \/ Leased(j) /\ timer[j] = "lease"
        \/ Leaving(j)

(* An execution resolves only with an output whose length and digest       *)
(* matched, and the staged file is gone by then.                           *)
ResolvesStaged ==
    \A j \in Jobs : outcome[j] = "resolved" => staged[j] /\ ~file[j]

(* An open execution is held in one place, under a timer or an await, and  *)
(* resolves only with what was staged.                                     *)
ExecutionsHeld == TypeOK /\ HeldOnce /\ NeverForgotten /\ ResolvesStaged

(* Every execution settles, whatever the bridge does. *)
ExecutionSettles ==
    \A j \in Jobs : outcome[j] = "pending" ~> outcome[j] \in Settled

(* "streams one host lease" (local-ingestion-bridge.test.ts:33, and :53    *)
(* expects a second lease call to return null): never two leases out.      *)
OneHostLease ==
    \A j, k \in Jobs : timer[j] = "lease" /\ timer[k] = "lease" => j = k
=============================================================================

--------------------------- MODULE AudioOperation ---------------------------
(***************************************************************************)
(* One durable media.audio.generate operation and the queue deliveries     *)
(* that work on it: AudioGenerationService.consume (packages/audio), the   *)
(* transactions of PostgresAudioGenerationRepository (packages/db) and the *)
(* Function Compute queue handler (apps/jobs).  Operations share nothing   *)
(* but the course they belong to, so one is enough.                        *)
(*                                                                         *)
(* Every database transaction is one step (it locks the operation row);    *)
(* between two of them an invocation awaits, and others run.  The broker   *)
(* may hold several copies of the command and pushes each again until it   *)
(* is acknowledged or its retries are spent and it is dead-lettered.       *)
(***************************************************************************)
EXTENDS Naturals

CONSTANTS
    Workers,        \* Function Compute invocations that can run at a time
    Owner,          \* the lease owner of each, fc_jobs_<requestId>
    NoOwner,        \* SQL NULL in lease_owner
    Copies,         \* copies of the command the broker may come to hold
    NoCopy,         \* the job of an idle worker
    MaxDeliveries,  \* AUDIO_MAX_DELIVERIES
    MaxPushes       \* pushes of one copy before it is dead-lettered

ASSUME AudioAssumption ==
    /\ \A w \in Workers : Owner[w] # NoOwner
    /\ NoCopy \notin Copies
    /\ MaxDeliveries \in Nat \ {0}
    /\ MaxPushes \in Nat \ {0}

VARIABLES
    \* the rows of async_operation, async_operation_attempt, asset and outbox
    state,     \* async_operation.state
    attempts,  \* async_operation.attempt_count
    owner,     \* async_operation.lease_owner
    lease,     \* lease_expires_at, as it compares with clock_timestamp()
    failure,   \* sanitized_failure ->> 'failureClass'
    ledger,    \* ledger[n]: outcome of delivery_number n
    asset,     \* the attempt whose audio is the ready asset, 0 if none
    events,    \* terminal events in the outbox
    \* the handler invocations
    phase,     \* phase[w]: the await that invocation w is at
    job,       \* job[w]: the copy it handles
    attempt,   \* attempt[w]: work.operation.attemptCount
    cause,     \* cause[w]: the failure class consume is about to record
    \* the broker, the provider, object storage and the world
    copy,      \* copy[c]: where the copy is
    pushes,    \* pushes[c]: deliveries of the copy so far
    verdict,   \* verdict[c]: disposition the handler last returned for it
    calls,     \* calls[n]: what attempt n knows of its speech submission
    objects,   \* attempts whose audio was put into object storage
    deadline,  \* deadline_at: far, too near for a retry, or passed
    access     \* course access: granted, narration replaced, or revoked

opVars == <<state, attempts, owner, lease, failure, ledger, asset, events>>
workVars == <<phase, job, attempt, cause>>
queueVars == <<copy, pushes, verdict>>
worldVars == <<deadline, access>>
vars == <<opVars, workVars, queueVars, calls, objects, worldVars>>

Attempts == 1..MaxDeliveries
Terminal == {"succeeded", "failed_permanent", "expired"}
States == {"absent", "queued", "processing", "retry_scheduled"} \cup Terminal
Phases == {"idle", "starting", "authorized", "claimed", "synthesizing",
           "synthesized", "stored", "failing"}

(* normalizeFailure: what is retried, and what is not. *)
RetryableCauses == {"adapter_unavailable", "provider_failure", "infrastructure_unavailable"}
PermanentCauses == {"ambiguous_submission", "invalid_result"}
Causes == RetryableCauses \cup PermanentCauses \cup {"deadline_exceeded"}

Init ==
    /\ state = "absent" /\ attempts = 0
    /\ owner = NoOwner /\ lease = "none"
    /\ failure = "none" /\ asset = 0 /\ events = {}
    /\ ledger = [n \in Attempts |-> "none"]
    /\ phase = [w \in Workers |-> "idle"]
    /\ job = [w \in Workers |-> NoCopy]
    /\ attempt = [w \in Workers |-> 0]
    /\ cause = [w \in Workers |-> "none"]
    /\ copy = [c \in Copies |-> "absent"]
    /\ pushes = [c \in Copies |-> 0]
    /\ verdict = [c \in Copies |-> "none"]
    /\ calls = [n \in Attempts |-> "none"]
    /\ objects = {}
    /\ deadline = "far" /\ access = "granted"

-----------------------------------------------------------------------------
(* plan -> registerOperations: the operation and its command, one commit. *)
Register ==
    /\ state = "absent" /\ access # "revoked"
    /\ state' = "queued"
    /\ UNCHANGED <<attempts, owner, lease, failure, ledger, asset, events,
                   workVars, queueVars, calls, objects, worldVars>>

(* A publication of the command by the relay or by an operator's redrive. *)
Publish(c) ==
    /\ copy[c] = "absent" /\ state # "absent"
    /\ copy' = [copy EXCEPT ![c] = "queued"]
    /\ UNCHANGED <<opVars, workVars, pushes, verdict, calls, objects, worldVars>>

(* A push that was not acknowledged is repeated until the retries are spent. *)
Nacked(c) == IF pushes[c] < MaxPushes THEN "queued" ELSE "dead"

(* The push reaches the function; parseRocketMqEvent accepts its number. *)
Deliver(w, c) ==
    /\ copy[c] = "queued" /\ phase[w] = "idle"
    /\ pushes[c] < MaxDeliveries
    /\ pushes' = [pushes EXCEPT ![c] = @ + 1]
    /\ copy' = [copy EXCEPT ![c] = "running"]
    /\ phase' = [phase EXCEPT ![w] = "starting"]
    /\ job' = [job EXCEPT ![w] = c]
    /\ UNCHANGED <<opVars, attempt, cause, verdict, calls, objects, worldVars>>

(* parseRocketMqEvent throws: the delivery number exceeds the budget. *)
RefuseDelivery(c) ==
    /\ copy[c] = "queued" /\ pushes[c] >= MaxDeliveries
    /\ pushes' = [pushes EXCEPT ![c] = @ + 1]
    /\ copy' = [copy EXCEPT ![c] = IF pushes[c] + 1 < MaxPushes THEN "queued" ELSE "dead"]
    /\ UNCHANGED <<opVars, workVars, verdict, calls, objects, worldVars>>

(* The function ends with disposition v, or is lost before it answers.     *)
(* EventBridge sees an acknowledgement or an error; it does not tell the   *)
(* dispositions retry and dead_letter apart.                               *)
End(w, v) ==
    /\ phase' = [phase EXCEPT ![w] = "idle"]
    /\ job' = [job EXCEPT ![w] = NoCopy]
    /\ attempt' = [attempt EXCEPT ![w] = 0]
    /\ cause' = [cause EXCEPT ![w] = "none"]
    /\ \E seen \in {v, "none"} :
         /\ copy' = [copy EXCEPT ![job[w]] =
                       IF seen = "ack" THEN "acked" ELSE Nacked(job[w])]
         /\ verdict' = [verdict EXCEPT ![job[w]] = seen]
    /\ UNCHANGED pushes

(* handleAudioCommand: the disposition for the state consume returned. *)
Disposition(s) ==
    CASE s \in {"succeeded", "expired"} -> "ack"
      [] s = "failed_permanent" -> "dead_letter"
      [] OTHER -> "retry"

(* Mutant of Unavailable: a delivery that finds the operation leased is    *)
(* acknowledged as somebody else's work.                                   *)
UnavailableAcked(w) == End(w, "ack")

(* handleAudioCommand: the disposition for an error consume threw. *)
Denied(w) == End(w, "dead_letter")
Unavailable(w) == End(w, IF pushes[job[w]] >= MaxDeliveries THEN "dead_letter" ELSE "retry")

(* authorization.resolve. *)
Authorize(w) ==
    /\ phase[w] = "starting"
    /\ IF access = "revoked"
         THEN Denied(w)
         ELSE /\ phase' = [phase EXCEPT ![w] = "authorized"]
              /\ UNCHANGED <<job, attempt, cause, queueVars>>
    /\ UNCHANGED <<opVars, calls, objects, worldVars>>

-----------------------------------------------------------------------------
(* Mutant of Finished: the attempt is left open. *)
NotFinished(l, n, outcome) == l

(* finishAttempt of attempt n within a transaction that leaves ledger l. *)
Finished(l, n, outcome) == IF n = 0 THEN l ELSE [l EXCEPT ![n] = outcome]

(* Mutant of Finalize: the terminal row keeps its lease. *)
FinalizeLeased(s, class) ==
    /\ state' = s /\ failure' = class
    /\ events' = events \cup {IF s = "succeeded" THEN "generated" ELSE "failed"}
    /\ UNCHANGED <<attempts, owner, lease>>

(* UPDATE async_operation to a terminal state, with its event. *)
Finalize(s, class) ==
    /\ state' = s /\ owner' = NoOwner /\ lease' = "none" /\ failure' = class
    /\ events' = events \cup {IF s = "succeeded" THEN "generated" ELSE "failed"}
    /\ UNCHANGED attempts

Exhausted == attempts >= MaxDeliveries \/ deadline = "passed"

(* The outcome a stale attempt is closed with, or the operation itself. *)
ExhaustedState == IF deadline = "passed" THEN "expired" ELSE "failed_permanent"

(* claimOperation found the operation finished, or finishes it itself. *)
ClaimFinal(w) ==
    /\ phase[w] = "authorized" /\ access # "revoked"
    /\ \/ /\ state \in Terminal
          /\ UNCHANGED opVars
          /\ End(w, Disposition(state))
       \/ /\ state \notin Terminal
          /\ ~(state = "processing" /\ lease = "live")
          /\ Exhausted
          /\ Finalize(ExhaustedState,
                      IF deadline = "passed" THEN "deadline_exceeded" ELSE "delivery_exhausted")
          /\ ledger' = IF state = "processing"
                         THEN Finished(ledger, attempts, ExhaustedState) ELSE ledger
          /\ UNCHANGED asset
          /\ End(w, Disposition(ExhaustedState))
    /\ UNCHANGED <<calls, objects, worldVars>>

(* claimOperation rejects: another delivery's lease is live, or the course *)
(* or its narration is no longer accessible and everything is rolled back. *)
ClaimRefused(w) ==
    /\ phase[w] = "authorized"
    /\ \/ access = "revoked" /\ Denied(w)
       \/ /\ access # "revoked" /\ state = "processing" /\ lease = "live"
          /\ Unavailable(w)
       \/ /\ access = "script_replaced" /\ state \notin Terminal /\ ~Exhausted
          /\ ~(state = "processing" /\ lease = "live")
          /\ Denied(w)
    /\ UNCHANGED <<opVars, calls, objects, worldVars>>

(* claimOperation takes the operation, closing a stale attempt first. *)
ClaimOperation(w) ==
    /\ phase[w] = "authorized" /\ access = "granted"
    /\ state \notin Terminal /\ ~Exhausted
    /\ ~(state = "processing" /\ lease = "live")
    /\ state' = "processing" /\ attempts' = attempts + 1
    /\ owner' = Owner[w] /\ lease' = "live" /\ failure' = "none"
    /\ ledger' = [(IF state = "processing"
                     THEN Finished(ledger, attempts, "retry_scheduled") ELSE ledger)
                  EXCEPT ![attempts + 1] = "started"]
    /\ phase' = [phase EXCEPT ![w] = "claimed"]
    /\ attempt' = [attempt EXCEPT ![w] = attempts + 1]
    /\ UNCHANGED <<asset, events, job, cause, queueVars, calls, objects, worldVars>>

-----------------------------------------------------------------------------
Fail(w, class) ==
    /\ phase' = [phase EXCEPT ![w] = "failing"]
    /\ cause' = [cause EXCEPT ![w] = class]
    /\ UNCHANGED <<job, attempt>>

Advance(w, next) ==
    /\ phase' = [phase EXCEPT ![w] = next]
    /\ UNCHANGED <<job, attempt, cause>>

(* models.execute("media.tts.v1") is called while the deadline allows it. *)
Submit(w) ==
    /\ phase[w] = "claimed"
    /\ IF deadline = "passed"
         THEN Fail(w, "deadline_exceeded") /\ UNCHANGED calls
         ELSE Advance(w, "synthesizing") /\ calls' = [calls EXCEPT ![attempt[w]] = "unknown"]
    /\ UNCHANGED <<opVars, queueVars, objects, worldVars>>

(* The model router answers: speech, a refusal, or an ambiguous failure. *)
Synthesized(w) ==
    /\ phase[w] = "synthesizing"
    /\ \/ Advance(w, "synthesized") /\ calls' = [calls EXCEPT ![attempt[w]] = "done"]
       \/ /\ \E class \in {"adapter_unavailable", "provider_failure", "invalid_result"} :
               Fail(w, class)
          /\ calls' = [calls EXCEPT ![attempt[w]] = "not_accepted"]
       \/ Fail(w, "ambiguous_submission") /\ UNCHANGED calls
    /\ UNCHANGED <<opVars, queueVars, objects, worldVars>>

(* artifacts.putImmutable; a failed call may have stored the object. *)
PutImmutable(w) ==
    /\ phase[w] = "synthesized"
    /\ \/ Advance(w, "stored") /\ objects' = objects \cup {attempt[w]}
       \/ /\ Fail(w, "infrastructure_unavailable")
          /\ objects' \in {objects, objects \cup {attempt[w]}}
    /\ UNCHANGED <<opVars, queueVars, calls, worldVars>>

(* Mutants of Holds: only the attempt is compared, or only the owner. *)
HoldsAttempt(w) == attempts = attempt[w]
HoldsOwner(w) == state = "processing" /\ owner = Owner[w]

(* assertProcessingAttempt. *)
Holds(w) == state = "processing" /\ attempts = attempt[w] /\ owner = Owner[w]

(* completeAudio.  Its promise is returned, not awaited, inside consume's  *)
(* try block, so what it throws is not recorded as a failure.              *)
CompleteAudio(w) ==
    /\ phase[w] = "stored"
    /\ \/ access = "revoked" /\ Denied(w) /\ UNCHANGED opVars
       \/ /\ access # "revoked" /\ state \in Terminal
          /\ End(w, Disposition(state)) /\ UNCHANGED opVars
       \/ /\ access # "revoked" /\ state \notin Terminal /\ ~Holds(w)
          /\ Unavailable(w) /\ UNCHANGED opVars
       \/ /\ access # "revoked" /\ Holds(w)
          /\ asset' = attempt[w]
          /\ Finalize("succeeded", "none")
          /\ ledger' = Finished(ledger, attempt[w], "succeeded")
          /\ End(w, "ack")
    /\ UNCHANGED <<calls, objects, worldVars>>

(* recordFailure: retried while the class, the budget and the deadline allow. *)
Retries(w) ==
    cause[w] \in RetryableCauses /\ attempts < MaxDeliveries /\ deadline = "far"

FailedState(w) == IF cause[w] = "deadline_exceeded" THEN "expired" ELSE "failed_permanent"

RecordFailure(w) ==
    /\ phase[w] = "failing"
    /\ \/ access = "revoked" /\ Denied(w) /\ UNCHANGED opVars
       \/ /\ access # "revoked" /\ state \in Terminal
          /\ End(w, Disposition(state)) /\ UNCHANGED opVars
       \/ /\ access # "revoked" /\ state \notin Terminal /\ ~Holds(w)
          /\ Unavailable(w) /\ UNCHANGED opVars
       \/ /\ access # "revoked" /\ Holds(w) /\ Retries(w)
          /\ state' = "retry_scheduled" /\ owner' = NoOwner /\ lease' = "none"
          /\ failure' = cause[w]
          /\ ledger' = Finished(ledger, attempt[w], "retry_scheduled")
          /\ UNCHANGED <<attempts, asset, events>>
          /\ End(w, "retry")
       \/ /\ access # "revoked" /\ Holds(w) /\ ~Retries(w)
          /\ Finalize(FailedState(w), cause[w])
          /\ ledger' = Finished(ledger, attempt[w], FailedState(w))
          /\ UNCHANGED asset
          /\ End(w, Disposition(FailedState(w)))
    /\ UNCHANGED <<calls, objects, worldVars>>

(* A database error escapes the handler, executeBoundedHandler times out   *)
(* and the pools are closed, or the instance dies.  Work that was not      *)
(* cancelled may still store its object.                                   *)
Abort(w) ==
    /\ phase[w] # "idle"
    /\ End(w, "none")
    /\ objects' \in {objects, objects \cup
                       (IF phase[w] \in {"synthesizing", "synthesized"} THEN {attempt[w]} ELSE {})}
    /\ UNCHANGED <<opVars, calls, worldVars>>

-----------------------------------------------------------------------------
LeaseLapse ==
    /\ lease = "live" /\ lease' = "lapsed"
    /\ UNCHANGED <<state, attempts, owner, failure, ledger, asset, events,
                   workVars, queueVars, calls, objects, worldVars>>

DeadlineNears ==
    /\ state # "absent" /\ deadline # "passed"
    /\ deadline' = IF deadline = "far" THEN "near" ELSE "passed"
    /\ UNCHANGED <<opVars, workVars, queueVars, calls, objects, access>>

AccessChanges ==
    /\ state # "absent" /\ access # "revoked"
    /\ access' \in {"script_replaced", "revoked"} \ {access}
    /\ UNCHANGED <<opVars, workVars, queueVars, calls, objects, deadline>>

(* The steps of invocation w. *)
Step(w) ==
    \/ Authorize(w) \/ ClaimFinal(w) \/ ClaimRefused(w) \/ ClaimOperation(w)
    \/ Submit(w) \/ Synthesized(w) \/ PutImmutable(w)
    \/ CompleteAudio(w) \/ RecordFailure(w)

Push(c) == RefuseDelivery(c) \/ \E w \in Workers : Deliver(w, c)

Next ==
    \/ Register \/ LeaseLapse \/ DeadlineNears \/ AccessChanges
    \/ \E c \in Copies : Publish(c) \/ Push(c)
    \/ \E w \in Workers : Step(w) \/ Abort(w)

(* EventBridge goes on pushing a copy, and an invocation ends: by itself   *)
(* or at its timeout.                                                      *)
Fairness ==
    /\ \A c \in Copies : WF_vars(Push(c))
    /\ \A w \in Workers : WF_vars(Step(w) \/ Abort(w))

Spec == Init /\ [][Next]_vars /\ Fairness

-----------------------------------------------------------------------------
Verdicts == {"none", "ack", "retry", "dead_letter"}

(* The values of every variable, with the CHECK constraints of the tables: *)
(* owner and expiry are NULL together.  Only a processing row is leased.   *)
TypeOK ==
    /\ state \in States /\ attempts \in 0..MaxDeliveries
    /\ owner \in {Owner[w] : w \in Workers} \cup {NoOwner}
    /\ lease \in {"none", "live", "lapsed"}
    /\ failure \in Causes \cup {"none", "delivery_exhausted"}
    /\ ledger \in [Attempts -> {"none", "started", "retry_scheduled"} \cup Terminal]
    /\ asset \in 0..MaxDeliveries
    /\ events \subseteq {"generated", "failed"}
    /\ phase \in [Workers -> Phases]
    /\ job \in [Workers -> Copies \cup {NoCopy}]
    /\ attempt \in [Workers -> 0..MaxDeliveries]
    /\ cause \in [Workers -> Causes \cup {"none"}]
    /\ copy \in [Copies -> {"absent", "queued", "running", "acked", "dead"}]
    /\ pushes \in [Copies -> Nat]
    /\ verdict \in [Copies -> Verdicts]
    /\ calls \in [Attempts -> {"none", "unknown", "not_accepted", "done"}]
    /\ objects \subseteq Attempts
    /\ deadline \in {"far", "near", "passed"}
    /\ access \in {"granted", "script_replaced", "revoked"}
    /\ (owner = NoOwner) <=> (lease = "none")
    /\ (state = "processing") <=> (lease # "none")

(* The attempt history and the operation tell one story, however often a   *)
(* stale attempt was taken over: every attempt before the last was closed  *)
(* as retried, and the last is open exactly while the operation is         *)
(* processing.  finishAttempt throws where this does not hold.             *)
LedgerMatches ==
    \A n \in Attempts :
        /\ n > attempts => ledger[n] = "none"
        /\ n < attempts => ledger[n] = "retry_scheduled"
        /\ n = attempts =>
             /\ (ledger[n] = "started") <=> (state = "processing")
             /\ state \in {"succeeded", "failed_permanent", "retry_scheduled"}
                  => ledger[n] = state

(* Exactly one logical effect: a finished operation has emitted the event  *)
(* of its outcome and no other, an unfinished one none, and the audio is   *)
(* ready exactly when the operation succeeded.                             *)
OneEffect ==
    /\ events = CASE state = "succeeded" -> {"generated"}
                  [] state \in {"failed_permanent", "expired"} -> {"failed"}
                  [] OTHER -> {}
    /\ (asset # 0) <=> (state = "succeeded")

(* A stale invocation never publishes: the ready audio was made by the     *)
(* newest attempt, and its object is in storage.                           *)
NewestAttemptWins == asset # 0 => asset = attempts /\ asset \in objects

(* Work is not dropped: a copy of the command is acknowledged only when    *)
(* the operation has succeeded or expired.                                 *)
AckedIsFinal ==
    \A c \in Copies : copy[c] = "acked" => state \in {"succeeded", "expired"}

(* No step of a late, duplicate or stale delivery changes a finished       *)
(* operation, its result, its history or its events.                       *)
TerminalIsFinal == [][(state \in Terminal) => UNCHANGED opVars]_vars

(* A published command ends: the operation finishes, or a copy of the      *)
(* command is handed to the dead-letter queue.                             *)
Settles ==
    (\E c \in Copies : copy[c] # "absent")
        ~> (state \in Terminal \/ \E c \in Copies : copy[c] = "dead")

(* The operation, seen without its deliveries, is a DurableOperation. *)
Durable == INSTANCE DurableOperation WITH
    outcome <- IF state \in {"queued", "processing", "retry_scheduled"} THEN "open" ELSE state,
    result <- asset # 0
RefinesDurable == Durable!Spec

(* The rows of the attempts say what the operation says, only the newest   *)
(* attempt can have stored the asset, and no work is acknowledged away.    *)
AttemptsAgree == TypeOK /\ LedgerMatches /\ NewestAttemptWins /\ AckedIsFinal
=============================================================================

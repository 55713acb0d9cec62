------------------------ MODULE AudioDeliveryProofs ------------------------
(***************************************************************************)
(* Theorems about the way of a narration command.  The first part is the   *)
(* audio operation, for any number of invocations, copies, deliveries and  *)
(* pushes, and any assignment of lease owners: the attempt number alone    *)
(* fences a stale invocation.  The second part is the outbox relay, for    *)
(* any number of messages, relays and faults, any batch size and any       *)
(* assignment of lease owners.                                             *)
(***************************************************************************)
EXTENDS AudioOperation, OutboxRelay, FiniteSetTheorems, TLAPS

Working == {"claimed", "synthesizing", "synthesized", "stored", "failing"}

(* What an invocation knows is true of the rows: its attempt was counted,  *)
(* its stored audio is in storage, it has a failure class to record.       *)
WorkOK ==
    /\ \A c \in Copies : copy[c] # "absent" => state # "absent"
    /\ \A w \in Workers :
         /\ phase[w] # "idle" => state # "absent"
         /\ phase[w] \in Working => attempt[w] \in 1..attempts
         /\ phase[w] = "stored" => attempt[w] \in objects
         /\ phase[w] = "failing" => cause[w] \in Causes

OpInv == TypeOK /\ WorkOK /\ OneEffect

(* The part of TypeOK that the end of an invocation can disturb. *)
QueueTyped ==
    /\ phase \in [Workers -> Phases]
    /\ job \in [Workers -> Copies \cup {NoCopy}]
    /\ attempt \in [Workers -> 0..MaxDeliveries]
    /\ cause \in [Workers -> Causes \cup {"none"}]
    /\ copy \in [Copies -> {"absent", "queued", "running", "acked", "dead"}]
    /\ pushes \in [Copies -> Nat]
    /\ verdict \in [Copies -> Verdicts]

OpTyped ==
    /\ state \in States /\ attempts \in 0..MaxDeliveries
    /\ owner \in {Owner[w] : w \in Workers} \cup {NoOwner}
    /\ lease \in {"none", "live", "lapsed"}
    /\ failure \in Causes \cup {"none", "delivery_exhausted"}
    /\ ledger \in [Attempts -> {"none", "started", "retry_scheduled"} \cup Terminal]
    /\ asset \in 0..MaxDeliveries
    /\ events \subseteq {"generated", "failed"}
    /\ (owner = NoOwner) <=> (lease = "none")
    /\ (state = "processing") <=> (lease # "none")

WorldTyped ==
    /\ calls \in [Attempts -> {"none", "unknown", "not_accepted", "done"}]
    /\ objects \subseteq Attempts
    /\ deadline \in {"far", "near", "passed"}
    /\ access \in {"granted", "script_replaced", "revoked"}

(* The type invariant splits into the rows, the deliveries and the world. *)
LEMMA TypeParts == TypeOK <=> OpTyped /\ QueueTyped /\ WorldTyped
  BY DEF TypeOK, OpTyped, QueueTyped, WorldTyped

(* Ending an invocation leaves it idle and the queue well typed, and only  *)
(* the copy it handled moves: to acked, back to the queue, or dead.        *)
LEMMA EndEffect ==
  ASSUME QueueTyped, NEW w \in Workers, NEW v \in Verdicts, End(w, v)
  PROVE  /\ QueueTyped'
         /\ phase' = [phase EXCEPT ![w] = "idle"]
         /\ attempt' = [attempt EXCEPT ![w] = 0]
         /\ cause' = [cause EXCEPT ![w] = "none"]
         /\ \A c \in Copies : copy'[c] # copy[c] =>
              copy'[c] \in {"queued", "dead"} \/ (copy'[c] = "acked" /\ v = "ack")
<1> USE DEF Verdicts
<1>1. PICK seen \in {v, "none"} :
        /\ copy' = [copy EXCEPT ![job[w]] = IF seen = "ack" THEN "acked" ELSE Nacked(job[w])]
        /\ verdict' = [verdict EXCEPT ![job[w]] = seen]
  BY DEF End
<1>2. /\ phase' = [phase EXCEPT ![w] = "idle"]
      /\ job' = [job EXCEPT ![w] = NoCopy]
      /\ attempt' = [attempt EXCEPT ![w] = 0]
      /\ cause' = [cause EXCEPT ![w] = "none"]
      /\ pushes' = pushes
  BY DEF End
<1>3. Nacked(job[w]) \in {"queued", "dead"}
  BY DEF Nacked
<1>4. 0 \in 0..MaxDeliveries
  BY AudioAssumption
<1> HIDE DEF Verdicts
<1>5. seen \in Verdicts
  BY DEF Verdicts
<1> QED
  BY <1>1, <1>2, <1>3, <1>4, <1>5 DEF QueueTyped, Phases

(* A finished operation's handler answer is one of the verdicts. *)
LEMMA DispositionVerdict == \A s : Disposition(s) \in Verdicts
  BY DEF Disposition, Verdicts

(* Only a succeeded or expired operation is acknowledged. *)
LEMMA DispositionAck == \A s : Disposition(s) = "ack" => s \in {"succeeded", "expired"}
  BY DEF Disposition

-----------------------------------------------------------------------------
(* What a step can do to the rows of the operation.  Every action of Next  *)
(* does one of these; the invariants are proved from them.                 *)
OpenStates == {"queued", "processing", "retry_scheduled"}

Opens ==
    /\ state = "absent" /\ state' = "queued"
    /\ UNCHANGED <<attempts, owner, lease, failure, ledger, asset, events>>

Lapses ==
    /\ lease = "live" /\ lease' = "lapsed"
    /\ UNCHANGED <<state, attempts, owner, failure, ledger, asset, events>>

Claims(w) ==
    /\ state \in OpenStates /\ attempts < MaxDeliveries
    /\ state' = "processing" /\ attempts' = attempts + 1
    /\ owner' = Owner[w] /\ lease' = "live" /\ failure' = "none"
    /\ ledger' = [(IF state = "processing"
                     THEN Finished(ledger, attempts, "retry_scheduled") ELSE ledger)
                  EXCEPT ![attempts + 1] = "started"]
    /\ UNCHANGED <<asset, events>>

Reschedules ==
    /\ state = "processing" /\ state' = "retry_scheduled" /\ attempts < MaxDeliveries
    /\ owner' = NoOwner /\ lease' = "none" /\ failure' \in Causes
    /\ attempts \in Attempts
    /\ ledger' = Finished(ledger, attempts, "retry_scheduled")
    /\ UNCHANGED <<attempts, asset, events>>

GivesUp(s) ==
    /\ state \in OpenStates
    /\ \E class \in Causes \cup {"delivery_exhausted"} : Finalize(s, class)
    /\ ledger' = IF state = "processing" THEN Finished(ledger, attempts, s) ELSE ledger
    /\ state # "processing" => s = "expired" \/ attempts >= MaxDeliveries
    /\ UNCHANGED asset

Completes ==
    /\ state = "processing" /\ attempts \in Attempts
    /\ Finalize("succeeded", "none")
    /\ ledger' = Finished(ledger, attempts, "succeeded")
    /\ asset' = attempts /\ attempts \in objects

OpStep ==
    \/ UNCHANGED opVars
    \/ Opens \/ Lapses \/ Reschedules \/ Completes
    \/ \E w \in Workers : Claims(w)
    \/ \E s \in {"failed_permanent", "expired"} : GivesUp(s)

(* Every step is one of the kinds above, from a state whose invocations    *)
(* are consistent with the rows.                                           *)
LEMMA StepKinds == TypeOK /\ WorkOK /\ [Next]_vars => OpStep
<1> SUFFICES ASSUME TypeOK, WorkOK, [Next]_vars PROVE OpStep
  OBVIOUS
<1> USE AudioAssumption
<1>1. CASE Register
  BY <1>1 DEF Register, OpStep, Opens
<1>2. CASE LeaseLapse
  BY <1>2 DEF LeaseLapse, OpStep, Lapses
<1>3. CASE DeadlineNears \/ AccessChanges
  BY <1>3 DEF DeadlineNears, AccessChanges, OpStep
<1>4. ASSUME NEW c \in Copies, Publish(c) \/ RefuseDelivery(c) PROVE OpStep
  BY <1>4 DEF Publish, RefuseDelivery, OpStep
<1>5. ASSUME NEW c \in Copies, NEW w \in Workers, Deliver(w, c) PROVE OpStep
  BY <1>5 DEF Deliver, OpStep
<1>6. ASSUME NEW w \in Workers,
             Authorize(w) \/ ClaimRefused(w) \/ Submit(w) \/ Synthesized(w)
               \/ PutImmutable(w) \/ Abort(w)
      PROVE OpStep
  BY <1>6 DEF Authorize, ClaimRefused, Submit, Synthesized, PutImmutable, Abort, OpStep
<1>7. ASSUME NEW w \in Workers, ClaimFinal(w) PROVE OpStep
  <2>1. state # "absent"
    BY <1>7 DEF ClaimFinal, WorkOK
  <2>2. CASE UNCHANGED opVars
    BY <2>2 DEF OpStep
  <2>3. CASE /\ state \notin Terminal /\ Exhausted
             /\ Finalize(ExhaustedState,
                  IF deadline = "passed" THEN "deadline_exceeded" ELSE "delivery_exhausted")
             /\ ledger' = IF state = "processing"
                            THEN Finished(ledger, attempts, ExhaustedState) ELSE ledger
             /\ UNCHANGED asset
    <3>1. state \in OpenStates
      BY <2>1, <2>3 DEF TypeOK, States, OpenStates
    <3>2. ExhaustedState \in {"failed_permanent", "expired"}
      BY DEF ExhaustedState
    <3>3. ExhaustedState = "expired" \/ attempts >= MaxDeliveries
      BY <2>3 DEF ExhaustedState, Exhausted
    <3>4. GivesUp(ExhaustedState)
      BY <2>3, <3>1, <3>3 DEF GivesUp, Causes
    <3> QED
      BY <3>2, <3>4 DEF OpStep
  <2> QED
    BY <1>7, <2>2, <2>3 DEF ClaimFinal
<1>8. ASSUME NEW w \in Workers, ClaimOperation(w) PROVE OpStep
  <2>1. state \in OpenStates
    BY <1>8 DEF ClaimOperation, WorkOK, TypeOK, States, OpenStates
  <2>2. attempts < MaxDeliveries
    BY <1>8 DEF ClaimOperation, Exhausted, TypeOK
  <2>3. Claims(w)
    BY <1>8, <2>1, <2>2 DEF ClaimOperation, Claims
  <2> QED
    BY <2>3 DEF OpStep
<1>9. ASSUME NEW w \in Workers, CompleteAudio(w) PROVE OpStep
  <2>1. CASE UNCHANGED opVars
    BY <2>1 DEF OpStep
  <2>2. CASE /\ Holds(w) /\ asset' = attempt[w]
             /\ Finalize("succeeded", "none")
             /\ ledger' = Finished(ledger, attempt[w], "succeeded")
    <3>1. attempts = attempt[w] /\ state = "processing"
      BY <2>2 DEF Holds
    <3>2. attempts \in Attempts /\ attempts \in objects
      BY <1>9, <3>1 DEF CompleteAudio, WorkOK, Working, TypeOK, Attempts
    <3> QED
      BY <2>2, <3>1, <3>2 DEF Completes, OpStep
  <2> QED
    BY <1>9, <2>1, <2>2 DEF CompleteAudio
<1>10. ASSUME NEW w \in Workers, RecordFailure(w) PROVE OpStep
  <2>1. CASE UNCHANGED opVars
    BY <2>1 DEF OpStep
  <2>2. cause[w] \in Causes /\ (Holds(w) => attempts \in Attempts /\ attempts = attempt[w])
    BY <1>10 DEF RecordFailure, WorkOK, Working, Holds, TypeOK, Attempts
  <2>3. CASE /\ Holds(w) /\ Retries(w)
             /\ state' = "retry_scheduled" /\ owner' = NoOwner /\ lease' = "none"
             /\ failure' = cause[w]
             /\ ledger' = Finished(ledger, attempt[w], "retry_scheduled")
             /\ UNCHANGED <<attempts, asset, events>>
    BY <2>2, <2>3 DEF Holds, Retries, Reschedules, OpStep
  <2>4. CASE /\ Holds(w)
             /\ Finalize(FailedState(w), cause[w])
             /\ ledger' = Finished(ledger, attempt[w], FailedState(w))
             /\ UNCHANGED asset
    <3>1. FailedState(w) \in {"failed_permanent", "expired"}
      BY DEF FailedState
    <3>2. GivesUp(FailedState(w))
      BY <2>2, <2>4 DEF GivesUp, Holds, OpenStates
    <3> QED
      BY <3>1, <3>2 DEF OpStep
  <2> QED
    BY <1>10, <2>1, <2>3, <2>4 DEF RecordFailure
<1>11. CASE UNCHANGED vars
  BY <1>11 DEF vars, OpStep
<1> QED
  BY <1>1, <1>2, <1>3, <1>4, <1>5, <1>6, <1>7, <1>8, <1>9, <1>10, <1>11
     DEF Next, Step, Push

-----------------------------------------------------------------------------
(* A step keeps the rows well typed and their CHECK constraints true. *)
LEMMA OpTypedStep == OpTyped /\ OpStep => OpTyped'
<1> SUFFICES ASSUME OpTyped, OpStep PROVE OpTyped'
  OBVIOUS
<1> USE AudioAssumption DEF States, Terminal, Attempts
<1>1. CASE UNCHANGED opVars
  BY <1>1 DEF OpTyped, opVars
<1>2. CASE Opens
  BY <1>2 DEF OpTyped, Opens
<1>3. CASE Lapses
  BY <1>3 DEF OpTyped, Lapses
<1>4. CASE Reschedules
  BY <1>4 DEF OpTyped, Reschedules, Finished
<1>5. CASE Completes
  BY <1>5 DEF OpTyped, Completes, Finalize, Finished
<1>6. ASSUME NEW w \in Workers, Claims(w) PROVE OpTyped'
  BY <1>6 DEF OpTyped, Claims, Finished
<1>7. ASSUME NEW s \in {"failed_permanent", "expired"}, GivesUp(s) PROVE OpTyped'
  BY <1>7 DEF OpTyped, GivesUp, Finalize, Finished
<1> QED
  BY <1>1, <1>2, <1>3, <1>4, <1>5, <1>6, <1>7 DEF OpStep

(* A step keeps the event and the result in line with the outcome. *)
LEMMA EffectStep == OneEffect /\ OpStep => OneEffect'
<1> SUFFICES ASSUME OneEffect, OpStep PROVE OneEffect'
  OBVIOUS
<1> USE AudioAssumption DEF OpenStates, Attempts
<1>1. CASE UNCHANGED opVars
  BY <1>1 DEF OneEffect, opVars
<1>2. CASE Opens \/ Lapses \/ Reschedules
  BY <1>2 DEF OneEffect, Opens, Lapses, Reschedules
<1>3. CASE Completes
  BY <1>3 DEF OneEffect, Completes, Finalize
<1>4. ASSUME NEW w \in Workers, Claims(w) PROVE OneEffect'
  BY <1>4 DEF OneEffect, Claims
<1>5. ASSUME NEW s \in {"failed_permanent", "expired"}, GivesUp(s) PROVE OneEffect'
  BY <1>5 DEF OneEffect, GivesUp, Finalize
<1> QED
  BY <1>1, <1>2, <1>3, <1>4, <1>5 DEF OpStep

(* A finished operation does not change. *)
LEMMA FinalStep == OpTyped /\ OpStep => (state \in Terminal => UNCHANGED opVars)
<1> SUFFICES ASSUME OpTyped, OpStep, state \in Terminal PROVE UNCHANGED opVars
  OBVIOUS
<1> USE DEF OpenStates, Terminal
<1>1. ~Opens /\ ~Reschedules /\ ~Completes
  BY DEF Opens, Reschedules, Completes
<1>2. ~Lapses
  BY DEF Lapses, OpTyped
<1>3. \A w \in Workers : ~Claims(w)
  BY DEF Claims
<1>4. \A s \in {"failed_permanent", "expired"} : ~GivesUp(s)
  BY DEF GivesUp
<1> QED
  BY <1>1, <1>2, <1>3, <1>4 DEF OpStep

(* An operation stays registered and its attempts are never uncounted. *)
LEMMA MonotoneStep ==
  OpTyped /\ OpStep => /\ state # "absent" => state' # "absent"
                       /\ attempts' \in Nat /\ attempts <= attempts'
<1> SUFFICES ASSUME OpTyped, OpStep
             PROVE /\ state # "absent" => state' # "absent"
                   /\ attempts' \in Nat /\ attempts <= attempts'
  OBVIOUS
<1> USE AudioAssumption
<1>1. attempts \in Nat
  BY DEF OpTyped
<1>2. CASE UNCHANGED opVars
  BY <1>1, <1>2 DEF opVars
<1>3. CASE Opens \/ Lapses \/ Reschedules \/ Completes
  BY <1>1, <1>3 DEF Opens, Lapses, Reschedules, Completes, Finalize
<1>4. ASSUME NEW w \in Workers, Claims(w)
      PROVE state' # "absent" /\ attempts' \in Nat /\ attempts <= attempts'
  BY <1>1, <1>4 DEF Claims
<1>5. ASSUME NEW s \in {"failed_permanent", "expired"}, GivesUp(s)
      PROVE state' # "absent" /\ attempts' \in Nat /\ attempts <= attempts'
  BY <1>1, <1>5 DEF GivesUp, Finalize
<1> QED
  BY <1>2, <1>3, <1>4, <1>5 DEF OpStep

(* Invocations that do not move, and one that ends, stay consistent. *)
LEMMA EndWork ==
  ASSUME TypeOK, WorkOK, NEW w \in Workers, NEW v \in Verdicts,
         phase[w] # "idle", End(w, v), OpStep, objects \subseteq objects'
  PROVE  QueueTyped' /\ WorkOK'
<1>1. OpTyped /\ QueueTyped
  BY TypeParts
<1>2. /\ QueueTyped'
      /\ phase' = [phase EXCEPT ![w] = "idle"]
      /\ attempt' = [attempt EXCEPT ![w] = 0]
      /\ cause' = [cause EXCEPT ![w] = "none"]
  BY <1>1, EndEffect
<1>3. /\ state' # "absent" /\ attempts' \in Nat /\ attempts <= attempts'
      /\ attempts \in Nat
  BY <1>1, MonotoneStep, AudioAssumption DEF WorkOK, OpTyped
<1>4. ASSUME NEW q \in Workers
      PROVE /\ phase'[q] \in Working => attempt'[q] \in 1..attempts'
            /\ phase'[q] = "stored" => attempt'[q] \in objects'
            /\ phase'[q] = "failing" => cause'[q] \in Causes
  <2>1. CASE q = w
    BY <1>1, <1>2, <2>1 DEF QueueTyped, Working
  <2>2. CASE q # w
    <3>1. phase'[q] = phase[q] /\ attempt'[q] = attempt[q] /\ cause'[q] = cause[q]
      BY <1>1, <1>2, <2>2 DEF QueueTyped
    <3>2. attempt[q] \in Nat
      BY <1>1, AudioAssumption DEF QueueTyped
    <3> QED
      BY <1>3, <3>1, <3>2 DEF WorkOK
  <2> QED
    BY <2>1, <2>2
<1> QED
  BY <1>2, <1>3, <1>4 DEF WorkOK

(* One invocation takes a step of its own and the queue does not move. *)
LEMMA MoveWork ==
  ASSUME TypeOK, WorkOK, NEW w \in Workers, OpStep, objects \subseteq objects',
         NEW p \in Phases, NEW n \in 0..MaxDeliveries, NEW k \in Causes \cup {"none"},
         phase[w] # "idle",
         phase' = [phase EXCEPT ![w] = p],
         attempt' = [attempt EXCEPT ![w] = n],
         cause' = [cause EXCEPT ![w] = k],
         UNCHANGED <<job, queueVars>>,
         p \in Working => n \in 1..attempts',
         p = "stored" => n \in objects',
         p = "failing" => k \in Causes
  PROVE  QueueTyped' /\ WorkOK'
<1>1. OpTyped /\ QueueTyped
  BY TypeParts
<1>2. QueueTyped'
  BY <1>1 DEF QueueTyped, queueVars
<1>3. /\ state' # "absent" /\ attempts' \in Nat /\ attempts <= attempts'
      /\ attempts \in Nat
  BY <1>1, MonotoneStep, AudioAssumption DEF WorkOK, OpTyped
<1>4. ASSUME NEW q \in Workers
      PROVE /\ phase'[q] \in Working => attempt'[q] \in 1..attempts'
            /\ phase'[q] = "stored" => attempt'[q] \in objects'
            /\ phase'[q] = "failing" => cause'[q] \in Causes
  <2>1. CASE q = w
    BY <1>1, <2>1 DEF QueueTyped
  <2>2. CASE q # w
    <3>1. phase'[q] = phase[q] /\ attempt'[q] = attempt[q] /\ cause'[q] = cause[q]
      BY <1>1, <2>2 DEF QueueTyped
    <3>2. attempt[q] \in Nat
      BY <1>1, AudioAssumption DEF QueueTyped
    <3> QED
      BY <1>3, <3>1, <3>2 DEF WorkOK
  <2> QED
    BY <2>1, <2>2
<1>5. \A c \in Copies : copy'[c] # "absent" => state' # "absent"
  BY <1>3 DEF WorkOK
<1> QED
  BY <1>2, <1>3, <1>4, <1>5 DEF WorkOK

(* Object storage, the submission log and the world stay well typed, and   *)
(* objects are only added.                                                 *)
LEMMA WorldStep ==
  TypeOK /\ WorkOK /\ [Next]_vars => WorldTyped' /\ objects \subseteq objects'
<1> SUFFICES ASSUME TypeOK, WorkOK, [Next]_vars
             PROVE  WorldTyped' /\ objects \subseteq objects'
  OBVIOUS
<1> USE AudioAssumption DEF WorldTyped, TypeOK
<1>1. CASE Register \/ LeaseLapse \/ DeadlineNears \/ AccessChanges \/ UNCHANGED vars
  BY <1>1 DEF Register, LeaseLapse, DeadlineNears, AccessChanges, vars, worldVars
<1>2. ASSUME NEW c \in Copies, Publish(c) \/ RefuseDelivery(c)
      PROVE WorldTyped' /\ objects \subseteq objects'
  BY <1>2 DEF Publish, RefuseDelivery, worldVars
<1>3. ASSUME NEW c \in Copies, NEW w \in Workers, Deliver(w, c)
      PROVE WorldTyped' /\ objects \subseteq objects'
  BY <1>3 DEF Deliver, worldVars
<1>4. ASSUME NEW w \in Workers,
             Authorize(w) \/ ClaimFinal(w) \/ ClaimRefused(w) \/ ClaimOperation(w)
               \/ CompleteAudio(w) \/ RecordFailure(w)
      PROVE WorldTyped' /\ objects \subseteq objects'
  BY <1>4 DEF Authorize, ClaimFinal, ClaimRefused, ClaimOperation, CompleteAudio,
              RecordFailure, worldVars
<1>5. ASSUME NEW w \in Workers, Submit(w) \/ Synthesized(w)
      PROVE WorldTyped' /\ objects \subseteq objects'
  BY <1>5 DEF Submit, Synthesized, worldVars
<1>6. ASSUME NEW w \in Workers, PutImmutable(w) \/ Abort(w)
      PROVE WorldTyped' /\ objects \subseteq objects'
  <2>1. phase[w] \in Working => attempt[w] \in Attempts
    BY DEF WorkOK, Attempts
  <2> QED
    BY <1>6, <2>1 DEF PutImmutable, Abort, Working, worldVars
<1> QED
  BY <1>1, <1>2, <1>3, <1>4, <1>5, <1>6 DEF Next, Step, Push

(* The invocations stay consistent with the rows. *)
LEMMA QueueStep == TypeOK /\ WorkOK /\ [Next]_vars => QueueTyped' /\ WorkOK'
<1> SUFFICES ASSUME TypeOK, WorkOK, [Next]_vars PROVE QueueTyped' /\ WorkOK'
  OBVIOUS
<1> USE AudioAssumption
<1>op. OpStep /\ objects \subseteq objects'
  BY StepKinds, WorldStep
<1>ty. OpTyped /\ QueueTyped
  BY TypeParts
<1>mo. /\ state # "absent" => state' # "absent"
       /\ attempts' \in Nat /\ attempts <= attempts' /\ attempts \in Nat
  BY <1>op, <1>ty, MonotoneStep DEF OpTyped
<1>at. \A w \in Workers :
         /\ phase[w] \in Phases /\ attempt[w] \in 0..MaxDeliveries
         /\ cause[w] \in Causes \cup {"none"}
         /\ [attempt EXCEPT ![w] = attempt[w]] = attempt
         /\ [cause EXCEPT ![w] = cause[w]] = cause
  BY <1>ty DEF QueueTyped
<1>1. CASE UNCHANGED <<workVars, queueVars>>
  <2>1. QueueTyped'
    BY <1>1, <1>ty DEF QueueTyped, workVars, queueVars
  <2>2. WorkOK'
    BY <1>1, <1>op, <1>mo, <1>at DEF WorkOK, workVars, queueVars
  <2> QED
    BY <2>1, <2>2
<1>2. ASSUME NEW c \in Copies, Publish(c) PROVE QueueTyped' /\ WorkOK'
  BY <1>2, <1>ty DEF Publish, QueueTyped, WorkOK, opVars, workVars
<1>3. ASSUME NEW c \in Copies, RefuseDelivery(c) PROVE QueueTyped' /\ WorkOK'
  BY <1>3, <1>ty DEF RefuseDelivery, QueueTyped, WorkOK, opVars, workVars
<1>4. ASSUME NEW c \in Copies, NEW w \in Workers, Deliver(w, c) PROVE QueueTyped' /\ WorkOK'
  BY <1>4, <1>ty DEF Deliver, QueueTyped, WorkOK, Phases, Working, opVars
<1>5. ASSUME NEW w \in Workers, NEW v \in Verdicts, phase[w] # "idle", End(w, v)
      PROVE QueueTyped' /\ WorkOK'
  BY <1>5, <1>op, EndWork
<1>6. ASSUME NEW w \in Workers, Authorize(w) PROVE QueueTyped' /\ WorkOK'
  <2>1. CASE access = "revoked"
    BY <1>5, <1>6, <2>1 DEF Authorize, Denied, Verdicts
  <2>2. CASE access # "revoked"
    <3>1. phase' = [phase EXCEPT ![w] = "authorized"]
          /\ UNCHANGED <<job, attempt, cause, queueVars>>
      BY <1>6, <2>2 DEF Authorize
    <3>2. "authorized" \in Phases /\ "authorized" \notin Working /\ phase[w] # "idle"
      BY <1>6 DEF Phases, Working, Authorize
    <3> QED
      BY <3>1, <3>2, <1>op, <1>at, MoveWork DEF Working
  <2> QED
    BY <2>1, <2>2
<1>7. ASSUME NEW w \in Workers, ClaimFinal(w) \/ ClaimRefused(w) \/ CompleteAudio(w)
               \/ RecordFailure(w) \/ Abort(w)
      PROVE QueueTyped' /\ WorkOK'
  <2>1. \E v \in Verdicts : End(w, v)
    BY <1>7, DispositionVerdict
       DEF ClaimFinal, ClaimRefused, CompleteAudio, RecordFailure, Abort,
           Denied, Unavailable, Verdicts
  <2>2. phase[w] # "idle"
    BY <1>7 DEF ClaimFinal, ClaimRefused, CompleteAudio, RecordFailure, Abort
  <2> QED
    BY <1>5, <2>1, <2>2
<1>8. ASSUME NEW w \in Workers, ClaimOperation(w) PROVE QueueTyped' /\ WorkOK'
  <2>1. /\ phase' = [phase EXCEPT ![w] = "claimed"]
        /\ attempt' = [attempt EXCEPT ![w] = attempts + 1]
        /\ UNCHANGED <<job, cause, queueVars>>
        /\ attempts' = attempts + 1
    BY <1>8 DEF ClaimOperation
  <2>2. attempts + 1 \in 0..MaxDeliveries /\ attempts + 1 \in 1..attempts'
    BY <1>8, <1>ty, <2>1 DEF ClaimOperation, Exhausted, OpTyped
  <2>3. "claimed" \in Phases /\ phase[w] # "idle"
    BY <1>8 DEF Phases, ClaimOperation
  <2> QED
    BY <2>1, <2>2, <2>3, <1>op, <1>at, MoveWork
<1>9. ASSUME NEW w \in Workers, NEW class \in Causes, Fail(w, class), phase[w] \in Working,
             UNCHANGED queueVars
      PROVE QueueTyped' /\ WorkOK'
  <2>1. /\ phase' = [phase EXCEPT ![w] = "failing"]
        /\ cause' = [cause EXCEPT ![w] = class]
        /\ UNCHANGED <<job, attempt>>
    BY <1>9 DEF Fail
  <2>2. attempt[w] \in 1..attempts'
    BY <1>9, <1>mo, <1>at DEF WorkOK
  <2>3. "failing" \in Phases /\ phase[w] # "idle" /\ class \in Causes \cup {"none"}
    BY <1>9 DEF Phases, Working
  <2> QED
    BY <1>9, <2>1, <2>2, <2>3, <1>op, <1>at, MoveWork
<1>10. ASSUME NEW w \in Workers, NEW next \in {"synthesizing", "synthesized", "stored"},
              Advance(w, next), phase[w] \in Working, UNCHANGED queueVars,
              next = "stored" => attempt[w] \in objects'
       PROVE QueueTyped' /\ WorkOK'
  <2>1. phase' = [phase EXCEPT ![w] = next] /\ UNCHANGED <<job, attempt, cause>>
    BY <1>10 DEF Advance
  <2>2. attempt[w] \in 1..attempts'
    BY <1>10, <1>mo, <1>at DEF WorkOK
  <2>3. next \in Phases /\ next # "failing" /\ phase[w] # "idle"
    BY <1>10 DEF Phases, Working
  <2> QED
    BY <1>10, <2>1, <2>2, <2>3, <1>op, <1>at, MoveWork
<1>11. ASSUME NEW w \in Workers, Submit(w) PROVE QueueTyped' /\ WorkOK'
  BY <1>9, <1>10, <1>11 DEF Submit, Causes, Working
<1>12. ASSUME NEW w \in Workers, Synthesized(w) PROVE QueueTyped' /\ WorkOK'
  <2>1. phase[w] \in Working /\ UNCHANGED queueVars
    BY <1>12 DEF Synthesized, Working
  <2>2. Advance(w, "synthesized") \/ \E class \in Causes : Fail(w, class)
    BY <1>12 DEF Synthesized, Causes, RetryableCauses, PermanentCauses
  <2> QED
    BY <1>9, <1>10, <2>1, <2>2
<1>13. ASSUME NEW w \in Workers, PutImmutable(w) PROVE QueueTyped' /\ WorkOK'
  <2>1. phase[w] \in Working /\ UNCHANGED queueVars
    BY <1>13 DEF PutImmutable, Working
  <2>2. \/ Advance(w, "stored") /\ attempt[w] \in objects'
        \/ \E class \in Causes : Fail(w, class)
    BY <1>13 DEF PutImmutable, Causes, RetryableCauses
  <2> QED
    BY <1>9, <1>10, <2>1, <2>2
<1>14. CASE Register \/ LeaseLapse \/ DeadlineNears \/ AccessChanges \/ UNCHANGED vars
  BY <1>1, <1>14 DEF Register, LeaseLapse, DeadlineNears, AccessChanges, vars
<1> QED
  BY <1>2, <1>3, <1>4, <1>6, <1>7, <1>8, <1>11, <1>12, <1>13, <1>14 DEF Next, Step, Push

-----------------------------------------------------------------------------
(* What LedgerMatches needs to be kept: an operation that waits has budget *)
(* left, one that nobody has taken has used none of it.                    *)
BudgetOK ==
    /\ state \in {"absent", "queued"} => attempts = 0
    /\ state \in {"processing", "retry_scheduled"} => attempts \in Attempts
    /\ state = "retry_scheduled" => attempts < MaxDeliveries

LedgerInv == LedgerMatches /\ BudgetOK

(* A step keeps the history of the attempts in line with the operation. *)
LEMMA LedgerStep == OpTyped /\ LedgerInv /\ OpStep => LedgerInv'
<1> SUFFICES ASSUME OpTyped, LedgerInv, OpStep PROVE LedgerMatches' /\ BudgetOK'
  BY DEF LedgerInv
<1> USE AudioAssumption DEF LedgerInv, OpTyped
<1>1. CASE UNCHANGED opVars
  BY <1>1 DEF LedgerMatches, BudgetOK, opVars
<1>2. CASE Opens
  BY <1>2 DEF LedgerMatches, BudgetOK, Opens, Attempts
<1>3. CASE Lapses
  BY <1>3 DEF LedgerMatches, BudgetOK, Lapses
<1>4. CASE Reschedules
  BY <1>4 DEF LedgerMatches, BudgetOK, Reschedules, Finished, Attempts
<1>5. CASE Completes
  BY <1>5 DEF LedgerMatches, BudgetOK, Completes, Finalize, Finished, Attempts
<1>6. ASSUME NEW w \in Workers, Claims(w) PROVE LedgerMatches' /\ BudgetOK'
  <2>1. BudgetOK'
    BY <1>6 DEF Claims, BudgetOK, Attempts
  <2>2. ASSUME NEW n \in Attempts
        PROVE /\ n > attempts' => ledger'[n] = "none"
              /\ n < attempts' => ledger'[n] = "retry_scheduled"
              /\ n = attempts' => ledger'[n] = "started"
    <3>1. /\ attempts' = attempts + 1 /\ attempts + 1 \in Attempts
          /\ ledger' = [(IF state = "processing"
                           THEN Finished(ledger, attempts, "retry_scheduled") ELSE ledger)
                        EXCEPT ![attempts + 1] = "started"]
      BY <1>6 DEF Claims, Attempts
    <3>2. state # "processing" /\ attempts \in Attempts => state = "retry_scheduled"
      BY <1>6 DEF Claims, OpenStates, BudgetOK, Attempts
    <3>3. n = attempts /\ state # "processing" => ledger[n] = "retry_scheduled"
      BY <3>2 DEF LedgerMatches
    <3>4. state = "processing" => attempts \in Attempts
      BY DEF BudgetOK
    <3> QED
      BY <3>1, <3>3, <3>4 DEF LedgerMatches, Finished, Attempts
  <2>3. state' = "processing"
    BY <1>6 DEF Claims
  <2> QED
    BY <2>1, <2>2, <2>3 DEF LedgerMatches
<1>7. ASSUME NEW s \in {"failed_permanent", "expired"}, GivesUp(s)
      PROVE LedgerMatches' /\ BudgetOK'
  <2>1. /\ state' = s /\ attempts' = attempts
        /\ ledger' = IF state = "processing" THEN Finished(ledger, attempts, s) ELSE ledger
    BY <1>7 DEF GivesUp, Finalize
  <2>2. BudgetOK'
    BY <2>1 DEF BudgetOK
  <2>3. CASE state = "processing"
    <3>1. attempts \in Attempts
      BY <2>3 DEF BudgetOK
    <3> QED
      BY <2>1, <2>2, <2>3, <3>1 DEF LedgerMatches, Finished, Attempts
  <2>4. CASE state # "processing"
    <3>1. s = "expired"
      BY <1>7, <2>4 DEF GivesUp, OpenStates, BudgetOK
    <3> QED
      BY <2>1, <2>2, <2>4, <3>1 DEF LedgerMatches
  <2> QED
    BY <2>3, <2>4
<1> QED
  BY <1>1, <1>2, <1>3, <1>4, <1>5, <1>6, <1>7 DEF OpStep

(* A step keeps the asset that of the newest attempt: the one step that    *)
(* stores it is of that attempt, and no attempt is begun after it.         *)
LEMMA NewestStep ==
  OpTyped /\ OneEffect /\ NewestAttemptWins /\ OpStep /\ objects \subseteq objects'
    => NewestAttemptWins'
<1> SUFFICES ASSUME OpTyped, OneEffect, NewestAttemptWins, OpStep, objects \subseteq objects',
                    asset' # 0
             PROVE asset' = attempts' /\ asset' \in objects'
  BY DEF NewestAttemptWins
<1>1. CASE asset # 0
  <2>1. state \in Terminal
    BY <1>1 DEF OneEffect, Terminal
  <2>2. UNCHANGED <<asset, attempts>>
    BY <2>1, FinalStep DEF opVars
  <2> QED
    BY <1>1, <2>2 DEF NewestAttemptWins
<1>2. CASE asset = 0
  <2>1. CASE Completes
    BY <2>1 DEF Completes, Finalize
  <2>2. CASE ~Completes
    BY <1>2, <2>2 DEF OpStep, opVars, Opens, Lapses, Reschedules, Claims, GivesUp
  <2> QED
    BY <2>1, <2>2
<1> QED
  BY <1>1, <1>2

(* The end of an invocation acknowledges its copy only of an operation     *)
(* that has succeeded or expired.                                          *)
LEMMA EndAcks ==
  ASSUME TypeOK, WorkOK, OpStep, NEW w \in Workers, NEW v \in Verdicts, End(w, v),
         AckedIsFinal, v = "ack" => state' \in {"succeeded", "expired"}
  PROVE AckedIsFinal'
<1> SUFFICES ASSUME NEW c \in Copies, copy'[c] = "acked"
             PROVE state' \in {"succeeded", "expired"}
  BY DEF AckedIsFinal
<1>1. OpTyped /\ QueueTyped
  BY TypeParts
<1>2. CASE copy[c] = "acked"
  BY <1>1, <1>2, FinalStep DEF AckedIsFinal, Terminal, opVars
<1>3. CASE copy[c] # "acked"
  BY <1>1, <1>3, EndEffect
<1> QED
  BY <1>2, <1>3

(* Every step keeps acknowledged copies to finished operations. *)
LEMMA AckedStep == TypeOK /\ WorkOK /\ AckedIsFinal /\ [Next]_vars => AckedIsFinal'
<1> SUFFICES ASSUME TypeOK, WorkOK, AckedIsFinal, [Next]_vars PROVE AckedIsFinal'
  OBVIOUS
<1>op. OpStep /\ OpTyped /\ QueueTyped
  BY StepKinds, TypeParts
<1>st. state \in {"succeeded", "expired"} => state' = state
  BY <1>op, FinalStep DEF Terminal, opVars
<1>1. ASSUME \A c \in Copies : copy'[c] = "acked" => copy[c] = "acked" PROVE AckedIsFinal'
  BY <1>1, <1>st DEF AckedIsFinal
<1>2. CASE UNCHANGED queueVars
  BY <1>1, <1>2 DEF queueVars
<1>3. ASSUME NEW c \in Copies, Publish(c) \/ RefuseDelivery(c) PROVE AckedIsFinal'
  BY <1>1, <1>3, <1>op DEF Publish, RefuseDelivery, QueueTyped
<1>4. ASSUME NEW c \in Copies, NEW w \in Workers, Deliver(w, c) PROVE AckedIsFinal'
  BY <1>1, <1>4, <1>op DEF Deliver, QueueTyped
<1>5. ASSUME NEW w \in Workers, NEW v \in Verdicts, End(w, v),
             v = "ack" => state' \in {"succeeded", "expired"}
      PROVE AckedIsFinal'
  BY <1>5, <1>op, EndAcks
<1>6. ASSUME NEW w \in Workers, Denied(w) \/ Unavailable(w) PROVE AckedIsFinal'
  BY <1>5, <1>6 DEF Denied, Unavailable, Verdicts
<1>7. ASSUME NEW w \in Workers, NEW s, End(w, Disposition(s)), state' = s PROVE AckedIsFinal'
  BY <1>5, <1>7, DispositionVerdict, DispositionAck
<1>8. ASSUME NEW w \in Workers, Authorize(w) \/ ClaimRefused(w) PROVE AckedIsFinal'
  BY <1>2, <1>6, <1>8 DEF Authorize, ClaimRefused, queueVars
<1>9. ASSUME NEW w \in Workers, ClaimFinal(w) PROVE AckedIsFinal'
  BY <1>7, <1>9 DEF ClaimFinal, Finalize, opVars
<1>10. ASSUME NEW w \in Workers, ClaimOperation(w) \/ Submit(w) \/ Synthesized(w) \/ PutImmutable(w)
       PROVE AckedIsFinal'
  BY <1>2, <1>10 DEF ClaimOperation, Submit, Synthesized, PutImmutable
<1>11. ASSUME NEW w \in Workers, CompleteAudio(w) PROVE AckedIsFinal'
  <2>1. CASE End(w, "ack") /\ Finalize("succeeded", "none")
    BY <1>5, <2>1 DEF Finalize, Verdicts
  <2> QED
    BY <1>6, <1>7, <1>11, <2>1 DEF CompleteAudio, opVars
<1>12. ASSUME NEW w \in Workers, RecordFailure(w) PROVE AckedIsFinal'
  <2>1. CASE End(w, "retry")
    BY <1>5, <2>1 DEF Verdicts
  <2> QED
    BY <1>6, <1>7, <1>12, <2>1 DEF RecordFailure, Finalize, opVars
<1>13. ASSUME NEW w \in Workers, Abort(w) PROVE AckedIsFinal'
  BY <1>5, <1>13 DEF Abort, Verdicts
<1>14. CASE Register \/ LeaseLapse \/ DeadlineNears \/ AccessChanges \/ UNCHANGED vars
  BY <1>2, <1>14 DEF Register, LeaseLapse, DeadlineNears, AccessChanges, vars
<1> QED
  BY <1>3, <1>4, <1>8, <1>9, <1>10, <1>11, <1>12, <1>13, <1>14 DEF Next, Step, Push

-----------------------------------------------------------------------------
(* The initial state satisfies the inductive invariant. *)
LEMMA InitOp == Init => OpInv
<1> SUFFICES ASSUME Init PROVE OpInv
  OBVIOUS
<1> USE AudioAssumption DEF Init
<1>1. OpTyped
  BY DEF OpTyped, States, Attempts
<1>2. QueueTyped
  BY DEF QueueTyped, Phases, Verdicts
<1>3. WorldTyped
  BY DEF WorldTyped
<1>4. WorkOK
  BY DEF WorkOK, Working
<1>5. OneEffect
  BY DEF OneEffect
<1> QED
  BY <1>1, <1>2, <1>3, <1>4, <1>5, TypeParts DEF OpInv

(* Every step keeps the inductive invariant. *)
LEMMA NextOp == OpInv /\ [Next]_vars => OpInv'
<1> SUFFICES ASSUME OpInv, [Next]_vars PROVE OpInv'
  OBVIOUS
<1>1. OpTyped /\ OpStep
  BY TypeParts, StepKinds DEF OpInv
<1>2. OpTyped' /\ OneEffect'
  BY <1>1, OpTypedStep, EffectStep DEF OpInv
<1>3. QueueTyped' /\ WorkOK' /\ WorldTyped'
  BY QueueStep, WorldStep DEF OpInv
<1>4. TypeOK'
  BY <1>2, <1>3 DEF TypeOK, OpTyped, QueueTyped, WorldTyped
<1> QED
  BY <1>2, <1>3, <1>4 DEF OpInv

(* The inductive invariant holds throughout. *)
LEMMA OpInvariant == Spec => []OpInv
  BY InitOp, NextOp, PTL DEF Spec

(* Rows, invocations and copies keep their types, and the lease columns    *)
(* their CHECK constraints.                                                *)
THEOREM OperationTypes == Spec => []TypeOK
<1>1. OpInv => TypeOK
  BY DEF OpInv
<1> QED
  BY <1>1, OpInvariant, PTL

(* Exactly one logical effect: however deliveries overlap, crash, repeat   *)
(* or arrive late, an operation emits one terminal event, the one of its   *)
(* outcome, and has a ready asset exactly when it succeeded.               *)
THEOREM ExactlyOneEffect == Spec => []OneEffect
<1>1. OpInv => OneEffect
  BY DEF OpInv
<1> QED
  BY <1>1, OpInvariant, PTL

(* The first committed terminal state wins: no step changes a finished     *)
(* operation.                                                              *)
THEOREM FirstTerminalWins == Spec => TerminalIsFinal
<1>1. OpInv /\ [Next]_vars => [(state \in Terminal) => UNCHANGED opVars]_vars
  BY TypeParts, StepKinds, FinalStep DEF OpInv
<1> QED
  BY <1>1, OpInvariant, PTL DEF Spec, TerminalIsFinal

(* The rows tell one story: the history of the attempts is that of the     *)
(* operation, a stale invocation never publishes its audio, and no command *)
(* is acknowledged before its operation has succeeded or expired, for any  *)
(* number of invocations, copies, pushes and attempts.                     *)
THEOREM OperationRowsAgree == Spec => []AttemptsAgree
<1> DEFINE More == LedgerInv /\ NewestAttemptWins /\ AckedIsFinal
<1>1. Init => More
  BY AudioAssumption
     DEF Init, LedgerInv, LedgerMatches, BudgetOK, NewestAttemptWins, AckedIsFinal, Attempts
<1>2. OpInv /\ More /\ [Next]_vars => More'
  <2> SUFFICES ASSUME OpInv, More, [Next]_vars PROVE More'
    OBVIOUS
  <2>1. OpTyped /\ OpStep /\ objects \subseteq objects'
    BY TypeParts, StepKinds, WorldStep DEF OpInv
  <2> QED
    BY <2>1, LedgerStep, NewestStep, AckedStep DEF OpInv
<1>3. OpInv /\ More => AttemptsAgree
  BY DEF OpInv, LedgerInv, AttemptsAgree
<1> HIDE DEF More
<1> QED
  BY <1>1, <1>2, <1>3, OpInvariant, PTL DEF Spec

(* The operation with its leases, attempts, deliveries and crashes         *)
(* implements the abstract durable operation of ADR 0012.                  *)
THEOREM OperationRefinesDurable == Spec => RefinesDurable
<1>1. Init => Durable!Init
  BY DEF Init, Durable!Init
<1>2. OpInv /\ [Next]_vars =>
        [Durable!Next]_<<IF state \in {"queued", "processing", "retry_scheduled"}
                           THEN "open" ELSE state, asset # 0, events>>
  <2> SUFFICES ASSUME OpInv, OpStep
               PROVE [Durable!Next]_<<IF state \in {"queued", "processing", "retry_scheduled"}
                                        THEN "open" ELSE state, asset # 0, events>>
    BY StepKinds DEF OpInv
  <2> USE AudioAssumption DEF OpenStates, OpInv, OneEffect
  <2>1. CASE UNCHANGED opVars
    BY <2>1 DEF opVars
  <2>2. CASE Opens
    BY <2>2 DEF Opens, Durable!Next, Durable!Open
  <2>3. CASE Lapses \/ Reschedules
    BY <2>3 DEF Lapses, Reschedules
  <2>4. ASSUME NEW w \in Workers, Claims(w)
        PROVE UNCHANGED <<IF state \in {"queued", "processing", "retry_scheduled"}
                            THEN "open" ELSE state, asset # 0, events>>
    BY <2>4 DEF Claims
  <2>5. CASE Completes
    <3>1. Durable!Succeed
      BY <2>5 DEF Completes, Finalize, Attempts, Durable!Succeed
    <3> QED
      BY <3>1 DEF Durable!Next
  <2>6. ASSUME NEW s \in {"failed_permanent", "expired"}, GivesUp(s) PROVE Durable!Next
    <3>1. Durable!GiveUp
      BY <2>6 DEF GivesUp, Finalize, Durable!GiveUp
    <3> QED
      BY <3>1 DEF Durable!Next
  <2> QED
    BY <2>1, <2>2, <2>3, <2>4, <2>5, <2>6 DEF OpStep
<1> QED
  BY <1>1, <1>2, OpInvariant, PTL DEF Spec, RefinesDurable, Durable!Spec

-----------------------------------------------------------------------------
(* The outbox relay.                                                       *)
(***************************************************************************)

(* What RelayTypes leaves out and PublishedWasAccepted needs: a process only   *)
(* ever works on a committed row, and an acknowledged send was accepted.   *)
FlightOK ==
    \A r \in Relays, m \in Messages :
        /\ flight[r][m] # "idle" => row[m] # "absent"
        /\ flight[r][m] = "acked" => copies[m] > 0

RelayInv == RelayTypes /\ FlightOK /\ PublishedWasAccepted

(* The initial state has the types. *)
LEMMA RelayTypesInit == RelayInit => RelayTypes
  BY RelayAssumption DEF RelayInit, RelayTypes, RowStates, LeaseStates, Flights, Owners

(* Every step of the relay keeps the types and the table's constraints. *)
LEMMA RelayTypesNext == RelayTypes /\ [RelayNext]_relayVars => RelayTypes'
<1> SUFFICES ASSUME RelayTypes, [RelayNext]_relayVars PROVE RelayTypes'
  OBVIOUS
<1> USE RelayAssumption DEF RowStates, LeaseStates, Flights
<1>1. ASSUME NEW m \in Messages, Enqueue(m) PROVE RelayTypes'
  BY <1>1 DEF RelayTypes, Enqueue
<1>2. ASSUME NEW m \in Messages, ClaimLapse(m) PROVE RelayTypes'
  BY <1>2 DEF RelayTypes, ClaimLapse, Holders, Fault
<1>3. ASSUME NEW m \in Messages, DeadlinePass(m) PROVE RelayTypes'
  BY <1>3 DEF RelayTypes, DeadlinePass
<1>4. ASSUME NEW r \in Relays, Claim(r) PROVE RelayTypes'
  <2>1. PICK skipped \in SUBSET (Locked(r) \cap Claimable) :
          LET batch == Batch(Claimable \ skipped)
          IN /\ rowOwner' = [m \in Messages |->
                            IF m \in batch THEN LeaseOwner[r] ELSE rowOwner[m]]
             /\ rowLease' = [m \in Messages |->
                            IF m \in batch THEN "live" ELSE rowLease[m]]
             /\ flight' = [flight EXCEPT ![r] =
                  [m \in Messages |-> IF m \in batch THEN "sending" ELSE "idle"]]
             /\ stale' = [m \in Messages |->
                            IF m \in batch THEN stale[m] \ {r} ELSE stale[m]]
    BY <1>4 DEF Claim
  <2> DEFINE batch == Batch(Claimable \ skipped)
  <2>2. \A m \in batch : m \in Messages /\ row[m] = "pending"
    BY DEF Batch, Claimable
  <2>3. UNCHANGED <<row, overdue, copies, faults>>
    BY <1>4 DEF Claim
  <2>4. LeaseOwner[r] \in Owners
    BY DEF Owners
  <2> HIDE DEF batch
  <2> QED
    BY <2>1, <2>2, <2>3, <2>4 DEF RelayTypes, batch
<1>5. ASSUME NEW r \in Relays, Crash(r) PROVE RelayTypes'
  BY <1>5 DEF RelayTypes, Crash, Fault
<1>6. ASSUME NEW r \in Relays, NEW m \in Messages, SendAccepted(r, m) PROVE RelayTypes'
  BY <1>6 DEF RelayTypes, SendAccepted
<1>7. ASSUME NEW r \in Relays, NEW m \in Messages, SendRejected(r, m) PROVE RelayTypes'
  BY <1>7 DEF RelayTypes, SendRejected, Fault
<1>8. ASSUME NEW r \in Relays, NEW m \in Messages, Mark(r, m) PROVE RelayTypes'
  <2>1. CASE Marks(r, m)
    <3>1. flight' = [flight EXCEPT ![r][m] = "idle"]
      BY <1>8 DEF Mark
    <3>2. /\ row' = [row EXCEPT ![m] = "published"]
          /\ rowOwner' = [rowOwner EXCEPT ![m] = Unowned]
          /\ rowLease' = [rowLease EXCEPT ![m] = "none"]
          /\ UNCHANGED <<overdue, copies, stale, faults>>
      BY <1>8, <2>1 DEF Mark
    <3> QED
      BY <3>1, <3>2 DEF RelayTypes
  <2>2. CASE ~Marks(r, m)
    BY <1>8, <2>2 DEF RelayTypes, Mark
  <2> QED
    BY <2>1, <2>2
<1>9. ASSUME NEW r \in Relays, NEW m \in Messages, Release(r, m) PROVE RelayTypes'
  BY <1>9 DEF RelayTypes, Release, Releases
<1>10. ASSUME NEW r \in Relays, NEW m \in Messages, SendAmbiguous(r, m) PROVE RelayTypes'
  BY <1>10 DEF RelayTypes, SendAmbiguous, Fault
<1>11. CASE UNCHANGED relayVars
  BY <1>11 DEF RelayTypes, relayVars
<1> QED
  BY <1>1, <1>2, <1>3, <1>4, <1>5, <1>6, <1>7, <1>8, <1>9, <1>10, <1>11
     DEF RelayNext, Settle

(* The variables keep their types, the lease columns are NULL together and *)
(* a published row holds no lease, in every behaviour of the relay.        *)
THEOREM RelayTypesHold == RelaySpec => []RelayTypes
  BY RelayTypesInit, RelayTypesNext, PTL DEF RelaySpec

(* The initial state satisfies the inductive invariant. *)
LEMMA RelayInvInit == RelayInit => RelayInv
<1> SUFFICES ASSUME RelayInit PROVE RelayInv
  OBVIOUS
<1>1. FlightOK
  BY DEF RelayInit, FlightOK
<1>2. PublishedWasAccepted
  BY DEF RelayInit, PublishedWasAccepted
<1> QED
  BY <1>1, <1>2, RelayTypesInit DEF RelayInv

(* A step keeps the inductive invariant.  Only a send that the broker      *)
(* accepted leads to "acked", and only "acked" leads to "published".       *)
LEMMA RelayInvNext == RelayInv /\ [RelayNext]_relayVars => RelayInv'
<1> SUFFICES ASSUME RelayInv, [RelayNext]_relayVars PROVE FlightOK' /\ PublishedWasAccepted'
  BY RelayTypesNext DEF RelayInv
<1> USE DEF RelayInv, Flights, RowStates
<1>1. ASSUME NEW m \in Messages, Enqueue(m) PROVE FlightOK' /\ PublishedWasAccepted'
  BY <1>1 DEF RelayTypes, FlightOK, PublishedWasAccepted, Enqueue
<1>2. ASSUME NEW m \in Messages, ClaimLapse(m) PROVE FlightOK' /\ PublishedWasAccepted'
  BY <1>2 DEF FlightOK, PublishedWasAccepted, ClaimLapse
<1>3. ASSUME NEW m \in Messages, DeadlinePass(m) PROVE FlightOK' /\ PublishedWasAccepted'
  BY <1>3 DEF FlightOK, PublishedWasAccepted, DeadlinePass
<1>4. ASSUME NEW r \in Relays, Claim(r) PROVE FlightOK' /\ PublishedWasAccepted'
  <2>1. PICK skipped : flight' = [flight EXCEPT ![r] =
          [m \in Messages |-> IF m \in Batch(Claimable \ skipped) THEN "sending" ELSE "idle"]]
    BY <1>4 DEF Claim
  <2>2. UNCHANGED <<row, copies>>
    BY <1>4 DEF Claim
  <2>3. \A m \in Batch(Claimable \ skipped) : row[m] = "pending"
    BY DEF Batch, Claimable
  <2> QED
    BY <2>1, <2>2, <2>3 DEF RelayTypes, FlightOK, PublishedWasAccepted
<1>5. ASSUME NEW r \in Relays, Crash(r) PROVE FlightOK' /\ PublishedWasAccepted'
  <2>1. \A m \in Messages : copies'[m] \in Nat /\ copies'[m] >= copies[m]
    BY <1>5 DEF RelayTypes, Crash
  <2>2. flight' = [flight EXCEPT ![r] = [m \in Messages |-> "idle"]] /\ row' = row
    BY <1>5 DEF Crash
  <2> QED
    BY <2>1, <2>2 DEF RelayTypes, FlightOK, PublishedWasAccepted
<1>6. ASSUME NEW r \in Relays, NEW m \in Messages, SendAccepted(r, m)
      PROVE FlightOK' /\ PublishedWasAccepted'
  BY <1>6 DEF RelayTypes, FlightOK, PublishedWasAccepted, SendAccepted
<1>7. ASSUME NEW r \in Relays, NEW m \in Messages, SendRejected(r, m)
      PROVE FlightOK' /\ PublishedWasAccepted'
  BY <1>7 DEF RelayTypes, FlightOK, PublishedWasAccepted, SendRejected
<1>8. ASSUME NEW r \in Relays, NEW m \in Messages, Mark(r, m)
      PROVE FlightOK' /\ PublishedWasAccepted'
  <2>1. flight' = [flight EXCEPT ![r][m] = "idle"] /\ copies' = copies
    BY <1>8 DEF Mark
  <2>2. row' = row \/ row' = [row EXCEPT ![m] = "published"]
    BY <1>8 DEF Mark
  <2>3. copies[m] > 0
    BY <1>8 DEF Mark, FlightOK
  <2> QED
    BY <2>1, <2>2, <2>3 DEF RelayTypes, FlightOK, PublishedWasAccepted
<1>9. ASSUME NEW r \in Relays, NEW m \in Messages, Release(r, m)
      PROVE FlightOK' /\ PublishedWasAccepted'
  BY <1>9 DEF RelayTypes, FlightOK, PublishedWasAccepted, Release
<1>10. ASSUME NEW r \in Relays, NEW m \in Messages, SendAmbiguous(r, m)
       PROVE FlightOK' /\ PublishedWasAccepted'
  BY <1>10 DEF RelayTypes, FlightOK, PublishedWasAccepted, SendAmbiguous
<1>11. CASE UNCHANGED relayVars
  BY <1>11 DEF FlightOK, PublishedWasAccepted, relayVars
<1> QED
  BY <1>1, <1>2, <1>3, <1>4, <1>5, <1>6, <1>7, <1>8, <1>9, <1>10, <1>11
     DEF RelayNext, Settle

(* No command is lost between the outbox and the broker: a row is          *)
(* published only after the broker accepted it, for any number of          *)
(* overlapping relays, crashes, lapsed leases and failed sends.            *)
THEOREM NoLostCommand == RelaySpec => []PublishedWasAccepted
<1>1. RelayInv => PublishedWasAccepted
  BY DEF RelayInv
<1> QED
  BY <1>1, RelayInvInit, RelayInvNext, PTL DEF RelaySpec

-----------------------------------------------------------------------------
(* Duplicates.  A copy beyond the first must have been paid for by a fault *)
(* before it can be made.  The relays that owe a copy or a release of m:   *)
Owing(m) == {r \in Relays : flight[r][m] \in {"sending", "failed"}}
Owed(m) == copies[m] + Cardinality(Owing(m))

(* Somebody at work on m is under its live lease: nobody else can claim it *)
(* before a fault, or a release that settles what is owed.                 *)
Guarded(m) ==
    /\ rowLease[m] = "live"
    /\ \E r \in Relays :
         flight[r][m] # "idle" /\ r \notin stale[m] /\ rowOwner[m] = LeaseOwner[r]

(* What was copied and what is owed is paid, and a row that may be claimed *)
(* has one more copy to its credit.  DuplicatesExplained alone says        *)
(* nothing of the sends that are under way.                                *)
CopiesPaid ==
    \A m \in Messages :
        /\ Owed(m) <= 1 + faults
        /\ row[m] # "published" /\ ~Guarded(m) => Owed(m) <= faults

(* A finite number of relays owes a message. *)
LEMMA OwingCounts ==
  ASSUME NEW m \in Messages
  PROVE IsFiniteSet(Owing(m)) /\ Cardinality(Owing(m)) \in Nat
  BY RelayAssumption, FS_Subset, FS_CardinalityType DEF Owing

(* The same of the relays that owe it after a step. *)
LEMMA OwingCountsNext ==
  ASSUME NEW m \in Messages
  PROVE IsFiniteSet(Owing(m)') /\ Cardinality(Owing(m)') \in Nat
  BY RelayAssumption, FS_Subset, FS_CardinalityType DEF Owing

(* What one relay does about m changes the count by this relay alone. *)
LEMMA OwingChange ==
  ASSUME NEW r \in Relays, NEW m \in Messages,
         \A q \in Relays : q # r => flight'[q][m] = flight[q][m]
  PROVE /\ r \in Owing(m) /\ r \notin Owing(m)' =>
             Cardinality(Owing(m)') = Cardinality(Owing(m)) - 1
        /\ r \notin Owing(m) /\ r \in Owing(m)' =>
             Cardinality(Owing(m)') = Cardinality(Owing(m)) + 1
        /\ (r \in Owing(m) <=> r \in Owing(m)') =>
             Cardinality(Owing(m)') = Cardinality(Owing(m))
<1>1. r \in Owing(m) /\ r \notin Owing(m)' => Owing(m)' = Owing(m) \ {r}
  BY DEF Owing
<1>2. r \notin Owing(m) /\ r \in Owing(m)' => Owing(m)' = Owing(m) \cup {r}
  BY DEF Owing
<1>3. (r \in Owing(m) <=> r \in Owing(m)') => Owing(m)' = Owing(m)
  BY DEF Owing
<1> QED
  BY <1>1, <1>2, <1>3, OwingCounts, FS_AddElement, FS_RemoveElement

(* A step of r at one message leaves what the others owe as it is. *)
LEMMA CopiesPaidElsewhere ==
  ASSUME RelayTypes, CopiesPaid, NEW n \in Messages, faults' \in Nat, faults' >= faults,
         \A q \in Relays : flight'[q][n] = flight[q][n],
         copies'[n] = copies[n], rowLease'[n] = rowLease[n], rowOwner'[n] = rowOwner[n],
         stale'[n] = stale[n], row'[n] = row[n]
  PROVE /\ Owed(n)' <= 1 + faults'
        /\ row'[n] # "published" /\ ~Guarded(n)' => Owed(n)' <= faults'
<1>1. Owing(n)' = Owing(n)
  BY DEF Owing
<1>2. Guarded(n)' = Guarded(n)
  BY DEF Guarded
<1>3. copies[n] \in Nat /\ faults \in Nat
  BY RelayAssumption DEF RelayTypes
<1> QED
  BY <1>1, <1>2, <1>3, OwingCounts DEF CopiesPaid, Owed

(* Every step keeps the copies paid. *)
LEMMA CopiesPaidNext == RelayTypes /\ CopiesPaid /\ [RelayNext]_relayVars => CopiesPaid'
<1> SUFFICES ASSUME RelayTypes, CopiesPaid, [RelayNext]_relayVars, NEW n \in Messages
             PROVE /\ Owed(n)' <= 1 + faults'
                   /\ row'[n] # "published" /\ ~Guarded(n)' => Owed(n)' <= faults'
  BY DEF CopiesPaid
<1> DEFINE Paid == /\ Owed(n)' <= 1 + faults'
                   /\ row'[n] # "published" /\ ~Guarded(n)' => Owed(n)' <= faults'
<1>a. RelayTypes' /\ faults \in Nat /\ faults' \in Nat /\ copies[n] \in Nat /\ copies'[n] \in Nat
  <2>1. RelayTypes'
    BY RelayTypesNext
  <2> QED
    BY <2>1, RelayAssumption DEF RelayTypes
<1>b. Cardinality(Owing(n)) \in Nat /\ Cardinality(Owing(n)') \in Nat
  BY OwingCounts, OwingCountsNext
<1>c. /\ copies[n] + Cardinality(Owing(n)) <= 1 + faults
      /\ row[n] # "published" /\ ~Guarded(n) => copies[n] + Cardinality(Owing(n)) <= faults
  BY DEF CopiesPaid, Owed
<1>d. ASSUME \A q \in Relays : flight'[q][n] = flight[q][n],
             copies'[n] = copies[n], rowLease'[n] = rowLease[n], rowOwner'[n] = rowOwner[n],
             stale'[n] = stale[n], row'[n] = row[n], faults' >= faults
      PROVE Paid
  BY <1>d, <1>a, CopiesPaidElsewhere
<1>e. ASSUME NEW r \in Relays, NEW m \in Messages, NEW p,
             flight' = [flight EXCEPT ![r][m] = p]
      PROVE /\ \A q \in Relays : q # r => flight'[q][n] = flight[q][n]
            /\ m # n => \A q \in Relays : flight'[q][n] = flight[q][n]
            /\ flight'[r][m] = p
  BY <1>e DEF RelayTypes
<1> HIDE DEF Paid
<1>1. ASSUME NEW m \in Messages, Enqueue(m) PROVE Paid
  <2>1. UNCHANGED <<rowOwner, rowLease, flight, copies, stale, faults>>
    BY <1>1 DEF Enqueue
  <2>2. row'[n] = row[n] \/ row[n] # "published"
    BY <1>1 DEF Enqueue, RelayTypes
  <2>3. Owing(n)' = Owing(n) /\ Guarded(n)' = Guarded(n)
    BY <2>1 DEF Owing, Guarded
  <2> QED
    BY <1>a, <1>b, <1>c, <2>1, <2>2, <2>3 DEF Paid, Owed
<1>2. ASSUME NEW m \in Messages, ClaimLapse(m) PROVE Paid
  <2>1. UNCHANGED <<row, rowOwner, flight, copies>>
    BY <1>2 DEF ClaimLapse
  <2>2. faults' >= faults
    BY <1>2, <1>a DEF ClaimLapse, Fault
  <2>3. CASE m # n
    BY <1>2, <1>d, <2>1, <2>2, <2>3 DEF ClaimLapse, RelayTypes
  <2>4. CASE m = n
    <3>1. Owing(n)' = Owing(n)
      BY <2>1 DEF Owing
    <3>2. CASE Holders(n) \subseteq stale[n]
      <4>1. ~Guarded(n)
        BY <3>2 DEF Guarded, Holders
      <4> QED
        BY <1>2, <1>a, <1>b, <1>c, <2>1, <2>2, <3>1, <4>1 DEF Paid, Owed
    <3>3. CASE ~(Holders(n) \subseteq stale[n])
      <4>1. faults' = faults + 1
        BY <1>2, <2>4, <3>3 DEF ClaimLapse, Fault
      <4> QED
        BY <1>a, <1>b, <1>c, <2>1, <3>1, <4>1 DEF Paid, Owed
    <3> QED
      BY <3>2, <3>3
  <2> QED
    BY <2>3, <2>4
<1>3. ASSUME NEW m \in Messages, DeadlinePass(m) PROVE Paid
  BY <1>3, <1>a, <1>d DEF DeadlinePass
<1>4. ASSUME NEW r \in Relays, Claim(r) PROVE Paid
  <2>1. PICK skipped \in SUBSET (Locked(r) \cap Claimable) :
          LET batch == Batch(Claimable \ skipped)
          IN /\ rowOwner' = [m \in Messages |->
                            IF m \in batch THEN LeaseOwner[r] ELSE rowOwner[m]]
             /\ rowLease' = [m \in Messages |->
                            IF m \in batch THEN "live" ELSE rowLease[m]]
             /\ flight' = [flight EXCEPT ![r] =
                  [m \in Messages |-> IF m \in batch THEN "sending" ELSE "idle"]]
             /\ stale' = [m \in Messages |->
                            IF m \in batch THEN stale[m] \ {r} ELSE stale[m]]
    BY <1>4 DEF Claim
  <2> DEFINE batch == Batch(Claimable \ skipped)
  <2>2. n \in batch => row[n] = "pending" /\ rowLease[n] # "live"
    BY DEF Batch, Claimable
  <2>3. UNCHANGED <<row, copies, faults>> /\ flight[r][n] = "idle"
    BY <1>4 DEF Claim
  <2> HIDE DEF batch
  <2>4. \A q \in Relays : q # r => flight'[q][n] = flight[q][n]
    BY <2>1 DEF RelayTypes
  <2>5. CASE n \in batch
    <3>1. flight'[r][n] = "sending" /\ r \notin Owing(n) /\ r \in Owing(n)'
      BY <2>1, <2>3, <2>5 DEF RelayTypes, Owing, batch
    <3>2. Cardinality(Owing(n)') = Cardinality(Owing(n)) + 1
      BY <2>4, <3>1, OwingChange
    <3>3. copies[n] + Cardinality(Owing(n)) <= faults
      BY <1>c, <2>2, <2>5 DEF Guarded
    <3>4. rowLease'[n] = "live" /\ rowOwner'[n] = LeaseOwner[r] /\ r \notin stale'[n]
      BY <2>1, <2>5 DEF batch
    <3>5. Guarded(n)'
      BY <3>1, <3>4 DEF Guarded
    <3> QED
      BY <1>a, <1>b, <2>3, <3>2, <3>3, <3>5 DEF Paid, Owed
  <2>6. CASE n \notin batch
    <3>1. flight'[r][n] = "idle"
      BY <2>1, <2>6 DEF RelayTypes, batch
    <3>2. \A q \in Relays : flight'[q][n] = flight[q][n]
      BY <2>3, <2>4, <3>1
    <3>3. rowLease'[n] = rowLease[n] /\ rowOwner'[n] = rowOwner[n] /\ stale'[n] = stale[n]
      BY <2>1, <2>6 DEF batch
    <3> QED
      BY <1>a, <1>d, <2>3, <3>2, <3>3
  <2> QED
    BY <2>5, <2>6
<1>5. ASSUME NEW r \in Relays, Crash(r) PROVE Paid
  <2>1. PICK got \in SUBSET {m \in Messages \ Refused : flight[r][m] = "sending"} :
          copies' = [m \in Messages |-> IF m \in got THEN copies[m] + 1 ELSE copies[m]]
    BY <1>5 DEF Crash
  <2>2. flight' = [flight EXCEPT ![r] = [m \in Messages |-> "idle"]] /\ faults' = faults + 1
    BY <1>5 DEF Crash, Fault
  <2>3. /\ \A q \in Relays : q # r => flight'[q][n] = flight[q][n]
        /\ flight'[r][n] = "idle"
    BY <2>2 DEF RelayTypes
  <2>4. r \notin Owing(n)'
    BY <2>3 DEF Owing
  <2>5. CASE n \in got
    <3>1. r \in Owing(n) /\ copies'[n] = copies[n] + 1
      BY <2>1, <2>5 DEF Owing
    <3>2. Cardinality(Owing(n)') = Cardinality(Owing(n)) - 1
      BY <2>3, <2>4, <3>1, OwingChange
    <3> QED
      BY <1>a, <1>b, <1>c, <2>2, <3>1, <3>2 DEF Paid, Owed
  <2>6. CASE n \notin got
    <3>1. copies'[n] = copies[n]
      BY <2>1, <2>6
    <3>2. Cardinality(Owing(n)') <= Cardinality(Owing(n))
      BY <1>b, <2>3, <2>4, OwingChange
    <3> QED
      BY <1>a, <1>b, <1>c, <2>2, <3>1, <3>2 DEF Paid, Owed
  <2> QED
    BY <2>5, <2>6
<1>6. ASSUME NEW r \in Relays, NEW m \in Messages,
             SendAccepted(r, m) \/ SendAmbiguous(r, m) \/ SendRejected(r, m)
      PROVE Paid
  <2>1. /\ UNCHANGED <<row, rowOwner, rowLease, stale>> /\ flight[r][m] = "sending"
        /\ \/ /\ flight' = [flight EXCEPT ![r][m] = "acked"]
              /\ copies' = [copies EXCEPT ![m] = @ + 1] /\ faults' = faults
           \/ /\ flight' = [flight EXCEPT ![r][m] = "failed"]
              /\ copies' = [copies EXCEPT ![m] = @ + 1] /\ faults' = faults + 1
           \/ /\ flight' = [flight EXCEPT ![r][m] = "failed"]
              /\ copies' = copies /\ faults' >= faults
    BY <1>6, <1>a DEF SendAccepted, SendAmbiguous, SendRejected, Fault
  <2>2. /\ \A q \in Relays : q # r => flight'[q][n] = flight[q][n]
        /\ m # n => \A q \in Relays : flight'[q][n] = flight[q][n]
    BY <1>e, <2>1
  <2>3. CASE m # n
    <3>1. copies'[n] = copies[n] /\ faults' >= faults
      BY <1>a, <2>1, <2>3 DEF RelayTypes
    <3> QED
      BY <1>d, <2>1, <2>2, <2>3, <3>1
  <2>4. CASE m = n
    <3>1. r \in Owing(n)
      BY <2>1, <2>4 DEF Owing
    <3>2. flight[r][n] # "idle" /\ flight'[r][n] # "idle"
      BY <2>1, <2>4, <1>e
    <3>3. Guarded(n) => Guarded(n)'
      BY <2>1, <2>2, <3>2 DEF Guarded
    <3>4. CASE flight' = [flight EXCEPT ![r][m] = "acked"]
      <4>1. flight'[r][m] = "acked"
        BY <1>e, <3>4, ZenonT(60)
      <4>2. r \notin Owing(n)'
        BY <2>4, <4>1 DEF Owing
      <4>3. Cardinality(Owing(n)') = Cardinality(Owing(n)) - 1
        BY <2>2, <3>1, <4>2, OwingChange
      <4>4. copies'[n] <= copies[n] + 1 /\ faults' >= faults
        BY <1>a, <2>1, <2>4 DEF RelayTypes
      <4> QED
        BY <1>a, <1>b, <1>c, <2>1, <3>3, <4>3, <4>4 DEF Paid, Owed
    <3>5. CASE flight' = [flight EXCEPT ![r][m] = "failed"]
      <4>1. flight'[r][m] = "failed"
        BY <1>e, <3>5, ZenonT(60)
      <4>2. r \in Owing(n)'
        BY <2>4, <4>1 DEF Owing
      <4>3. Cardinality(Owing(n)') = Cardinality(Owing(n))
        BY <2>2, <3>1, <4>2, OwingChange
      <4>4. \/ copies'[n] = copies[n] + 1 /\ faults' = faults + 1
            \/ copies'[n] = copies[n] /\ faults' >= faults
        BY <1>e, <2>1, <2>4, <4>1 DEF RelayTypes
      <4> QED
        BY <1>a, <1>b, <1>c, <2>1, <3>3, <4>3, <4>4 DEF Paid, Owed
    <3> QED
      BY <2>1, <3>4, <3>5
  <2> QED
    BY <2>3, <2>4
<1>7. ASSUME NEW r \in Relays, NEW m \in Messages, Mark(r, m) PROVE Paid
  <2>1. /\ flight[r][m] = "acked" /\ flight' = [flight EXCEPT ![r][m] = "idle"]
        /\ UNCHANGED <<copies, stale, faults>>
    BY <1>7 DEF Mark
  <2>2. /\ \A q \in Relays : q # r => flight'[q][n] = flight[q][n]
        /\ m # n => \A q \in Relays : flight'[q][n] = flight[q][n]
        /\ flight'[r][m] = "idle"
    BY <1>e, <2>1, ZenonT(60)
  <2>3. CASE m # n
    <3>1. row'[n] = row[n] /\ rowOwner'[n] = rowOwner[n] /\ rowLease'[n] = rowLease[n]
      BY <1>7, <2>3 DEF Mark, RelayTypes
    <3> QED
      BY <1>a, <1>d, <2>1, <2>2, <2>3, <3>1
  <2>4. CASE m = n
    <3>1. r \notin Owing(n) /\ r \notin Owing(n)'
      BY <2>1, <2>2, <2>4 DEF Owing
    <3>2. Cardinality(Owing(n)') = Cardinality(Owing(n))
      BY <2>2, <3>1, OwingChange
    <3>3. CASE Marks(r, m)
      <4>1. row'[n] = "published"
        BY <1>7, <2>4, <3>3 DEF Mark, RelayTypes
      <4> QED
        BY <1>a, <1>b, <1>c, <2>1, <3>2, <4>1 DEF Paid, Owed
    <3>4. CASE ~Marks(r, m)
      <4>1. UNCHANGED <<row, rowOwner, rowLease>>
        BY <1>7, <3>4 DEF Mark
      <4>2. row[n] # "published" => row[n] = "pending" \/ rowLease[n] # "live"
        BY <2>4 DEF RelayTypes, RowStates
      <4>3. row[n] # "published" /\ rowLease[n] = "live" => rowOwner[n] # LeaseOwner[r]
        BY <2>4, <3>4, <4>2 DEF Marks
      <4>4. row[n] # "published" /\ Guarded(n) => Guarded(n)'
        BY <2>1, <2>2, <4>1, <4>3 DEF Guarded
      <4> QED
        BY <1>a, <1>b, <1>c, <2>1, <3>2, <4>1, <4>4 DEF Paid, Owed
    <3> QED
      BY <3>3, <3>4
  <2> QED
    BY <2>3, <2>4
<1>8. ASSUME NEW r \in Relays, NEW m \in Messages, Release(r, m) PROVE Paid
  <2>1. /\ flight[r][m] = "failed" /\ flight' = [flight EXCEPT ![r][m] = "idle"]
        /\ UNCHANGED <<row, copies, stale, faults>>
    BY <1>8 DEF Release
  <2>2. /\ \A q \in Relays : q # r => flight'[q][n] = flight[q][n]
        /\ m # n => \A q \in Relays : flight'[q][n] = flight[q][n]
        /\ flight'[r][m] = "idle"
    BY <1>e, <2>1, ZenonT(60)
  <2>3. CASE m # n
    <3>1. rowOwner'[n] = rowOwner[n] /\ rowLease'[n] = rowLease[n]
      BY <1>8, <2>3 DEF Release, RelayTypes
    <3> QED
      BY <1>a, <1>d, <2>1, <2>2, <2>3, <3>1
  <2>4. CASE m = n
    <3>1. r \in Owing(n) /\ r \notin Owing(n)'
      BY <2>1, <2>2, <2>4 DEF Owing
    <3>2. Cardinality(Owing(n)') = Cardinality(Owing(n)) - 1
      BY <2>2, <3>1, OwingChange
    <3> QED
      BY <1>a, <1>b, <1>c, <2>1, <3>2 DEF Paid, Owed
  <2> QED
    BY <2>3, <2>4
<1>9. ASSUME UNCHANGED relayVars PROVE Paid
  BY <1>9, <1>a, <1>d DEF relayVars
<1> QED
  BY <1>1, <1>2, <1>3, <1>4, <1>5, <1>6, <1>7, <1>8, <1>9 DEF RelayNext, Settle, Paid

(* Nothing is copied or owed at the start. *)
LEMMA CopiesPaidInit == RelayInit => CopiesPaid
<1> SUFFICES ASSUME RelayInit, NEW m \in Messages PROVE Owed(m) = 0 /\ faults = 0
  BY DEF CopiesPaid
<1>1. Owing(m) = {}
  BY DEF RelayInit, Owing
<1> QED
  BY <1>1, FS_EmptySet DEF RelayInit, Owed

(* The whole safety of the relay: its types, that a published message was  *)
(* accepted, and that there is a fault for every copy but one, for any     *)
(* number of relays and messages and any assignment of lease owners.       *)
THEOREM RelayIsSound == RelaySpec => []PublicationSound
<1>1. RelayTypes /\ CopiesPaid => DuplicatesExplained
  <2> SUFFICES ASSUME RelayTypes, CopiesPaid, NEW m \in Messages PROVE copies[m] <= 1 + faults
    BY DEF DuplicatesExplained
  <2>1. copies[m] \in Nat /\ faults \in Nat /\ Cardinality(Owing(m)) \in Nat
    BY RelayAssumption, OwingCounts DEF RelayTypes
  <2> QED
    BY <2>1 DEF CopiesPaid, Owed
<1> QED
  BY <1>1, RelayTypesInit, RelayTypesNext, CopiesPaidInit, CopiesPaidNext, NoLostCommand, PTL
     DEF RelaySpec, PublicationSound

-----------------------------------------------------------------------------
(* A step of the relay is a step of DurablePublication or leaves its two   *)
(* variables alone.                                                        *)
LEMMA RelayStepRefines ==
  RelayInv /\ [RelayNext]_relayVars => [Publication!Next]_<<row, copies>>
<1> SUFFICES ASSUME RelayInv, [RelayNext]_relayVars PROVE [Publication!Next]_<<row, copies>>
  OBVIOUS
<1> USE DEF Publication!Next
<1>1. ASSUME NEW m \in Messages, Enqueue(m) PROVE Publication!Next
  BY <1>1 DEF Enqueue, Publication!Commit
<1>2. ASSUME NEW m \in Messages, ClaimLapse(m) \/ DeadlinePass(m)
      PROVE UNCHANGED <<row, copies>>
  BY <1>2 DEF ClaimLapse, DeadlinePass
<1>3. ASSUME NEW r \in Relays, Claim(r) PROVE UNCHANGED <<row, copies>>
  BY <1>3 DEF Claim
<1>4. ASSUME NEW r \in Relays, Crash(r) PROVE Publication!Next
  <2>1. PICK got \in SUBSET {m \in Messages \ Refused : flight[r][m] = "sending"} :
          copies' = [m \in Messages |-> IF m \in got THEN copies[m] + 1 ELSE copies[m]]
    BY <1>4 DEF Crash
  <2>2. got \in SUBSET Messages /\ \A m \in got : row[m] # "absent"
    BY DEF RelayInv, FlightOK
  <2>3. row' = row
    BY <1>4 DEF Crash
  <2>4. Publication!Accept(got)
    BY <2>1, <2>2, <2>3 DEF Publication!Accept
  <2> QED
    BY <2>2, <2>4
<1>5. ASSUME NEW r \in Relays, NEW m \in Messages,
             SendAccepted(r, m) \/ SendAmbiguous(r, m)
      PROVE Publication!Next
  <2>1. /\ copies' = [copies EXCEPT ![m] = @ + 1]
        /\ row' = row
        /\ flight[r][m] = "sending"
    BY <1>5 DEF SendAccepted, SendAmbiguous
  <2>2. copies' = [n \in Messages |-> IF n \in {m} THEN copies[n] + 1 ELSE copies[n]]
    BY <2>1 DEF RelayInv, RelayTypes
  <2>3. row[m] # "absent"
    BY <2>1 DEF RelayInv, FlightOK
  <2>4. Publication!Accept({m})
    BY <2>1, <2>2, <2>3 DEF Publication!Accept
  <2>5. {m} \in SUBSET Messages
    OBVIOUS
  <2> QED
    BY <2>4, <2>5
<1>6. ASSUME NEW r \in Relays, NEW m \in Messages, SendRejected(r, m) \/ Release(r, m)
      PROVE UNCHANGED <<row, copies>>
  BY <1>6 DEF SendRejected, Release
<1>7. ASSUME NEW r \in Relays, NEW m \in Messages, Mark(r, m)
      PROVE [Publication!Next]_<<row, copies>>
  <2>1. CASE Marks(r, m)
    <3>1. copies[m] > 0 /\ row[m] = "pending"
      BY <1>7, <2>1 DEF Mark, Marks, RelayInv, FlightOK
    <3>2. row' = [row EXCEPT ![m] = "published"] /\ copies' = copies
      BY <1>7, <2>1 DEF Mark
    <3> QED
      BY <3>1, <3>2 DEF Publication!Retire
  <2>2. CASE ~Marks(r, m)
    BY <1>7, <2>2 DEF Mark
  <2> QED
    BY <2>1, <2>2
<1>8. CASE UNCHANGED relayVars
  BY <1>8 DEF relayVars
<1> QED
  BY <1>1, <1>2, <1>3, <1>4, <1>5, <1>6, <1>7, <1>8 DEF RelayNext, Settle

(* The relay implements the abstract at-least-once publication. *)
THEOREM RelayRefinesPublication == RelaySpec => RefinesPublication
<1>1. RelayInit => Publication!Init
  BY DEF RelayInit, Publication!Init
<1> QED
  BY <1>1, RelayInvInit, RelayInvNext, RelayStepRefines, PTL
     DEF RelaySpec, RefinesPublication, Publication!Spec
=============================================================================

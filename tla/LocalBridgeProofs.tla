------------------------- MODULE LocalBridgeProofs -------------------------
(***************************************************************************)
(* Proofs about what leaves the application, for any number of             *)
(* executions, lease calls, segments, polls, chunks and strays.            *)
(*                                                                         *)
(* LocalBridge: HeldOnce is not inductive alone: whether a job can be      *)
(* settled a second time depends on which timer is armed for it (Timed).   *)
(* NeverForgotten needs lease calls that do not overlap (OnePoll): then    *)
(* the await inside lease finds #active still empty (AwaitIsAlone).        *)
(*                                                                         *)
(* ModelRouter: RetryIsSafe needs to know at which await nothing can have  *)
(* been accepted yet (JobsOK); ValueIsTraced which trace ended the loop.   *)
(*                                                                         *)
(* FunctionSession: that a document is parsed once although invocations    *)
(* come late rests on the engine beginning once: while the first chunk is  *)
(* on its way nothing but its inspection and the clean-up is (EngineOK).   *)
(***************************************************************************)
EXTENDS MCExternalCalls, FiniteSetTheorems, TLAPS

(* The admission timer is armed just while the job is queued. *)
Timed == \A j \in Jobs : timer[j] = "admission" <=> Queued(j)

(* What is being read was accepted. *)
ReadsStaged == \A j \in Jobs : settling[j] = "reading" => staged[j]

BridgeInv == TypeOK /\ HeldOnce /\ Timed /\ ReadsStaged /\ ResolvesStaged

(* The initial state satisfies the invariant. *)
LEMMA InitBridge == Init => BridgeInv
<1> SUFFICES ASSUME Init PROVE BridgeInv
  OBVIOUS
<1> USE BridgeAssumption DEF Init
<1>1. TypeOK
  BY DEF TypeOK, Settled
<1>2. HeldOnce
  BY DEF HeldOnce, Queued, Looked, Leased, Leaving
<1>3. Timed
  BY DEF Timed, Queued
<1>4. ReadsStaged /\ ResolvesStaged
  BY DEF ReadsStaged, ResolvesStaged
<1> QED BY <1>1, <1>2, <1>3, <1>4 DEF BridgeInv

(* Types are preserved by every step of the broker. *)
LEMMA TypeStep == BridgeInv /\ [Next]_vars => TypeOK'
<1> SUFFICES ASSUME BridgeInv, [Next]_vars PROVE TypeOK'
  OBVIOUS
<1> USE BridgeAssumption DEF BridgeInv, TypeOK, Settled
<1>1. ASSUME NEW j \in Jobs, Execute(j) PROVE TypeOK'
  <2>1. CASE ~Available
    BY <1>1, <2>1 DEF Execute, HeldOnce, Leased, fileVars
  <2>2. CASE Available
    <3>1. IsFiniteSet({k \in Jobs : outcome[k] # "uncalled"})
      BY BridgeAssumption, FS_Subset
    <3>2. Cardinality({k \in Jobs : outcome[k] # "uncalled"}) \in Nat
      BY <3>1, FS_CardinalityType
    <3> QED BY <1>1, <2>2, <3>2 DEF Execute, HeldOnce, Leased, fileVars
  <2> QED BY <2>1, <2>2
<1>2. ASSUME NEW j \in Jobs, JobStep(j), ~Execute(j) PROVE TypeOK'
  <2>1. CASE ExpireQueued(j)
    BY <2>1 DEF ExpireQueued, fileVars
  <2>2. CASE LeaseLapses(j) \/ StageBegin(j) \/ StageEnd(j)
    BY <2>2 DEF LeaseLapses, StageBegin, StageEnd, fileVars
  <2>3. CASE CompleteFailure(j) \/ Expire(j)
    BY <2>3 DEF CompleteFailure, Expire, Leave, Failing, fileVars
  <2>4. CASE CompleteSuccess(j)
    BY <2>4 DEF CompleteSuccess, Leave, fileVars
  <2>5. CASE Settle(j)
    BY <2>5 DEF Settle
  <2> QED BY <1>2, <2>1, <2>2, <2>3, <2>4, <2>5 DEF JobStep
<1>3. ASSUME NEW p \in Polls, LeaseBegin(p) \/ LeaseEnd(p) PROVE TypeOK'
  BY <1>3 DEF LeaseBegin, LeaseEnd, fileVars
<1>4. CASE Heartbeat \/ HeartbeatAges
  BY <1>4 DEF Heartbeat, HeartbeatAges, fileVars
<1>5. CASE Close
  <2>1. \A j \in Jobs : Failing(j) \in {"removing", "failing"}
    BY DEF Failing
  <2>2. settling' \in [Jobs -> {"none", "reading", "removing", "failing"}]
    BY <1>5, <2>1 DEF Close
  <2>3. timer' \in [Jobs -> {"none", "admission", "lease"}]
    BY <1>5 DEF Close
  <2>4. outcome' \in [Jobs -> {"uncalled", "pending"} \cup Settled]
    BY <1>5 DEF Close
  <2> QED BY <1>5, <2>2, <2>3, <2>4 DEF Close, fileVars
<1>6. CASE UNCHANGED vars
  BY <1>6 DEF vars
<1> QED BY <1>1, <1>2, <1>3, <1>4, <1>5, <1>6 DEF Next

(* No step of a single execution puts it in two places, or settles what is *)
(* held nowhere.                                                           *)
LEMMA HeldJobStep ==
  ASSUME BridgeInv, NEW i \in Jobs, JobStep(i)
  PROVE  HeldOnce'
<1> USE BridgeAssumption DEF BridgeInv, TypeOK, HeldOnce, Queued, Looked, Leased, Leaving
<1>1. CASE Execute(i)
  BY <1>1 DEF Execute, fileVars
<1>2. CASE ExpireQueued(i)
  BY <1>2 DEF ExpireQueued, Timed, fileVars
<1>3. CASE LeaseLapses(i) \/ StageBegin(i) \/ StageEnd(i)
  BY <1>3 DEF LeaseLapses, StageBegin, StageEnd, fileVars
<1>4. CASE CompleteFailure(i)
  BY <1>4 DEF CompleteFailure, Current, Leave, Failing, fileVars
<1>5. CASE CompleteSuccess(i)
  BY <1>5 DEF CompleteSuccess, Current, Leave, fileVars
<1>6. CASE Expire(i)
  BY <1>6 DEF Expire, Leave, Failing, fileVars
<1>7. CASE Settle(i)
  BY <1>7 DEF Settle, fileVars
<1> QED BY <1>1, <1>2, <1>3, <1>4, <1>5, <1>6, <1>7, JobStep(i) DEF JobStep

(* Nor does a lease call, a heartbeat or closing. *)
LEMMA HeldStep == BridgeInv /\ [Next]_vars => HeldOnce'
<1> SUFFICES ASSUME BridgeInv, [Next]_vars PROVE HeldOnce'
  OBVIOUS
<1>1. ASSUME NEW i \in Jobs, JobStep(i) PROVE HeldOnce'
  BY <1>1, HeldJobStep
<1> USE BridgeAssumption DEF BridgeInv, TypeOK, HeldOnce, Queued, Looked, Leased, Leaving
<1>2. ASSUME NEW p \in Polls, LeaseBegin(p) PROVE HeldOnce'
  BY <1>2 DEF LeaseBegin, First, fileVars
<1>3. ASSUME NEW p \in Polls, LeaseEnd(p) PROVE HeldOnce'
  BY <1>3 DEF LeaseEnd, fileVars
<1>4. CASE Close
  BY <1>4 DEF Close, Failing, fileVars
<1>5. CASE Heartbeat \/ HeartbeatAges
  BY <1>5 DEF Heartbeat, HeartbeatAges, fileVars
<1>6. CASE UNCHANGED vars
  BY <1>6 DEF vars
<1> QED BY <1>1, <1>2, <1>3, <1>4, <1>5, <1>6 DEF Next

(* Timers keep following the place of the job. *)
LEMMA TimedStep == BridgeInv /\ [Next]_vars => Timed'
<1> SUFFICES ASSUME BridgeInv, [Next]_vars PROVE Timed'
  OBVIOUS
<1> USE BridgeAssumption DEF BridgeInv, TypeOK, Timed, Queued
<1>1. ASSUME NEW i \in Jobs, Execute(i) PROVE Timed'
  BY <1>1 DEF Execute, HeldOnce, fileVars
<1>2. ASSUME NEW i \in Jobs, ExpireQueued(i) PROVE Timed'
  BY <1>2 DEF ExpireQueued, fileVars
<1>3. ASSUME NEW i \in Jobs, LeaseLapses(i) \/ StageBegin(i) \/ StageEnd(i) \/ Settle(i)
      PROVE Timed'
  BY <1>3 DEF LeaseLapses, StageBegin, StageEnd, Settle, fileVars
<1>4. ASSUME NEW i \in Jobs, CompleteFailure(i) \/ CompleteSuccess(i) \/ Expire(i)
      PROVE Timed'
  BY <1>4 DEF CompleteFailure, CompleteSuccess, Expire, Current, Leave, fileVars
<1>5. ASSUME NEW p \in Polls, LeaseBegin(p) PROVE Timed'
  BY <1>5 DEF LeaseBegin, First, fileVars
<1>6. ASSUME NEW p \in Polls, LeaseEnd(p) PROVE Timed'
  BY <1>6 DEF LeaseEnd, HeldOnce, Looked, fileVars
<1>7. CASE Heartbeat \/ HeartbeatAges \/ Close
  BY <1>7 DEF Heartbeat, HeartbeatAges, Close, fileVars
<1>8. CASE UNCHANGED vars
  BY <1>8 DEF vars
<1> QED BY <1>1, <1>2, <1>3, <1>4, <1>5, <1>6, <1>7, <1>8 DEF Next, JobStep

(* An output is read only once accepted, and gone before the promise       *)
(* resolves.                                                               *)
LEMMA StagedStep == BridgeInv /\ [Next]_vars => ReadsStaged' /\ ResolvesStaged'
<1> SUFFICES ASSUME BridgeInv, [Next]_vars PROVE ReadsStaged' /\ ResolvesStaged'
  OBVIOUS
<1> USE BridgeAssumption DEF BridgeInv, TypeOK, ReadsStaged, ResolvesStaged
<1>1. ASSUME NEW i \in Jobs, Execute(i) \/ ExpireQueued(i) \/ LeaseLapses(i)
      PROVE ReadsStaged' /\ ResolvesStaged'
  BY <1>1 DEF Execute, ExpireQueued, LeaseLapses, fileVars
<1>2. ASSUME NEW i \in Jobs, StageBegin(i) PROVE ReadsStaged' /\ ResolvesStaged'
  BY <1>2 DEF StageBegin, Current, HeldOnce, Leased
<1>3. ASSUME NEW i \in Jobs, StageEnd(i) PROVE ReadsStaged' /\ ResolvesStaged'
  BY <1>3 DEF StageEnd
<1>4. ASSUME NEW i \in Jobs, CompleteFailure(i) \/ CompleteSuccess(i) \/ Expire(i)
      PROVE ReadsStaged' /\ ResolvesStaged'
  BY <1>4 DEF CompleteFailure, CompleteSuccess, Expire, Leave, Failing, fileVars
<1>5. ASSUME NEW i \in Jobs, Settle(i) PROVE ReadsStaged' /\ ResolvesStaged'
  BY <1>5 DEF Settle
<1>6. ASSUME NEW p \in Polls, LeaseBegin(p) \/ LeaseEnd(p) PROVE ReadsStaged' /\ ResolvesStaged'
  BY <1>6 DEF LeaseBegin, LeaseEnd, fileVars
<1>7. CASE Heartbeat \/ HeartbeatAges \/ Close
  BY <1>7 DEF Heartbeat, HeartbeatAges, Close, Failing, fileVars
<1>8. CASE UNCHANGED vars
  BY <1>8 DEF vars
<1> QED BY <1>1, <1>2, <1>3, <1>4, <1>5, <1>6, <1>7, <1>8 DEF Next, JobStep

(* The inductive invariant holds in every reachable state. *)
THEOREM BridgeInvariant == Spec => []BridgeInv
<1>1. BridgeInv /\ [Next]_vars => BridgeInv'
  BY TypeStep, HeldStep, TimedStep, StagedStep DEF BridgeInv
<1> QED BY InitBridge, <1>1, PTL DEF Spec

(* LocalIngestionBridgeBroker keeps its types. *)
THEOREM BridgeTypes == Spec => []TypeOK
  BY BridgeInvariant, PTL DEF BridgeInv

(* No execution is held twice, lent twice or settled twice, however lease  *)
(* calls, timers, uploads, completions and closing interleave.             *)
THEOREM ExecutionHeldOnce == Spec => []HeldOnce
  BY BridgeInvariant, PTL DEF BridgeInv

(* An execution resolves only with an accepted output, removed by then.    *)
THEOREM ResolvesOnlyStaged == Spec => []ResolvesStaged
  BY BridgeInvariant, PTL DEF BridgeInv

-----------------------------------------------------------------------------
(* Lease calls follow one another. *)
OnePollOnly == \A p, q \in Polls : p = q

(* The await inside lease ends with #active as it began: empty. *)
AwaitIsAlone == \A p \in Polls : poll[p] # NoJob => active = NoJob

(* Nothing becomes active while a lease call awaits its input. *)
LEMMA AloneStep ==
  ASSUME OnePollOnly, BridgeInv, AwaitIsAlone, [Next]_vars
  PROVE  AwaitIsAlone'
<1> USE BridgeAssumption DEF BridgeInv, TypeOK, AwaitIsAlone
<1>1. ASSUME NEW i \in Jobs, JobStep(i) PROVE AwaitIsAlone'
  BY <1>1 DEF JobStep, Execute, ExpireQueued, LeaseLapses, StageBegin, StageEnd,
     CompleteFailure, CompleteSuccess, Expire, Settle, Leave, fileVars
<1>2. ASSUME NEW p \in Polls, LeaseBegin(p) PROVE AwaitIsAlone'
  BY <1>2 DEF LeaseBegin
<1>3. ASSUME NEW p \in Polls, LeaseEnd(p) PROVE AwaitIsAlone'
  BY <1>3 DEF LeaseEnd, OnePollOnly
<1>4. CASE Heartbeat \/ HeartbeatAges \/ Close \/ UNCHANGED vars
  BY <1>4 DEF Heartbeat, HeartbeatAges, Close, vars
<1> QED BY <1>1, <1>2, <1>3, <1>4 DEF Next

(* Every way out of a place leads to another, or settles the promise. *)
LEMMA ForgottenStep ==
  ASSUME BridgeInv, AwaitIsAlone, NeverForgotten, [Next]_vars
  PROVE  NeverForgotten'
<1> USE BridgeAssumption DEF BridgeInv, TypeOK, NeverForgotten, Queued, Looked, Leased, Leaving
<1>1. ASSUME NEW i \in Jobs, Execute(i) PROVE NeverForgotten'
  BY <1>1 DEF Execute, fileVars
<1>2. ASSUME NEW i \in Jobs, ExpireQueued(i) PROVE NeverForgotten'
  BY <1>2 DEF ExpireQueued, Timed, fileVars
<1>3. ASSUME NEW i \in Jobs, LeaseLapses(i) \/ StageBegin(i) \/ StageEnd(i)
      PROVE NeverForgotten'
  BY <1>3 DEF LeaseLapses, StageBegin, StageEnd, fileVars
<1>4. ASSUME NEW i \in Jobs, CompleteFailure(i) \/ CompleteSuccess(i) PROVE NeverForgotten'
  BY <1>4 DEF CompleteFailure, CompleteSuccess, Current, Leave, Failing, fileVars
<1>5. ASSUME NEW i \in Jobs, Expire(i) PROVE NeverForgotten'
  BY <1>5 DEF Expire, Leave, Failing, fileVars
<1>6. ASSUME NEW i \in Jobs, Settle(i) PROVE NeverForgotten'
  BY <1>6 DEF Settle, fileVars
<1>7. ASSUME NEW p \in Polls, LeaseBegin(p) PROVE NeverForgotten'
  BY <1>7 DEF LeaseBegin, First, fileVars
<1>8. ASSUME NEW p \in Polls, LeaseEnd(p) PROVE NeverForgotten'
  BY <1>8 DEF LeaseEnd, AwaitIsAlone, fileVars
<1>9. CASE Close
  BY <1>9 DEF Close, Failing, fileVars
<1>10. CASE Heartbeat \/ HeartbeatAges \/ UNCHANGED vars
  BY <1>10 DEF Heartbeat, HeartbeatAges, fileVars, vars
<1> QED BY <1>1, <1>2, <1>3, <1>4, <1>5, <1>6, <1>7, <1>8, <1>9, <1>10 DEF Next, JobStep

(* While lease calls do not overlap, no open promise is ever out of reach  *)
(* of a timer or an await that settles it.                                 *)
THEOREM NoExecutionForgotten == ASSUME OnePollOnly PROVE Spec => []NeverForgotten
<1>1. Init => AwaitIsAlone /\ NeverForgotten
  BY DEF Init, AwaitIsAlone, NeverForgotten
<1>2. BridgeInv /\ AwaitIsAlone /\ NeverForgotten /\ [Next]_vars
        => AwaitIsAlone' /\ NeverForgotten'
  BY OnePollOnly, AloneStep, ForgottenStep
<1> QED BY <1>1, <1>2, BridgeInvariant, PTL DEF Spec

(* ExecutionsHeld, what the run of the bridge checks: while lease calls    *)
(* follow one another an execution is held once, is never forgotten and    *)
(* resolves only with an accepted output.                                  *)
THEOREM BridgeHoldsExecutions == ASSUME OnePollOnly PROVE Spec => []ExecutionsHeld
  BY BridgeTypes, ExecutionHeldOnce, NoExecutionForgotten, ResolvesOnlyStaged, PTL
     DEF ExecutionsHeld

-----------------------------------------------------------------------------
(* A logical call of the model router.                                     *)

(* Where the adapter is, within the bounds of a narration and its polls.   *)
Works == [step : {"none", "submit", "fetch", "poll"}, segment : 0..Segments, polls : 0..MaxPolls]

(* The types of a call. *)
CallTypes ==
    /\ task \in Router!Tasks /\ adapters \in [1..2 -> Router!Descriptors]
    /\ phase \in {"gate", "select", "attempt", "invoked", "succeeded", "failed", "done"}
    /\ selector \in 1..2 /\ local \in 1..Router!RouteAttempts /\ late \in BOOLEAN
    /\ attempts \in Seq(Router!AttemptTraces) /\ trace \in Router!Traces \cup {None}
    /\ work \in Works

(* The attempts of the loop so far, and where it may be. *)
AttemptsOK ==
    /\ Len(attempts) <= Router!RouteAttempts * (selector - 1) + local
    /\ phase \in {"gate", "select", "attempt", "invoked"} =>
           Len(attempts) < Router!RouteAttempts * (selector - 1) + local
    /\ \A i \in 1..Len(attempts) : attempts[i].selector <= selector
    /\ phase \in {"gate", "select"} => local = 1
    /\ phase = "gate" => selector = 1
    /\ selector = 2 => Router!Route[task].fallback
    /\ phase = "invoked" => work.segment > 0
    /\ phase = "succeeded" =>
           Len(attempts) > 0 /\ attempts[Len(attempts)].outcome = "success"
    /\ phase # "done" => result = None

(* Of a media request that is not idempotent the primary has one attempt,  *)
(* the fallback follows only what was not accepted, and what is accepted   *)
(* belongs to the attempt that is made.                                    *)
Guarded == Router!Capability \in Router!Media /\ ~adapters[1].idempotent
JobsOK ==
    Guarded =>
        /\ jobs \subseteq {[selector |-> selector, attempt |-> local]}
        /\ phase \in {"gate", "select", "attempt"} => jobs = {}
        /\ phase = "invoked" /\ work.step = "submit" /\ work.segment = 1 => jobs = {}
        /\ phase \in {"attempt", "invoked"} /\ selector = 1 => local = 1 /\ adapters[1].max = 1
        /\ phase = "failed" /\ Router!Capability = "speech" /\ Router!RetryableAfter(failure)
           => jobs = {}

(* The invariant of a logical call. *)
CallInv == CallTypes /\ AttemptsOK /\ JobsOK /\ Router!ValueIsTraced /\ Router!RetryIsSafe

-----------------------------------------------------------------------------
(* Both count a set as this module does. *)
LEMMA SameCount ==
    /\ \A S : Session!Cardinality(S) = Cardinality(S)
    /\ \A S : Router!Cardinality(S) = Cardinality(S)
  BY Zenon DEF Session!Cardinality, Router!Cardinality, Cardinality

(* The route of a task. *)
LEMMA RouteFacts ==
    ASSUME NEW t \in Router!Tasks
    PROVE  /\ Router!Route[t].fallback \in BOOLEAN /\ Router!Route[t].gated \in BOOLEAN
           /\ Router!Route[t].fallback <=> (Router!Route[t].capability = "speech")
           /\ Router!Route[t].gated <=> (Router!Route[t].capability = "video")
           /\ Router!Route[t].capability \in {"structured", "embedding"} \cup Router!Media
<1>1. Router!Tasks = {"text", "embedding", "tts", "video"}
  BY DEF Router!Tasks, Router!Route
<1>2. CASE t = "text"
  BY <1>2 DEF Router!Route, Router!Media
<1>3. CASE t = "embedding"
  BY <1>3 DEF Router!Route, Router!Media
<1>4. CASE t = "tts"
  BY <1>4 DEF Router!Route, Router!Media
<1>5. CASE t = "video"
  BY <1>5 DEF Router!Route, Router!Media
<1> QED BY <1>1, <1>2, <1>3, <1>4, <1>5

(* The trace of one more attempt. *)
LEMMA OneMore ==
    ASSUME CallTypes, AttemptsOK, NEW o,
        [selector |-> selector, outcome |-> o] \in Router!AttemptTraces,
           attempts' = Router!Attempted(o)
    PROVE  /\ attempts' \in Seq(Router!AttemptTraces) /\ Len(attempts') = Len(attempts) + 1
           /\ Len(attempts') > 0 /\ attempts'[Len(attempts')].outcome = o
           /\ \A i \in 1..Len(attempts') : attempts'[i].selector <= selector
<1> DEFINE x == [selector |-> selector, outcome |-> o]
<1>1. attempts \in Seq(Router!AttemptTraces) /\ x \in Router!AttemptTraces
        /\ attempts' = Append(attempts, x)
  BY DEF CallTypes, Router!Attempted
<1>2. x.selector = selector /\ x.outcome = o /\ selector \in 1..2
  BY DEF CallTypes
<1> HIDE DEF x
<1>3. /\ attempts' \in Seq(Router!AttemptTraces) /\ Len(attempts') = Len(attempts) + 1
      /\ attempts'[Len(attempts')] = x /\ Len(attempts) \in Nat
      /\ \A i \in 1..Len(attempts) : attempts'[i] = attempts[i]
  BY <1>1
<1>4. \A i \in 1..Len(attempts') : attempts'[i].selector <= selector
  <2>1. \A i \in 1..Len(attempts') : i \in 1..Len(attempts) \/ i = Len(attempts')
    BY <1>3
  <2> QED BY <1>2, <1>3, <2>1 DEF AttemptsOK
<1> QED BY <1>2, <1>3, <1>4

(* The room a selector leaves for attempts, in plain arithmetic. *)
LEMMA AttemptRoom ==
    ASSUME NEW n \in Nat, NEW m \in Nat, NEW s \in 1..2, NEW l \in 1..2, m = n + 1,
           n < Router!RouteAttempts * (s - 1) + l
    PROVE  /\ m <= Router!RouteAttempts * (s - 1) + l
           /\ m < Router!RouteAttempts * (s - 1) + (l + 1)
           /\ s = 1 => m < Router!RouteAttempts * (2 - 1) + 1
  BY DEF Router!RouteAttempts

(* Where the adapter is before and at the start of an attempt. *)
LEMMA WorkTypes ==
    /\ Router!Idle \in Works /\ Router!Idle.step = "none"
    /\ [Router!Idle EXCEPT !.step = "submit", !.segment = 1] \in Works
    /\ [Router!Idle EXCEPT !.step = "submit", !.segment = 1].segment = 1
    /\ [Router!Idle EXCEPT !.step = "submit", !.segment = 1].step = "submit"
<1>1. 0 \in 0..Segments /\ 1 \in 0..Segments /\ 0 \in 0..MaxPolls
  BY ExternalBounds
<1>2. Router!Idle \in Works /\ Router!Idle.step = "none"
  BY <1>1 DEF Works, Router!Idle
<1>3. /\ [Router!Idle EXCEPT !.step = "submit", !.segment = 1] \in Works
      /\ [Router!Idle EXCEPT !.step = "submit", !.segment = 1].segment = 1
      /\ [Router!Idle EXCEPT !.step = "submit", !.segment = 1].step = "submit"
  BY <1>1, <1>2 DEF Works
<1> QED BY <1>2, <1>3

(* An adapter's value ends the loop. *)
LEMMA AnswerStep ==
    ASSUME CallInv, phase = "invoked", NEW valid \in BOOLEAN, Router!Answer(valid),
           UNCHANGED <<Router!call, late, trace, result>>,
           Guarded => jobs' \subseteq {[selector |-> selector, attempt |-> local]}
    PROVE  CallInv'
<1>0. /\ CallTypes /\ AttemptsOK /\ JobsOK /\ task' = task /\ adapters' = adapters /\ late' = late
      /\ trace' = trace /\ result' = result /\ result = None /\ work' = Router!Idle
      /\ UNCHANGED <<selector, local>>
  BY DEF CallInv, Router!call, Router!Answer, AttemptsOK
<1>1. PICK o \in {"deadline_exceeded", "validation_error", "success"} :
          /\ attempts' = Router!Attempted(o) /\ phase' \in {"failed", "succeeded"}
          /\ phase' = "succeeded" => o = "success"
          /\ phase' = "failed" => failure'.code \in {"deadline_exceeded", "invalid_result"}
  BY DEF Router!Answer
<1>2. [selector |-> selector, outcome |-> o] \in Router!AttemptTraces
  BY <1>0, <1>1 DEF Router!AttemptTraces, CallTypes
<1>3. /\ attempts' \in Seq(Router!AttemptTraces) /\ Len(attempts') = Len(attempts) + 1
      /\ Len(attempts') > 0 /\ attempts'[Len(attempts')].outcome = o
      /\ \A i \in 1..Len(attempts') : attempts'[i].selector <= selector
  BY <1>0, <1>1, <1>2, OneMore
<1>4. Len(attempts') <= Router!RouteAttempts * (selector - 1) + local
  BY <1>0, <1>3, AttemptRoom DEF AttemptsOK, CallTypes, Router!RouteAttempts
<1>5. CallTypes'
  BY <1>0, <1>1, <1>3, WorkTypes DEF CallTypes
<1>6. AttemptsOK'
  BY <1>0, <1>1, <1>3, <1>4 DEF AttemptsOK
<1>7. JobsOK'
  <2>1. phase' = "failed" => ~Router!RetryableAfter(failure)'
    BY <1>1 DEF Router!RetryableAfter
  <2> QED BY <1>0, <1>1, <2>1 DEF JobsOK, Guarded, Router!Capability
<1>8. Router!ValueIsTraced' /\ Router!RetryIsSafe'
  BY <1>0 DEF Router!ValueIsTraced, Router!RetryIsSafe
<1> QED BY <1>5, <1>6, <1>7, <1>8 DEF CallInv

(* The errors an adapter of the model fails with. *)
FailureCodes == {"unavailable", "rate_limited", "invalid_request", "provider_error", "timeout"}
FailureStates == {"unknown", "accepted", "not_accepted"}
Failures == [code : FailureCodes, state : FailureStates, transient : BOOLEAN]

(* The errors of the adapters are failures, with the fields they are made  *)
(* of.                                                                     *)
LEMMA ErrorFits ==
    /\ \A c \in FailureCodes, s \in FailureStates, t \in BOOLEAN :
           /\ Router!Error(c, s, t) \in Failures
           /\ Router!Error(c, s, t).code = c /\ Router!Error(c, s, t).state = s
              /\ Router!Error(c, s, t).transient = t
    /\ \A c \in FailureCodes, s \in FailureStates :
           ~Router!Error(c, s, FALSE).transient /\ Router!Error(c, s, TRUE).transient
<1>1. \A c \in FailureCodes, s \in FailureStates, t \in BOOLEAN :
          /\ Router!Error(c, s, t) \in Failures
          /\ Router!Error(c, s, t).code = c /\ Router!Error(c, s, t).state = s
             /\ Router!Error(c, s, t).transient = t
  BY DEF Router!Error, Failures
<1>2. \A c \in FailureCodes, s \in FailureStates :
          ~Router!Error(c, s, FALSE).transient /\ Router!Error(c, s, TRUE).transient
  BY <1>1
<1> QED BY <1>1, <1>2

(* A failure of the adapter: tried again only if nothing was accepted, or  *)
(* if the provider knows the request.                                      *)
LEMMA FailStep ==
    ASSUME CallInv, phase = "invoked", NEW e \in Failures, Router!Fail(e),
           UNCHANGED <<Router!call, late, trace, result>>,
           Guarded => jobs' \subseteq {[selector |-> selector, attempt |-> local]},
           Guarded /\ selector = 2 => ~e.transient,
           Guarded /\ Router!Capability = "speech" /\ e.transient /\ e.state = "not_accepted"
               => jobs' = {}
    PROVE  CallInv'
<1>0. /\ CallTypes /\ AttemptsOK /\ JobsOK /\ task' = task /\ adapters' = adapters /\ late' = late
      /\ trace' = trace /\ result' = result /\ result = None /\ work' = Router!Idle
      /\ failure' = [code |-> "provider_failure", provider |-> e]
      /\ selector \in 1..2 /\ local \in 1..2
  BY DEF CallInv, Router!call, Router!Fail, AttemptsOK, CallTypes, Router!RouteAttempts
<1>1. PICK o \in {"transient_error", "permanent_error"} : attempts' = Router!Attempted(o)
  BY DEF Router!Fail
<1>2. [selector |-> selector, outcome |-> o] \in Router!AttemptTraces
  BY <1>0, <1>1 DEF Router!AttemptTraces
<1>3. /\ attempts' \in Seq(Router!AttemptTraces) /\ Len(attempts') = Len(attempts) + 1
      /\ Len(attempts) \in Nat /\ Len(attempts') \in Nat
      /\ \A i \in 1..Len(attempts') : attempts'[i].selector <= selector
  BY <1>0, <1>1, <1>2, OneMore DEF CallTypes
<1>4. /\ Len(attempts') <= Router!RouteAttempts * (selector - 1) + local
      /\ Len(attempts') < Router!RouteAttempts * (selector - 1) + (local + 1)
      /\ selector = 1 => Len(attempts') < Router!RouteAttempts * (2 - 1) + 1
  BY <1>0, <1>3, AttemptRoom DEF AttemptsOK
<1>5. Router!ValueIsTraced' /\ Router!RetryIsSafe'
  BY <1>0 DEF Router!ValueIsTraced, Router!RetryIsSafe
<1>6. Guarded' <=> Guarded
  BY <1>0 DEF Guarded, Router!Capability
<1>7. CASE phase' = "attempt" /\ local' = local + 1 /\ selector' = selector /\ e.transient
           /\ local < adapters[selector].max /\ local < Router!RouteAttempts
  <2>1. ~Guarded
    BY <1>0, <1>7 DEF JobsOK
  <2>2. local' \in 1..Router!RouteAttempts
    BY <1>0, <1>7 DEF Router!RouteAttempts
  <2>3. CallTypes'
    BY <1>0, <1>3, <1>7, <2>2, WorkTypes DEF CallTypes
  <2>4. AttemptsOK'
    <3>1. Len(attempts') <= Router!RouteAttempts * (selector - 1) + (local + 1)
      BY <1>0, <1>3, <1>4 DEF Router!RouteAttempts
    <3> QED BY <1>0, <1>3, <1>4, <1>7, <3>1 DEF AttemptsOK
  <2> QED BY <1>5, <1>6, <2>1, <2>3, <2>4 DEF CallInv, JobsOK
<1>8. CASE phase' = "select" /\ selector = 1 /\ selector' = 2 /\ local' = 1
           /\ Router!Route[task].fallback /\ Router!CanUseFallback(e)
  <2>1. Router!Capability = "speech" /\ e.transient /\ e.state = "not_accepted"
    BY <1>0, <1>8, RouteFacts DEF Router!CanUseFallback, Router!Capability, CallTypes
  <2>2. Guarded' => jobs' = {}
    BY <1>6, <2>1
  <2>3. CallTypes'
    BY <1>0, <1>3, <1>8, WorkTypes DEF CallTypes, Router!RouteAttempts
  <2>4. AttemptsOK'
    <3>1. /\ Len(attempts') < Router!RouteAttempts * (selector' - 1) + local'
          /\ Len(attempts') <= Router!RouteAttempts * (selector' - 1) + local'
      BY <1>3, <1>4, <1>8 DEF Router!RouteAttempts
    <3>2. \A i \in 1..Len(attempts') : attempts'[i].selector <= selector'
      <4>1. \A i \in 1..Len(attempts') : attempts'[i] \in Router!AttemptTraces
        BY <1>3
      <4> QED BY <1>8, <4>1 DEF Router!AttemptTraces
    <3> QED BY <1>0, <1>8, <3>1, <3>2 DEF AttemptsOK
  <2>5. JobsOK'
    BY <1>8, <2>2 DEF JobsOK
  <2> QED BY <1>5, <2>3, <2>4, <2>5 DEF CallInv
<1>9. CASE phase' = "failed" /\ UNCHANGED <<selector, local>>
  <2>1. CallTypes'
    BY <1>0, <1>3, <1>9, WorkTypes DEF CallTypes
  <2>2. AttemptsOK'
    BY <1>0, <1>3, <1>4, <1>9 DEF AttemptsOK
  <2>3. JobsOK'
    <3>1. Router!RetryableAfter(failure)' => e.transient /\ e.state = "not_accepted"
      BY <1>0 DEF Router!RetryableAfter
    <3>2. Router!Capability' = Router!Capability
      BY <1>0 DEF Router!Capability
    <3> QED BY <1>6, <1>9, <3>1, <3>2 DEF JobsOK
  <2> QED BY <1>5, <2>1, <2>2, <2>3 DEF CallInv
<1>10. local < Router!RouteAttempts \/ ~(local < (IF adapters[selector].max < Router!RouteAttempts
                                           THEN adapters[selector].max ELSE Router!RouteAttempts))
  BY <1>0 DEF CallTypes, Router!Descriptors, Router!RouteAttempts
<1>11. local < (IF adapters[selector].max < Router!RouteAttempts THEN adapters[selector].max
         ELSE Router!RouteAttempts)
       => local < adapters[selector].max
  BY <1>0 DEF CallTypes, Router!Descriptors, Router!RouteAttempts
<1> QED BY <1>7, <1>8, <1>9, <1>10, <1>11 DEF Router!Fail

(* A step within an attempt. *)
LEMMA WithinStep ==
    ASSUME CallInv, phase = "invoked", work' \in Works, work'.segment > 0,
           UNCHANGED <<Router!call, phase, Router!loop, late, trace, result>>,
           Guarded => jobs' \subseteq {[selector |-> selector, attempt |-> local]},
           work'.step # "submit" \/ work'.segment # 1
    PROVE  CallInv'
<1>0. /\ CallTypes /\ AttemptsOK /\ JobsOK /\ Router!ValueIsTraced /\ Router!RetryIsSafe
         /\ result = None
      /\ UNCHANGED <<task, adapters, phase, selector, local, attempts, failure, late, trace,
         result>>
  BY DEF CallInv, Router!call, Router!loop, AttemptsOK
<1>1. CallTypes' /\ AttemptsOK'
  BY <1>0 DEF CallTypes, AttemptsOK
<1>2. JobsOK'
  BY <1>0 DEF JobsOK, Guarded, Router!Capability
<1>3. Router!ValueIsTraced' /\ Router!RetryIsSafe'
  BY <1>0 DEF Router!ValueIsTraced, Router!RetryIsSafe
<1> QED BY <1>1, <1>2, <1>3 DEF CallInv

(* A call at an await of its own. *)
LEMMA AtFacts ==
    ASSUME CallInv
    PROVE  /\ selector \in 1..2 /\ local \in 1..2 /\ work \in Works /\ task \in Router!Tasks
           /\ Guarded => jobs \subseteq {[selector |-> selector, attempt |-> local]}
           /\ Guarded /\ phase = "invoked" /\ work.step = "submit" /\ work.segment = 1
              => jobs = {}
           /\ phase = "invoked" => work.segment > 0
           /\ Router!Capability \in {"structured", "embedding"} \cup Router!Media
           /\ Router!Capability = "video" => selector = 1
           /\ Guarded => Router!Capability \in Router!Media
<1>1. CallTypes /\ AttemptsOK /\ JobsOK
  BY DEF CallInv
<1>2. Router!Capability = "video" => ~Router!Route[task].fallback
  BY <1>1, RouteFacts DEF CallTypes, Router!Capability
<1>3. selector \in 1..2 /\ local \in 1..2 /\ work \in Works /\ task \in Router!Tasks
  BY <1>1 DEF CallTypes, Router!RouteAttempts
<1>4. Router!Capability = "video" => selector = 1
  BY <1>1, <1>2, <1>3 DEF AttemptsOK
<1> QED BY <1>1, <1>3, <1>4, RouteFacts DEF AttemptsOK, JobsOK, Guarded, Router!Capability

(* Structured generation and embedding: no provider takes a media          *)
(* submission.                                                             *)
LEMMA TextSteps == ASSUME CallInv, Router!Complete \/ Router!Embed PROVE CallInv'
<1>0. phase = "invoked" /\ ~Guarded /\ UNCHANGED <<Router!call, late, jobs, trace, result>>
  BY DEF Router!Complete, Router!Embed, Router!At, Guarded, Router!Media
<1>1. CASE \E valid \in Router!Verdicts : Router!Answer(valid)
  BY <1>0, <1>1, AnswerStep DEF Router!Verdicts
<1>2. CASE \E e \in Router!TextErrors : Router!Fail(e)
  <2>1. Router!TextErrors \subseteq Failures
    BY ErrorFits DEF Router!TextErrors, FailureCodes, FailureStates
  <2> QED BY <1>0, <1>2, <2>1, FailStep
<1> QED BY <1>1, <1>2 DEF Router!Complete, Router!Embed

(* The POST of a segment: a refusal is "not accepted" for the first only. *)
LEMMA SubmitSegmentStep == ASSUME CallInv, Router!SubmitSegment PROVE CallInv'
<1>0. /\ phase = "invoked" /\ work.step = "submit" /\ Router!Capability = "speech" /\ selector = 1
      /\ UNCHANGED <<Router!call, late, trace, result>> /\ work.segment \in Nat
      /\ work.segment > 0 /\ work \in Works
  <2>1. phase = "invoked" /\ work.step = "submit" /\ Router!Capability = "speech" /\ selector = 1
        /\ UNCHANGED <<Router!call, late, trace, result>>
    BY DEF Router!SubmitSegment, Router!At, Router!Primary
  <2>2. work \in Works /\ work.segment > 0
    BY <2>1, AtFacts
  <2> QED BY <2>1, <2>2, ExternalBounds DEF Works
<1>1. Guarded => Router!Accepted \subseteq {[selector |-> selector, attempt |-> local]}
  BY AtFacts DEF Router!Accepted
<1>2. CASE Router!Fail(Router!Normalized(Router!Error("unavailable", "unknown", TRUE)))
             /\ Router!MayAccept
  <2>0. Router!Normalized(Router!Error("unavailable", "unknown", TRUE))
            \in {Router!Error("unavailable", "unknown", TRUE), Router!Error("unavailable", "accepted", FALSE)}
    BY DEF Router!Normalized, Router!Error
  <2>1. PICK e \in Failures : Router!Fail(e) /\ e.state # "not_accepted"
    BY <1>2, <2>0, ErrorFits DEF FailureCodes, FailureStates
  <2>2. Guarded => jobs' \subseteq {[selector |-> selector, attempt |-> local]}
    BY <1>1, <1>2, AtFacts DEF Router!MayAccept
  <2> QED BY <1>0, <2>1, <2>2, FailStep
<1>3. CASE UNCHANGED jobs /\ \E x \in Router!Refusals : Router!Fail(Router!Normalized(x))
  <2>0. PICK x \in Router!Refusals : Router!Fail(Router!Normalized(x))
    BY <1>3
  <2>c. x \in Failures /\ x.state = "not_accepted" /\ x.code \in FailureCodes
    <3>1. CASE x = Router!Error("rate_limited", "not_accepted", TRUE)
      BY <3>1, ErrorFits DEF FailureCodes, FailureStates
    <3>2. CASE x = Router!Error("invalid_request", "not_accepted", FALSE)
      BY <3>2, ErrorFits DEF FailureCodes, FailureStates
    <3> QED BY <2>0, <3>1, <3>2 DEF Router!Refusals
  <2>a. /\ Router!Error(x.code, "accepted", FALSE) \in Failures
        /\ ~Router!Error(x.code, "accepted", FALSE).transient
    BY <2>c, ErrorFits DEF FailureStates
  <2>b. Router!Normalized(x) = IF work.segment > 1 THEN Router!Error(x.code, "accepted", FALSE)
          ELSE x
    BY <2>c DEF Router!Normalized
  <2>1. PICK e \in Failures : Router!Fail(e) /\ (work.segment > 1 => ~e.transient)
    BY <2>0, <2>a, <2>b, <2>c
  <2>2. Guarded => jobs' \subseteq {[selector |-> selector, attempt |-> local]}
    BY <1>3, AtFacts
  <2>3. Guarded /\ Router!Capability = "speech" /\ e.transient /\ e.state = "not_accepted"
          => jobs' = {}
    BY <1>0, <1>3, <2>1, AtFacts
  <2> QED BY <1>0, <2>1, <2>2, <2>3, FailStep
<1>4. CASE work' = [work EXCEPT !.step = "fetch"] /\ jobs' = Router!Accepted
             /\ UNCHANGED <<phase, Router!loop>>
  <2>1. work' \in Works /\ work'.segment > 0 /\ work'.step = "fetch"
    BY <1>0, <1>4 DEF Works
  <2> QED BY <1>0, <1>1, <1>4, <2>1, WithinStep
<1> QED BY <1>2, <1>3, <1>4 DEF Router!SubmitSegment

(* The audio of a segment: after it nothing is tried again. *)
LEMMA FetchSegmentStep == ASSUME CallInv, Router!FetchSegment PROVE CallInv'
<1>0. /\ phase = "invoked" /\ work.step = "fetch" /\ Router!Capability = "speech"
      /\ UNCHANGED <<Router!call, late, jobs, trace, result>>
      /\ work.segment > 0 /\ work \in Works
      /\ Guarded => jobs' \subseteq {[selector |-> selector, attempt |-> local]}
  BY AtFacts DEF Router!FetchSegment, Router!At
<1>1. CASE \E state \in {"accepted", "unknown"} : Router!Fail(Router!Error("provider_error", state, FALSE))
  <2>1. PICK e \in Failures : Router!Fail(e) /\ ~e.transient
    BY <1>1, ErrorFits DEF FailureCodes, FailureStates
  <2> QED BY <1>0, <2>1, FailStep
<1>2. CASE /\ work.segment < Segments /\ UNCHANGED <<phase, Router!loop>>
           /\ work' = [step |-> "submit", segment |-> work.segment + 1, polls |-> 0]
  <2>1. work.segment \in Nat /\ work.segment + 1 \in 0..Segments /\ 0 \in 0..MaxPolls
    BY <1>0, <1>2, ExternalBounds DEF Works
  <2>2. work' \in Works /\ work'.segment > 0 /\ work'.segment # 1
    BY <1>0, <1>2, <2>1 DEF Works
  <2> QED BY <1>0, <1>2, <2>2, WithinStep
<1>3. CASE \E valid \in Router!Verdicts : Router!Answer(valid)
  BY <1>0, <1>3, AnswerStep DEF Router!Verdicts
<1> QED BY <1>1, <1>2, <1>3 DEF Router!FetchSegment

(* The local fallback: it never fails for now. *)
LEMMA PiperStep == ASSUME CallInv, Router!Piper PROVE CallInv'
<1>0. phase = "invoked" /\ UNCHANGED <<Router!call, late, trace, result>>
  BY DEF Router!Piper, Router!At
<1>1. Guarded => /\ jobs \subseteq {[selector |-> selector, attempt |-> local]}
                 /\ Router!Accepted \subseteq {[selector |-> selector, attempt |-> local]}
  BY AtFacts DEF Router!Accepted
<1>2. CASE Router!Fail(Router!Error("provider_error", "not_accepted", FALSE)) /\ UNCHANGED jobs
  <2>1. PICK e \in Failures : Router!Fail(e) /\ ~e.transient
    BY <1>2, ErrorFits DEF FailureCodes, FailureStates
  <2> QED BY <1>0, <1>1, <1>2, <2>1, FailStep
<1>3. CASE \E valid \in Router!Verdicts : Router!Answer(valid) /\ jobs' = Router!Accepted
  BY <1>0, <1>1, <1>3, AnswerStep DEF Router!Verdicts
<1> QED BY <1>2, <1>3 DEF Router!Piper

(* Video has no fallback, and one attempt unless the request is            *)
(* idempotent.                                                             *)
LEMMA VideoSteps == ASSUME CallInv, Router!SubmitVideo \/ Router!PollVideo PROVE CallInv'
<1>0. /\ phase = "invoked" /\ Router!Capability = "video" /\ selector = 1
      /\ UNCHANGED <<Router!call, late, trace, result>> /\ work \in Works /\ work.segment > 0
  BY AtFacts DEF Router!SubmitVideo, Router!PollVideo, Router!At
<1>1. Guarded => /\ jobs \subseteq {[selector |-> selector, attempt |-> local]}
                 /\ Router!Accepted \subseteq {[selector |-> selector, attempt |-> local]}
  BY AtFacts DEF Router!Accepted
<1>2. CASE (\E e \in Failures : Router!Fail(e)) /\ jobs' \in {jobs, Router!Accepted}
  BY <1>0, <1>1, <1>2, FailStep
<1>3. CASE (\E valid \in Router!Verdicts : Router!Answer(valid)) /\ jobs' = jobs
  BY <1>0, <1>1, <1>3, AnswerStep DEF Router!Verdicts
<1>4. CASE /\ work' = [work EXCEPT !.step = "poll"] /\ jobs' = Router!Accepted
           /\ UNCHANGED <<phase, Router!loop>>
  <2>1. work' \in Works /\ work'.segment > 0 /\ work'.step = "poll"
    BY <1>0, <1>4 DEF Works
  <2> QED BY <1>0, <1>1, <1>4, <2>1, WithinStep
<1>5. CASE /\ Router!PollsLeft /\ work' = [work EXCEPT !.polls = @ + 1] /\ UNCHANGED <<phase,
              Router!loop, jobs>>
           /\ work.step = "poll"
  <2>1. work.polls + 1 \in 0..MaxPolls
    BY <1>0, <1>5, ExternalBounds DEF Works, Router!PollsLeft
  <2>2. work' \in Works /\ work'.segment > 0 /\ work'.step = "poll"
    BY <1>0, <1>5, <2>1 DEF Works
  <2> QED BY <1>0, <1>1, <1>5, <2>2, WithinStep
<1>6. CASE Router!SubmitVideo
  <2>1. /\ \A state \in {"unknown", "not_accepted"} : Router!Error("unavailable", state, TRUE) \in Failures
        /\ Router!Refusals \subseteq Failures
           /\ Router!Error("provider_error", "unknown", FALSE) \in Failures
    BY ErrorFits DEF Router!Refusals, FailureCodes, FailureStates
  <2> QED BY <1>2, <1>4, <1>6, <2>1 DEF Router!SubmitVideo, Router!MayAccept
<1>7. CASE Router!PollVideo
  <2>1. /\ Router!Error("timeout", "accepted", TRUE) \in Failures
        /\ \A transient \in BOOLEAN : Router!Error("provider_error", "accepted", transient) \in Failures
    BY ErrorFits DEF FailureCodes, FailureStates
  <2> QED BY <1>2, <1>3, <1>5, <1>7, <2>1 DEF Router!PollVideo, Router!At
<1> QED BY <1>6, <1>7

(* The attempt is given up: nothing follows it. *)
LEMMA TimeoutStep == ASSUME CallInv, Router!Timeout PROVE CallInv'
<1>0. /\ CallTypes /\ AttemptsOK /\ JobsOK /\ phase = "invoked" /\ phase' = "failed"
      /\ task' = task /\ adapters' = adapters /\ late' = late
      /\ trace' = trace /\ result' = result /\ result = None /\ work' = Router!Idle
      /\ UNCHANGED <<selector, local>> /\ attempts' = Router!Attempted("deadline_exceeded")
      /\ failure' = [code |-> "deadline_exceeded", provider |-> None]
      /\ jobs' \in {jobs, Router!Accepted}
  BY DEF CallInv, Router!call, Router!Timeout, AttemptsOK, Router!MayAccept
<1>1. [selector |-> selector, outcome |-> "deadline_exceeded"] \in Router!AttemptTraces
  BY <1>0 DEF Router!AttemptTraces, CallTypes
<1>2. /\ attempts' \in Seq(Router!AttemptTraces) /\ Len(attempts') = Len(attempts) + 1
      /\ \A i \in 1..Len(attempts') : attempts'[i].selector <= selector
  BY <1>0, <1>1, OneMore
<1>3. Len(attempts') <= Router!RouteAttempts * (selector - 1) + local
  BY <1>0, <1>2, AttemptRoom DEF AttemptsOK, CallTypes, Router!RouteAttempts
<1>4. CallTypes'
  BY <1>0, <1>2, WorkTypes DEF CallTypes
<1>5. AttemptsOK'
  BY <1>0, <1>2, <1>3 DEF AttemptsOK
<1>6. JobsOK'
  <2>1. ~Router!RetryableAfter(failure)'
    BY <1>0 DEF Router!RetryableAfter
  <2>2. Guarded => jobs' \subseteq {[selector |-> selector, attempt |-> local]}
    BY <1>0, AtFacts DEF Router!Accepted
  <2> QED BY <1>0, <2>1, <2>2 DEF JobsOK, Guarded, Router!Capability
<1>7. Router!ValueIsTraced' /\ Router!RetryIsSafe'
  BY <1>0 DEF Router!ValueIsTraced, Router!RetryIsSafe
<1> QED BY <1>4, <1>5, <1>6, <1>7 DEF CallInv

(* The steps of the loop around the attempts. *)
LEMMA LoopSteps ==
    ASSUME CallInv, Router!Gate \/ Router!Select \/ Router!Invoke \/ Router!Expire
    PROVE  CallInv'
<1>0. /\ CallTypes /\ AttemptsOK /\ JobsOK /\ Router!ValueIsTraced /\ Router!RetryIsSafe
      /\ UNCHANGED <<task, adapters, selector, local, attempts, jobs, trace>>
  BY DEF CallInv, Router!Gate, Router!Select, Router!Invoke, Router!Expire, Router!call,
      Router!loop
<1>g. Guarded' <=> Guarded
  BY <1>0 DEF Guarded, Router!Capability
<1>1. CASE /\ phase \in {"gate", "select"} /\ UNCHANGED <<failure, work, late>>
           /\ phase' = "done" /\ result'.code # "provider_failure" /\ result'.kind = "error"
  <2>1. CallTypes'
    BY <1>0, <1>1 DEF CallTypes
  <2>2. AttemptsOK'
    BY <1>0, <1>1 DEF AttemptsOK
  <2>3. JobsOK'
    BY <1>0, <1>1, <1>g DEF JobsOK
  <2>4. Router!ValueIsTraced'
    BY <1>1 DEF Router!ValueIsTraced
  <2>5. Router!RetryIsSafe'
    BY <1>0, <1>1 DEF Router!RetryIsSafe, JobsOK, Guarded, Router!Capability, Router!Media
  <2> QED BY <2>1, <2>2, <2>3, <2>4, <2>5 DEF CallInv
<1>2. CASE /\ phase \in {"gate", "select", "attempt", "invoked", "succeeded", "failed"}
           /\ phase = "gate" => phase' \in {"gate", "select"}
           /\ phase # "gate" => phase' = phase \/ (phase = "select" /\ phase' = "attempt"
                                                     /\ Router!Verified(adapters[selector]))
           /\ UNCHANGED <<failure, work, result>> /\ late' \in BOOLEAN
  <2>1. CallTypes'
    BY <1>0, <1>2 DEF CallTypes
  <2>2. AttemptsOK'
    BY <1>0, <1>2 DEF AttemptsOK
  <2>3. JobsOK'
    <3>1. Guarded /\ phase' = "attempt" /\ selector = 1 => local = 1 /\ adapters[1].max = 1
      BY <1>0, <1>2 DEF JobsOK, AttemptsOK, Router!Verified, Guarded
    <3>2. Router!RetryableAfter(failure)' <=> Router!RetryableAfter(failure)
      BY <1>2 DEF Router!RetryableAfter
    <3>3. Router!Capability' = Router!Capability
      BY <1>0 DEF Router!Capability
    <3> QED BY <1>0, <1>2, <1>g, <3>1, <3>2, <3>3 DEF JobsOK
  <2>4. Router!ValueIsTraced' /\ Router!RetryIsSafe'
    BY <1>0, <1>2 DEF Router!ValueIsTraced, Router!RetryIsSafe, AttemptsOK
  <2> QED BY <2>1, <2>2, <2>3, <2>4 DEF CallInv
<1>3. CASE Router!Gate
  <2>1. /\ phase = "gate" /\ UNCHANGED <<failure, work, late>>
        /\ \/ phase' = "select" /\ UNCHANGED result
           \/ Router!Throw("feature_disabled", None)
           \/ Router!Throw("deadline_exceeded", None)
    BY <1>3 DEF Router!Gate, Router!loop
  <2> QED BY <1>0, <1>1, <1>2, <2>1 DEF Router!Throw, CallTypes
<1>4. CASE Router!Select
  <2>1. /\ phase = "select" /\ UNCHANGED <<failure, work, late>>
        /\ \/ phase' = "attempt" /\ UNCHANGED result /\ Router!Verified(adapters[selector])
           \/ \E code \in {"adapter_unavailable", "invalid_adapter_configuration"} : Router!Throw(code, None)
    BY <1>4 DEF Router!Select, Router!Unfit, Router!loop
  <2> QED BY <1>0, <1>1, <1>2, <2>1 DEF Router!Throw, CallTypes
<1>5. CASE Router!Expire
  <2>1. phase # "done" /\ late' = TRUE /\ UNCHANGED <<phase, failure, work, result>>
    BY <1>5 DEF Router!Expire, Router!loop
  <2> QED BY <1>0, <1>2, <2>1 DEF CallTypes
<1>6. CASE Router!Invoke
  <2>0. phase = "attempt" /\ result = None /\ result' = None /\ late' = late
    BY <1>0, <1>6 DEF Router!Invoke, AttemptsOK
  <2>1. CASE phase' = "failed" /\ UNCHANGED work
             /\ failure' = [code |-> "deadline_exceeded", provider |-> None]
    <3>1. CallTypes' /\ AttemptsOK'
      BY <1>0, <2>0, <2>1 DEF CallTypes, AttemptsOK
    <3>2. JobsOK'
      BY <1>0, <1>g, <2>0, <2>1 DEF JobsOK
    <3> QED BY <2>0, <3>1, <3>2 DEF CallInv, Router!ValueIsTraced, Router!RetryIsSafe
  <2>2. CASE phase' = "invoked" /\ work' = [Router!Idle EXCEPT !.step = "submit", !.segment = 1]
             /\ UNCHANGED failure
    <3>1. work' \in Works /\ work'.segment = 1
      BY <2>2, WorkTypes
    <3>2. CallTypes' /\ AttemptsOK'
      BY <1>0, <2>0, <2>2, <3>1 DEF CallTypes, AttemptsOK
    <3>3. JobsOK'
      BY <1>0, <1>g, <2>0, <2>2 DEF JobsOK
    <3> QED BY <2>0, <3>2, <3>3 DEF CallInv, Router!ValueIsTraced, Router!RetryIsSafe
  <2> QED BY <1>6, <2>1, <2>2 DEF Router!Invoke
<1> QED BY <1>3, <1>4, <1>5, <1>6

(* The trace, and what the caller gets. *)
LEMMA TraceSteps == ASSUME CallInv, Router!TraceSuccess \/ Router!TraceFailure PROVE CallInv'
<1>0. /\ CallTypes /\ AttemptsOK /\ JobsOK /\ phase' = "done" /\ phase \in {"succeeded", "failed"}
      /\ UNCHANGED <<task, adapters, selector, local, attempts, failure, work, late, jobs>>
      /\ trace' \in {trace, Router!Stored("success"), Router!Stored("failure")}
  BY DEF CallInv, Router!TraceSuccess, Router!TraceFailure, Router!Throw, Router!call, Router!loop
<1>g. (Guarded' <=> Guarded) /\ Router!Capability' = Router!Capability
  BY <1>0 DEF Guarded, Router!Capability
<1>s. Router!Stored("success") \in Router!Traces /\ Router!Stored("failure") \in Router!Traces
  BY <1>0 DEF Router!Stored, Router!Traces, CallTypes
<1>1. CallTypes' /\ AttemptsOK'
  BY <1>0, <1>s DEF CallTypes, AttemptsOK
<1>2. JobsOK'
  BY <1>0, <1>g DEF JobsOK
<1>3. CASE /\ phase = "succeeded" /\ trace' = Router!Stored("success")
           /\ result' = [kind |-> "value", attempt |-> Len(attempts)]
  <2>1. trace' # None
    BY <1>3, <1>s, ExternalBounds
  <2>2. Router!ValueIsTraced'
    BY <1>0, <1>3, <2>1 DEF Router!ValueIsTraced, Router!Stored, AttemptsOK
  <2>3. Router!RetryIsSafe'
    BY <1>3 DEF Router!RetryIsSafe
  <2> QED BY <1>1, <1>2, <2>2, <2>3 DEF CallInv
<1>4. CASE \E c \in {"trace_failure", "deadline_exceeded", "sink"} : Router!Throw(c, None)
  <2>1. result'.kind = "error" /\ result'.code \in {"trace_failure", "deadline_exceeded", "sink"}
    BY <1>4 DEF Router!Throw
  <2> QED BY <1>1, <1>2, <2>1 DEF CallInv, Router!ValueIsTraced, Router!RetryIsSafe,
             Router!RetryableAfter
<1>5. CASE phase = "failed" /\ Router!Throw(failure.code, failure.provider)
  <2>1. result'.kind = "error" /\ result'.code = failure.code
          /\ result'.provider = failure.provider
    BY <1>5 DEF Router!Throw
  <2>2. Router!RetryableAfter(result)' => Router!RetryableAfter(failure)
    BY <2>1 DEF Router!RetryableAfter
  <2>3. Router!RetryIsSafe'
    BY <1>0, <1>5, <1>g, <2>2 DEF Router!RetryIsSafe, JobsOK, Guarded, Router!Media
  <2> QED BY <1>1, <1>2, <2>1, <2>3 DEF CallInv, Router!ValueIsTraced
<1> QED BY <1>3, <1>4, <1>5 DEF Router!TraceSuccess, Router!TraceFailure

(* The call before its first step. *)
LEMMA CallInit == ASSUME Router!Init PROVE CallInv
<1>0. /\ task \in Router!Tasks /\ adapters \in [1..2 -> Router!Descriptors]
         /\ phase \in {"gate", "select"}
      /\ selector = 1 /\ local = 1 /\ attempts = <<>> /\ work = Router!Idle /\ late = FALSE
      /\ jobs = {} /\ trace = None /\ result = None
  BY DEF Router!Init
<1>1. CallTypes
  <2>1. attempts \in Seq(Router!AttemptTraces) /\ selector \in 1..2
          /\ local \in 1..Router!RouteAttempts
    BY <1>0 DEF Router!RouteAttempts
  <2> QED BY <1>0, <2>1, WorkTypes DEF CallTypes
<1>2. AttemptsOK
  BY <1>0 DEF AttemptsOK, Router!RouteAttempts
<1>3. JobsOK
  BY <1>0 DEF JobsOK
<1> QED BY <1>0, <1>1, <1>2, <1>3 DEF CallInv, Router!ValueIsTraced, Router!RetryIsSafe

(* A step that leaves the call alone. *)
LEMMA CallStutter == ASSUME CallInv, UNCHANGED Router!vars PROVE CallInv'
<1>1. UNCHANGED <<task, adapters, phase, selector, local, attempts, failure, work, late, jobs,
        trace, result>>
  BY DEF Router!vars, Router!call, Router!loop
<1>2. CallTypes' /\ AttemptsOK' /\ JobsOK' /\ Router!ValueIsTraced' /\ Router!RetryIsSafe'
  BY <1>1 DEF CallInv, CallTypes, AttemptsOK, JobsOK, Guarded, Router!Capability,
     Router!RetryableAfter, Router!ValueIsTraced, Router!RetryIsSafe
<1> QED BY <1>2 DEF CallInv

(* Every step of a call preserves its invariant. *)
LEMMA CallStep == ASSUME CallInv, [Router!Next]_(Router!vars) PROVE CallInv'
  BY LoopSteps, TextSteps, SubmitSegmentStep, FetchSegmentStep, PiperStep, VideoSteps,
      TimeoutStep,
     TraceSteps, CallStutter DEF Router!Next, Router!Adapter

(* The invariant of a call contains what the run checks of it. *)
LEMMA CallIsSound == ASSUME CallInv PROVE Router!CallSound
<1>0. CallTypes /\ AttemptsOK /\ JobsOK /\ Router!ValueIsTraced /\ Router!RetryIsSafe
  BY DEF CallInv
<1>1. Router!TypeOK
  <2>1. Len(attempts) <= Router!RouteAttempts * 2
    <3>1. Len(attempts) \in Nat /\ Len(attempts) <= Router!RouteAttempts * (selector - 1) + local
          /\ selector \in 1..2 /\ local \in 1..2
      BY <1>0 DEF CallTypes, AttemptsOK, Router!RouteAttempts
    <3> QED BY <3>1 DEF Router!RouteAttempts
  <2>2. work.segment <= Segments /\ work.polls <= MaxPolls
    BY <1>0, ExternalBounds DEF CallTypes, Works
  <2> QED BY <1>0, <2>1, <2>2 DEF Router!TypeOK, CallTypes, AttemptsOK
<1>2. Router!SubmittedOnce
  <2> SUFFICES ASSUME Guarded PROVE Cardinality(jobs) <= 1
    BY SameCount DEF Router!SubmittedOnce, Guarded
  <2> DEFINE x == [selector |-> selector, attempt |-> local]
  <2>1. jobs = {} \/ jobs = {x}
    BY <1>0 DEF JobsOK
  <2> HIDE DEF x
  <2>2. Cardinality({}) = 0 /\ Cardinality({x}) = 1
    BY FS_EmptySet, FS_Singleton
  <2> QED BY <2>1, <2>2
<1> QED BY <1>0, <1>1, <1>2 DEF Router!CallSound
-----------------------------------------------------------------------------
(* A function session.                                                     *)

(* An engine that holds a session. *)
Engines == [alive : {TRUE}, live : BOOLEAN, input : Seq(Nat), next : Nat, complete : BOOLEAN,
            parsed : BOOLEAN, out : Nat]

(* What may answer an invocation. *)
Answers(r) ==
    Session!Refusals \cup (IF r.try = "inspect" THEN {a \in Session!States : a.next > 0}
                   ELSE IF r.part \in {"upload", "cleanup"} THEN [kind : {"ack"}]
                   ELSE IF r.part = "parse" THEN [kind : {"result"}]
                   ELSE [kind : {"chunk"}, chunk : {r.seq}])

(* The types of an execution. *)
SessionTypes ==
    /\ step \in Session!Parts \cup {"read", "create", "delete", "done"}
    /\ seq \in Nat /\ try \in Session!Tries /\ error \in Session!Codes \cup {None}
    /\ output \in Seq(Nat) /\ spoiled \in BOOLEAN
    /\ wire \in SUBSET Session!Invocations /\ IsFiniteSet(wire)
    /\ session \in {"none", "active", "deleted"}
    /\ engine \in {Session!NoState} \cup Engines
    /\ parses \in Nat
    /\ answer \in {None} \cup Session!Outcomes

(* The client waits for one invocation, which is on its way until it is    *)
(* answered; before it goes on, there is room for the next.                *)
Waiting == step \in Session!Parts
ClientOK ==
    /\ IF Waiting THEN awaited = [part |-> step, seq |-> seq, try |-> try] ELSE awaited = None
    /\ reply # None => Waiting /\ reply \in Answers(awaited)
    /\ Waiting /\ reply = None => awaited \in wire
    /\ Cardinality(wire) <= MaxStrays + 1
    /\ reply # None => Cardinality(wire) <= MaxStrays
    /\ step \in {"read", "create"} => wire = {} /\ session = "none" /\ parses = 0
       /\ engine = Session!NoState
    /\ step = "cleanup" => try = "first"
    /\ step = "upload" => seq < InChunks
    /\ step = "download" => seq < OutChunks
    /\ step \notin {"upload", "download"} => seq = 0

(* What was downloaded. *)
Ordered(q) == \A i \in DOMAIN q : q[i] = i - 1
OutputOK ==
    /\ Ordered(output)
    /\ step \in {"read", "create", "upload", "parse"} => output = <<>>
    /\ step = "download" => Len(output) = seq /\ parses = 1
    /\ step \in {"cleanup", "delete"} /\ error = None => Len(output) = OutChunks /\ parses = 1
    /\ step = "done" <=> answer # None

(* Only the first chunk begins a session in the engine, and once: while    *)
(* the invocation that carries it is on its way nothing else has happened. *)
Begins == [part |-> "upload", seq |-> 0, try |-> "first"]
Earliest == {Begins, [Begins EXCEPT !.try = "inspect"], [Begins EXCEPT !.part = "cleanup"]}
EngineOK ==
    /\ engine.alive => /\ engine.next = Len(engine.input) /\ Ordered(engine.input)
                       /\ engine.parsed = (parses = 1) /\ engine.next > 0
    /\ parses <= 1
    /\ parses = 1 => Begins \notin wire
    /\ \A r \in wire : r.part = "upload" /\ r.seq = 0 /\ r.try # "inspect" => r = Begins
    /\ step = "upload" /\ seq = 0 => try \in {"first", "inspect"}
    /\ Begins \in wire => /\ ~engine.alive /\ wire \subseteq Earliest /\ parses = 0
                          /\ step \notin {"parse", "download"}
                          /\ step = "upload" => seq = 0
    /\ Begins \in wire /\ reply # None => reply \in Session!Refusals
    /\ reply # None /\ step = "parse" /\ reply.kind = "result" => parses = 1
    /\ reply # None /\ step \in {"parse", "download"} /\ reply.kind = "state"
       /\ reply.phase = "parsed" => parses = 1

(* The invariant of one execution. *)
SessionInv == SessionTypes /\ ClientOK /\ OutputOK /\ EngineOK /\ Session!ReturnedIsDeleted

-----------------------------------------------------------------------------
(* None is neither a record of the protocol nor a code. *)
LEMMA NoneApart ==
    /\ None \notin Session!Invocations /\ None \notin Session!Responses
       /\ None \notin Session!Outcomes /\ None \notin Session!Codes
    /\ InChunks \in Nat /\ OutChunks \in Nat /\ MaxStrays \in Nat /\ InChunks > 0 /\ OutChunks > 0
  BY ExternalBounds

(* What an answer's kind tells. *)
LEMMA RefusalKinds ==
    ASSUME NEW a \in Session!Refusals
    PROVE  /\ a \in Session!Responses /\ a.kind \in {"transport", "failure"}
           /\ a.kind = "failure" => a.code \in Session!Codes /\ a = Session!Failure(a.code)
  BY DEF Session!Refusals, Session!Transport, Session!Failure, Session!Responses

(* What an invocation may be answered, told by its kind. *)
LEMMA AnswerKinds ==
    ASSUME NEW r \in Session!Invocations, NEW a \in Answers(r)
    PROVE  /\ a \in Session!Responses /\ a # None
           /\ a \in Session!Refusals \/ a.kind \notin {"transport", "failure"}
           /\ a \in Session!Refusals \/ r.try # "inspect" \/ (a \in Session!States /\ a.next > 0)
           /\ a \in Session!Refusals \/ r.try = "inspect" \/ r.part \notin {"upload", "cleanup"}
              \/ a.kind = "ack"
           /\ a \in Session!Refusals \/ r.try = "inspect" \/ r.part # "parse" \/ a.kind = "result"
           /\ a \in Session!Refusals \/ r.try = "inspect" \/ r.part # "download"
              \/ (a.kind = "chunk" /\ a.chunk = r.seq)
<1>1. r.part \in Session!Parts /\ r.seq \in Nat
  BY DEF Session!Invocations
<1>2. CASE a \in Session!Refusals
  BY <1>2, RefusalKinds, NoneApart
<1>3. CASE r.try = "inspect" /\ a \in Session!States /\ a.next > 0
  BY <1>3, NoneApart DEF Session!States, Session!Responses
<1>4. CASE r.try # "inspect" /\ a \notin Session!Refusals
  BY <1>1, <1>4, NoneApart DEF Answers, Session!Parts, Session!Responses
<1> QED BY <1>2, <1>3, <1>4 DEF Answers

(* invoke, when there is room for the invocation. *)
LEMMA Sent ==
    ASSUME SessionTypes, ClientOK, reply # None \/ wire = {},
           NEW p \in Session!Parts, NEW s \in Nat, NEW t \in Session!Tries, Session!Send(p, s, t)
    PROVE  /\ step' = p /\ seq' = s /\ try' = t
           /\ wire' = wire \cup {[part |-> p, seq |-> s, try |-> t]}
           /\ wire' \in SUBSET Session!Invocations /\ IsFiniteSet(wire')
              /\ Cardinality(wire') <= MaxStrays + 1
           /\ awaited' = [part |-> p, seq |-> s, try |-> t] /\ awaited' \in wire' /\ reply' = None
<1> DEFINE r == [part |-> p, seq |-> s, try |-> t]
<1>1. r \in Session!Invocations
  BY DEF Session!Invocations
<1>2. step' = p /\ seq' = s /\ try' = t /\ wire' = wire \cup {r} /\ awaited' = r /\ reply' = None
  BY DEF Session!Send
<1>3. IsFiniteSet(wire) /\ Cardinality(wire) \in Nat /\ wire \in SUBSET Session!Invocations
  BY FS_CardinalityType DEF SessionTypes
<1>4. Cardinality(wire) <= MaxStrays
  BY FS_EmptySet, NoneApart, <1>3 DEF ClientOK
<1> HIDE DEF r
<1>5. IsFiniteSet(wire \cup {r}) /\ Cardinality(wire \cup {r}) <= Cardinality(wire) + 1
  <2>1. /\ IsFiniteSet(wire \cup {r})
        /\ Cardinality(wire \cup {r}) = IF r \in wire THEN Cardinality(wire)
           ELSE Cardinality(wire) + 1
    BY <1>3, FS_AddElement
  <2> QED BY <1>3, <2>1
<1>6. Cardinality(wire') <= MaxStrays + 1
  <2>1. Cardinality(wire') \in Nat
    BY <1>2, <1>5, FS_CardinalityType
  <2> QED BY <1>2, <1>3, <1>4, <1>5, <2>1, NoneApart
<1> QED BY <1>1, <1>2, <1>3, <1>5, <1>6 DEF r

(* A step of the client that goes on with another invocation: the chunk it *)
(* asks for is the next one, and while the first chunk is on its way only  *)
(* an inspection or the clean-up may follow it.                            *)
MayGoOn(p, s, t) ==
    /\ p = "upload" => s < InChunks
    /\ p = "upload" /\ s = 0 => t = "inspect"
    /\ p = "download" => s < OutChunks
    /\ p \in {"parse", "cleanup"} => s = 0
    /\ p = "cleanup" => t = "first"
    /\ Begins \in wire => [part |-> p, seq |-> s, try |-> t] \in Earliest

(* The client's invariant, when it goes on with another invocation. *)
LEMMA ClientSends ==
    ASSUME SessionInv, reply # None,
           NEW p \in Session!Parts, NEW s \in Nat, NEW t \in Session!Tries,
               Session!Send(p, s, t), MayGoOn(p, s, t),
           UNCHANGED <<spoiled, session, engine, parses, answer>>,
           error' \in Session!Codes \cup {None}, output' \in Seq(Nat), Ordered(output'),
           p \in {"upload", "parse"} => output' = <<>>,
           p = "download" => Len(output') = s /\ parses = 1,
           p = "cleanup" /\ error' = None => Len(output') = OutChunks /\ parses = 1
    PROVE  SessionInv'
<1>0. SessionTypes /\ ClientOK /\ OutputOK /\ EngineOK /\ Waiting
  BY DEF SessionInv, ClientOK
<1> DEFINE r == [part |-> p, seq |-> s, try |-> t]
<1>1. /\ step' = p /\ seq' = s /\ try' = t /\ wire' = wire \cup {r}
      /\ wire' \in SUBSET Session!Invocations /\ IsFiniteSet(wire')
         /\ Cardinality(wire') <= MaxStrays + 1
      /\ awaited' = r /\ awaited' \in wire' /\ reply' = None
  BY <1>0, Sent
<1>a. r.part = p /\ r.seq = s /\ r.try = t /\ r \in Session!Invocations
  BY DEF Session!Invocations
<1>b. Begins.part = "upload" /\ Begins.seq = 0 /\ Begins.try = "first"
  BY DEF Begins
<1>2. SessionTypes'
  BY <1>0, <1>1 DEF SessionTypes, Session!Parts
<1>3. ClientOK'
  BY <1>1 DEF ClientOK, Waiting, MayGoOn, Session!Parts
<1>4. answer = None /\ answer' = None
  BY <1>0 DEF Waiting, OutputOK, Session!Parts
<1>5. OutputOK'
  BY <1>0, <1>1, <1>4 DEF OutputOK, Session!Parts
<1>6. r # Begins
  BY <1>a, <1>b DEF MayGoOn
<1>7. EngineOK'
  <2>1. \A x \in wire' : x.part = "upload" /\ x.seq = 0 /\ x.try # "inspect" => x = Begins
    BY <1>0, <1>1, <1>a DEF EngineOK, MayGoOn
  <2>2. Begins \in wire' => Begins \in wire /\ r \in Earliest
    BY <1>1, <1>6 DEF MayGoOn
  <2>3. r \in Earliest => p \in {"upload", "cleanup"} /\ s = 0
    BY <1>a DEF Earliest, Begins
  <2> HIDE DEF r
  <2>4. step' = "upload" /\ seq' = 0 => try' \in {"first", "inspect"}
    BY <1>1 DEF MayGoOn
  <2> QED BY <1>0, <1>1, <2>1, <2>2, <2>3, <2>4 DEF EngineOK
<1>8. Session!ReturnedIsDeleted'
  BY <1>4 DEF Session!ReturnedIsDeleted
<1> QED BY <1>2, <1>3, <1>5, <1>7, <1>8 DEF SessionInv

(* The clean-up follows any failure. *)
LEMMA TerminalStep ==
    ASSUME SessionInv, reply # None, NEW code \in Session!Codes, Session!Terminal(code),
           UNCHANGED <<output, spoiled, session, engine, parses, answer>>
    PROVE  SessionInv'
<1>1. error' = code /\ Session!Send("cleanup", 0, "first") /\ code # None
  BY NoneApart DEF Session!Terminal
<1>2. MayGoOn("cleanup", 0, "first")
  BY DEF MayGoOn, Earliest, Begins
<1>3. output \in Seq(Nat) /\ Ordered(output) /\ "first" \in Session!Tries
        /\ "cleanup" \in Session!Parts
  BY DEF SessionInv, SessionTypes, OutputOK, Session!Tries, Session!Parts
<1> QED BY <1>1, <1>2, <1>3, ClientSends

(* What the client knows when an answer is there. *)
LEMMA AnswerFits ==
    ASSUME SessionInv, reply # None
    PROVE  /\ step \in Session!Parts /\ awaited = [part |-> step, seq |-> seq, try |-> try]
              /\ awaited \in Session!Invocations
           /\ awaited.part = step /\ awaited.seq = seq /\ awaited.try = try
           /\ seq \in Nat /\ try \in Session!Tries /\ reply \in Answers(awaited)
           /\ Session!Refused <=> reply \in Session!Refusals
           /\ Session!Refused /\ reply.kind # "transport" => reply.code \in Session!Codes
           /\ output \in Seq(Nat) /\ Ordered(output) /\ error \in Session!Codes \cup {None}
<1>1. /\ step \in Session!Parts /\ awaited = [part |-> step, seq |-> seq, try |-> try]
         /\ seq \in Nat /\ try \in Session!Tries
      /\ reply \in Answers(awaited) /\ output \in Seq(Nat) /\ Ordered(output)
         /\ error \in Session!Codes \cup {None}
  BY DEF SessionInv, ClientOK, SessionTypes, Waiting, OutputOK
<1>2. awaited \in Session!Invocations /\ awaited.part = step /\ awaited.seq = seq
        /\ awaited.try = try
  BY <1>1 DEF Session!Invocations
<1>3. Session!Refused <=> reply \in Session!Refusals
  BY <1>1, <1>2, AnswerKinds, RefusalKinds DEF Session!Refused
<1>4. Session!Refused /\ reply.kind # "transport" => reply.code \in Session!Codes
  BY <1>3, RefusalKinds DEF Session!Refused
<1> QED BY <1>1, <1>2, <1>3, <1>4

(* A failed invocation is inspected, or ends the execution. *)
LEMMA FailedStep ==
    ASSUME SessionInv, reply # None, Session!Refused, Session!Failed,
        step \in {"upload", "parse", "download"},
           UNCHANGED <<output, spoiled, session, engine, parses, answer>>
    PROVE  SessionInv'
<1>0. /\ step \in Session!Parts /\ seq \in Nat /\ reply \in Session!Refusals
         /\ output \in Seq(Nat) /\ Ordered(output)
      /\ error \in Session!Codes \cup {None}
         /\ (reply.kind # "transport" => reply.code \in Session!Codes)
      /\ try \in Session!Tries
  BY AnswerFits
<1>1. ClientOK /\ OutputOK /\ EngineOK
  BY DEF SessionInv
<1>2. CASE reply.kind = "transport" /\ try = "first"
  <2>1. Session!Send(step, seq, "inspect") /\ error' = error
    BY <1>2 DEF Session!Failed
  <2>2. MayGoOn(step, seq, "inspect")
    BY <1>1 DEF MayGoOn, ClientOK, EngineOK, Earliest, Begins
  <2>3. "inspect" \in Session!Tries
    BY DEF Session!Tries
  <2>4. /\ step \in {"upload", "parse"} => output' = <<>>
        /\ step = "download" => Len(output') = seq /\ parses = 1
    BY <1>1 DEF OutputOK
  <2> QED BY <1>0, <2>1, <2>2, <2>3, <2>4, ClientSends
<1>3. CASE ~(reply.kind = "transport" /\ try = "first")
  <2>1. \E code \in Session!Codes : Session!Terminal(code)
    BY <1>0, <1>3 DEF Session!Failed, Session!Codes, Session!ScanFailures
  <2> QED BY <2>1, TerminalStep
<1> QED BY <1>2, <1>3

(* The client's steps in the upload. *)
LEMMA UploadSteps ==
    ASSUME SessionInv, Session!UploadAnswered \/ Session!UploadInspected
    PROVE  SessionInv'
<1>0. /\ reply # None /\ step = "upload" /\ UNCHANGED <<output, spoiled, session, engine, parses,
         answer>>
      /\ (try = "inspect") <=> ~Session!UploadAnswered
  <2>1. Session!UploadAnswered => reply # None /\ step = "upload" /\ try \in {"first", "again"}
    BY DEF Session!UploadAnswered, Session!Received
  <2>2. Session!UploadInspected => reply # None /\ step = "upload" /\ try = "inspect"
    BY DEF Session!UploadInspected, Session!Received
  <2> QED BY <2>1, <2>2 DEF Session!UploadAnswered, Session!UploadInspected
<1>1. /\ step \in Session!Parts /\ seq \in Nat /\ (Session!Refused <=> reply \in Session!Refusals)
      /\ output \in Seq(Nat) /\ Ordered(output) /\ error \in Session!Codes \cup {None}
         /\ awaited \in Session!Invocations
      /\ awaited.part = step /\ awaited.seq = seq /\ awaited.try = try
         /\ reply \in Answers(awaited)
  BY <1>0, AnswerFits
<1>2. ClientOK /\ OutputOK /\ EngineOK /\ output = <<>> /\ seq < InChunks
  BY <1>0 DEF SessionInv, OutputOK, ClientOK
<1>3. CASE Session!Refused
  BY <1>0, <1>3, FailedStep DEF Session!UploadAnswered, Session!UploadInspected
<1>4. CASE ~Session!Refused /\ Session!Uploaded /\ UNCHANGED error
  <2>1. Begins \notin wire
    BY <1>0, <1>1, <1>2, <1>4 DEF EngineOK
  <2>2. CASE seq + 1 < InChunks
    <3>1. Session!Send("upload", seq + 1, "first") /\ seq + 1 \in Nat /\ seq + 1 # 0
      BY <1>1, <1>4, <2>2 DEF Session!Uploaded
    <3>2. MayGoOn("upload", seq + 1, "first")
      BY <2>1, <2>2, <3>1 DEF MayGoOn
    <3>3. "first" \in Session!Tries /\ "upload" \in Session!Parts
      BY DEF Session!Tries, Session!Parts
    <3> QED BY <1>0, <1>1, <1>2, <1>4, <3>1, <3>2, <3>3, ClientSends
  <2>3. CASE ~(seq + 1 < InChunks)
    <3>1. Session!Send("parse", 0, "first")
      BY <1>1, <1>4, <2>3 DEF Session!Uploaded
    <3>2. MayGoOn("parse", 0, "first")
      BY <2>1 DEF MayGoOn
    <3>3. "first" \in Session!Tries /\ "parse" \in Session!Parts
      BY DEF Session!Tries, Session!Parts
    <3> QED BY <1>0, <1>1, <1>2, <1>4, <3>1, <3>2, <3>3, ClientSends
  <2> QED BY <2>2, <2>3
<1>5. CASE ~Session!Refused /\ try = "inspect" /\ reply.next = seq
             /\ Session!Send("upload", seq, "again") /\ UNCHANGED error
  <2>1. Begins \notin wire /\ seq # 0
    BY <1>0, <1>1, <1>2, <1>5, AnswerKinds DEF EngineOK
  <2>2. MayGoOn("upload", seq, "again")
    BY <1>2, <2>1 DEF MayGoOn
  <2>3. "again" \in Session!Tries /\ "upload" \in Session!Parts
    BY DEF Session!Tries, Session!Parts
  <2> QED BY <1>0, <1>1, <1>2, <1>5, <2>2, <2>3, ClientSends
<1>6. CASE ~Session!Refused /\ Session!Terminal("infrastructure_unavailable")
  <2>1. "infrastructure_unavailable" \in Session!Codes
    BY DEF Session!Codes, Session!ScanFailures
  <2> QED BY <1>0, <1>6, <2>1, TerminalStep
<1>7. CASE Session!UploadAnswered
  BY <1>3, <1>4, <1>7 DEF Session!UploadAnswered
<1>8. CASE Session!UploadInspected
  <2>1. try = "inspect"
    BY <1>8 DEF Session!UploadInspected, Session!Received
  <2> QED BY <1>3, <1>4, <1>5, <1>6, <1>8, <2>1 DEF Session!UploadInspected
<1> QED BY <1>7, <1>8

(* The client's steps around the parse. *)
LEMMA ParseSteps ==
    ASSUME SessionInv, Session!ParseAnswered \/ Session!ParseInspected
    PROVE  SessionInv'
<1>0. reply # None /\ step = "parse" /\ UNCHANGED <<output, spoiled, session, engine, parses,
        answer>>
  <2>1. Session!ParseAnswered => reply # None /\ step = "parse"
    BY DEF Session!ParseAnswered, Session!Received
  <2>2. Session!ParseInspected => reply # None /\ step = "parse"
    BY DEF Session!ParseInspected, Session!Received
  <2> QED BY <2>1, <2>2 DEF Session!ParseAnswered, Session!ParseInspected
<1>1. /\ step \in Session!Parts /\ seq \in Nat /\ (Session!Refused <=> reply \in Session!Refusals)
      /\ output \in Seq(Nat) /\ Ordered(output) /\ error \in Session!Codes \cup {None}
         /\ awaited \in Session!Invocations
      /\ awaited.part = step /\ awaited.seq = seq /\ awaited.try = try
         /\ reply \in Answers(awaited)
  BY <1>0, AnswerFits
<1>2. ClientOK /\ OutputOK /\ EngineOK /\ output = <<>> /\ Begins \notin wire
  BY <1>0 DEF SessionInv, OutputOK, EngineOK
<1>a. /\ "first" \in Session!Tries /\ "again" \in Session!Tries /\ "download" \in Session!Parts
         /\ "parse" \in Session!Parts
      /\ "infrastructure_unavailable" \in Session!Codes
  BY DEF Session!Tries, Session!Parts, Session!Codes, Session!ScanFailures
<1>3. CASE Session!Refused
  BY <1>0, <1>3, FailedStep DEF Session!ParseAnswered, Session!ParseInspected
<1>4. CASE Session!Send("download", 0, "first") /\ UNCHANGED error /\ parses = 1
  <2>1. MayGoOn("download", 0, "first")
    BY <1>2, NoneApart DEF MayGoOn
  <2>2. Len(output) = 0
    BY <1>2
  <2> QED BY <1>0, <1>1, <1>4, <1>a, <2>1, <2>2, ClientSends
<1>5. CASE Session!Send("parse", 0, "again") /\ UNCHANGED error
  <2>1. MayGoOn("parse", 0, "again")
    BY <1>2 DEF MayGoOn
  <2> QED BY <1>0, <1>1, <1>2, <1>5, <1>a, <2>1, ClientSends
<1>6. CASE Session!Terminal("infrastructure_unavailable")
  BY <1>0, <1>6, <1>a, TerminalStep
<1>7. CASE Session!ParseAnswered
  <2>1. try # "inspect"
    BY <1>7 DEF Session!ParseAnswered, Session!Received
  <2>2. ~Session!Refused => reply.kind = "result"
    BY <1>0, <1>1, <2>1, AnswerKinds
  <2>3. ~Session!Refused => parses = 1
    BY <1>0, <1>2, <2>2 DEF EngineOK
  <2> QED BY <1>3, <1>4, <1>7, <2>3 DEF Session!ParseAnswered
<1>8. CASE Session!ParseInspected
  <2>1. try = "inspect"
    BY <1>8 DEF Session!ParseInspected, Session!Received
  <2>2. ~Session!Refused => reply \in Session!States
    BY <1>0, <1>1, <2>1, AnswerKinds
  <2>3. ~Session!Refused /\ reply.phase = "parsed" => parses = 1
    BY <1>0, <1>2, <2>2 DEF EngineOK, Session!States
  <2> QED BY <1>3, <1>4, <1>5, <1>6, <1>8, <2>3 DEF Session!ParseInspected
<1> QED BY <1>7, <1>8

(* A chunk is kept after those that were: the answer is to the one that is *)
(* awaited, also when it is the replay of a lost response.                 *)
LEMMA DownloadSteps ==
    ASSUME SessionInv, Session!DownloadAnswered \/ Session!DownloadInspected
    PROVE  SessionInv'
<1>0. reply # None /\ step = "download" /\ UNCHANGED <<spoiled, session, engine, parses, answer>>
  <2>1. Session!DownloadAnswered => reply # None /\ step = "download"
    BY DEF Session!DownloadAnswered, Session!Received
  <2>2. Session!DownloadInspected => reply # None /\ step = "download"
    BY DEF Session!DownloadInspected, Session!Received
  <2> QED BY <2>1, <2>2 DEF Session!DownloadAnswered, Session!DownloadInspected
<1>1. /\ step \in Session!Parts /\ seq \in Nat /\ (Session!Refused <=> reply \in Session!Refusals)
      /\ output \in Seq(Nat) /\ Ordered(output) /\ error \in Session!Codes \cup {None}
         /\ awaited \in Session!Invocations
      /\ awaited.part = step /\ awaited.seq = seq /\ awaited.try = try
         /\ reply \in Answers(awaited)
  BY <1>0, AnswerFits
<1>2. /\ ClientOK /\ OutputOK /\ EngineOK /\ Begins \notin wire /\ Len(output) = seq /\ parses = 1
      /\ seq < OutChunks
  BY <1>0 DEF SessionInv, OutputOK, EngineOK, ClientOK
<1>a. /\ "first" \in Session!Tries /\ "again" \in Session!Tries /\ "download" \in Session!Parts
         /\ "cleanup" \in Session!Parts
      /\ "infrastructure_unavailable" \in Session!Codes
  BY DEF Session!Tries, Session!Parts, Session!Codes, Session!ScanFailures
<1>3. CASE Session!Refused /\ UNCHANGED output
  BY <1>0, <1>3, FailedStep DEF Session!DownloadAnswered, Session!DownloadInspected
<1>4. CASE ~Session!Refused /\ Session!Downloaded /\ output' = Append(output, reply.chunk)
             /\ UNCHANGED error /\ try # "inspect"
  <2>1. reply.chunk = seq
    BY <1>0, <1>1, <1>4, AnswerKinds
  <2>2. output' \in Seq(Nat) /\ Len(output') = seq + 1 /\ Ordered(output')
    <3>1. output' = Append(output, seq)
      BY <1>4, <2>1
    <3>2. output' \in Seq(Nat) /\ Len(output') = seq + 1
      BY <1>1, <1>2, <3>1
    <3>3. \A i \in DOMAIN output' : output'[i] = IF i = seq + 1 THEN seq ELSE output[i]
      BY <1>1, <1>2, <3>1
    <3>4. \A i \in DOMAIN output' : i \in Nat /\ (i = seq + 1 \/ i \in DOMAIN output)
      BY <1>1, <1>2, <3>1
    <3>5. Ordered(output')
      BY <1>1, <3>3, <3>4 DEF Ordered
    <3> QED BY <3>2, <3>5
  <2>3. CASE seq + 1 < OutChunks
    <3>1. Session!Send("download", seq + 1, "first") /\ seq + 1 \in Nat
      BY <1>1, <1>4, <2>3 DEF Session!Downloaded
    <3>2. MayGoOn("download", seq + 1, "first")
      BY <1>2, <2>3 DEF MayGoOn
    <3> QED BY <1>0, <1>1, <1>2, <1>4, <1>a, <2>2, <3>1, <3>2, ClientSends
  <2>4. CASE ~(seq + 1 < OutChunks)
    <3>1. Session!Send("cleanup", 0, "first") /\ seq + 1 = OutChunks
      BY <1>1, <1>2, <1>4, <2>4, NoneApart DEF Session!Downloaded
    <3>2. MayGoOn("cleanup", 0, "first")
      BY <1>2 DEF MayGoOn
    <3> QED BY <1>0, <1>1, <1>2, <1>4, <1>a, <2>2, <3>1, <3>2, ClientSends
  <2> QED BY <2>3, <2>4
<1>5. CASE Session!Send("download", seq, "again") /\ UNCHANGED <<output, error>>
  <2>1. MayGoOn("download", seq, "again")
    BY <1>2 DEF MayGoOn
  <2> QED BY <1>0, <1>1, <1>2, <1>5, <1>a, <2>1, ClientSends
<1>6. CASE Session!Terminal("infrastructure_unavailable") /\ UNCHANGED output
  BY <1>0, <1>6, <1>a, TerminalStep
<1>7. CASE Session!DownloadAnswered
  <2>1. try # "inspect"
    BY <1>7 DEF Session!DownloadAnswered, Session!Received
  <2> QED BY <1>3, <1>4, <1>7, <2>1 DEF Session!DownloadAnswered
<1>8. CASE Session!DownloadInspected
  <2>1. UNCHANGED output
    BY <1>8 DEF Session!DownloadInspected
  <2> QED BY <1>3, <1>5, <1>6, <1>8, <2>1 DEF Session!DownloadInspected
<1> QED BY <1>7, <1>8

(* The document is read, or cannot be. *)
LEMMA ReadStep == ASSUME SessionInv, Session!ReadInput PROVE SessionInv'
<1>0. /\ SessionTypes /\ ClientOK /\ OutputOK /\ EngineOK /\ step = "read"
      /\ UNCHANGED <<seq, try, error, output, spoiled, awaited, reply, wire, session, engine,
         parses>>
      /\ session = "none" /\ output = <<>> /\ reply = None /\ awaited = None
  BY DEF SessionInv, Session!ReadInput, Session!calls, ClientOK, OutputOK, Waiting, Session!Parts
<1>1. \/ step' = "create" /\ answer' = answer
      \/ /\ step' = "done" /\ answer' \in Session!Outcomes /\ answer' # None
         /\ answer'.kind = "failure"
  <2>1. CASE step' = "create" /\ answer' = answer
    BY <2>1
  <2>2. ASSUME NEW code \in {"hash_mismatch", "infrastructure_unavailable"},
               step' = "done", answer' = Session!Failure(code)
        PROVE  step' = "done" /\ answer' \in Session!Outcomes /\ answer' # None
            /\ answer'.kind = "failure"
    <3>1. code \in Session!Codes
      BY DEF Session!Codes, Session!ScanFailures
    <3> QED BY <2>2, <3>1, NoneApart DEF Session!Outcomes, Session!Failure
  <2> QED BY <2>1, <2>2 DEF Session!ReadInput
<1>2. SessionTypes'
  BY <1>0, <1>1 DEF SessionTypes
<1>3. ClientOK'
  BY <1>0, <1>1 DEF ClientOK, Waiting, Session!Parts
<1>4. OutputOK'
  BY <1>0, <1>1 DEF OutputOK
<1>5. EngineOK'
  BY <1>0, <1>1 DEF EngineOK
<1>6. Session!ReturnedIsDeleted'
  <2>1. answer = None
    BY <1>0 DEF OutputOK
  <2> QED BY <1>0, <1>1, <2>1 DEF Session!ReturnedIsDeleted
<1> QED BY <1>2, <1>3, <1>4, <1>5, <1>6 DEF SessionInv

(* The session is created, or the execution ends by cleaning up. *)
LEMMA CreateStep == ASSUME SessionInv, Session!CreateSession PROVE SessionInv'
<1>0. /\ SessionTypes /\ ClientOK /\ OutputOK /\ EngineOK /\ step = "create"
      /\ UNCHANGED <<output, spoiled, engine, parses, answer>>
      /\ wire = {} /\ output = <<>> /\ reply = None /\ awaited = None /\ parses = 0
         /\ engine = Session!NoState
      /\ answer = None
  BY DEF SessionInv, Session!CreateSession, ClientOK, OutputOK, Waiting, Session!Parts
<1>1. PICK p \in {"upload", "cleanup"} :
        /\ Session!Send(p, 0, "first") /\ session' \in {"none", "active"}
        /\ error' \in Session!Codes \cup {None} /\ (p = "cleanup" => error' \in Session!Codes)
  BY <1>0 DEF Session!CreateSession, Session!Terminal, SessionTypes, Session!Codes,
     Session!ScanFailures
<1> DEFINE r == [part |-> p, seq |-> 0, try |-> "first"]
<1>2. /\ step' = p /\ seq' = 0 /\ try' = "first" /\ wire' = wire \cup {r}
      /\ wire' \in SUBSET Session!Invocations /\ IsFiniteSet(wire')
         /\ Cardinality(wire') <= MaxStrays + 1
      /\ awaited' = r /\ awaited' \in wire' /\ reply' = None
  <2>1. p \in Session!Parts /\ 0 \in Nat /\ "first" \in Session!Tries
    BY DEF Session!Parts, Session!Tries
  <2> QED BY <1>0, <1>1, <2>1, Sent
<1>3. SessionTypes'
  BY <1>0, <1>1, <1>2 DEF SessionTypes, Session!Parts, Session!Tries
<1>4. ClientOK'
  BY <1>1, <1>2, NoneApart DEF ClientOK, Waiting, Session!Parts
<1>5. OutputOK'
  BY <1>0, <1>1, <1>2, NoneApart DEF OutputOK, Ordered
<1>6. EngineOK'
  <2>1. wire' = {r} /\ r \in Earliest /\ ~engine'.alive
    BY <1>0, <1>1, <1>2 DEF Earliest, Begins, Session!NoState
  <2>2. r.part = "upload" => r = Begins
    BY DEF Begins
  <2> HIDE DEF r
  <2> QED BY <1>0, <1>1, <1>2, <2>1, <2>2 DEF EngineOK
<1>7. Session!ReturnedIsDeleted'
  BY <1>0 DEF Session!ReturnedIsDeleted
<1> QED BY <1>3, <1>4, <1>5, <1>6, <1>7 DEF SessionInv

(* The clean-up was answered, or was not. *)
LEMMA CleanedStep == ASSUME SessionInv, Session!CleanedUp PROVE SessionInv'
<1>0. /\ SessionTypes /\ ClientOK /\ OutputOK /\ EngineOK /\ step = "cleanup" /\ reply # None
      /\ UNCHANGED <<seq, try, error, output, wire, session, engine, parses, answer>>
      /\ step' = "delete" /\ awaited' = None /\ reply' = None /\ spoiled' \in BOOLEAN
  BY DEF SessionInv, Session!CleanedUp, Session!Received
<1>1. SessionTypes'
  BY <1>0 DEF SessionTypes
<1>2. ClientOK'
  BY <1>0 DEF ClientOK, Waiting, Session!Parts
<1>3. OutputOK'
  BY <1>0 DEF OutputOK
<1>4. EngineOK'
  BY <1>0 DEF EngineOK
<1>5. Session!ReturnedIsDeleted'
  BY <1>0 DEF Session!ReturnedIsDeleted, OutputOK
<1> QED BY <1>1, <1>2, <1>3, <1>4, <1>5 DEF SessionInv

(* The end: a document is returned only when the session is deleted, and   *)
(* it is the whole result of the one parse.                                *)
LEMMA DeleteStep == ASSUME SessionInv, Session!DeleteSession PROVE SessionInv'
<1>0. /\ SessionTypes /\ ClientOK /\ OutputOK /\ EngineOK /\ step = "delete"
      /\ UNCHANGED <<seq, try, error, output, awaited, reply, wire, parses>>
      /\ step' = "done" /\ session' \in {"none", "active", "deleted"} /\ spoiled' \in BOOLEAN
      /\ engine' \in {engine, Session!NoState} /\ answer' = Session!Outcome(spoiled')
      /\ (session' = "active" => spoiled') /\ reply = None /\ awaited = None
  BY DEF SessionInv, Session!DeleteSession, Session!calls, SessionTypes, ClientOK, Waiting,
     Session!Parts
<1>1. /\ answer' \in Session!Outcomes /\ answer' # None
      /\ spoiled' => answer' = Session!Failure("cleanup_incomplete")
      /\ answer'.kind = "document" => Len(answer'.chunks) = OutChunks /\ parses = 1
  <2>1. CASE spoiled'
    BY <1>0, <2>1, NoneApart DEF Session!Outcome, Session!Outcomes, Session!Failure
  <2>2. CASE ~spoiled' /\ error # None
    BY <1>0, <2>2, NoneApart DEF Session!Outcome, Session!Outcomes, Session!Failure, SessionTypes
  <2>3. CASE ~spoiled' /\ error = None
    <3>1. answer' = [kind |-> "document", chunks |-> output]
      BY <1>0, <2>3 DEF Session!Outcome
    <3>2. output \in Seq(Nat) /\ Len(output) = OutChunks /\ parses = 1
      BY <1>0, <2>3 DEF SessionTypes, OutputOK
    <3> QED BY <2>3, <3>1, <3>2, NoneApart DEF Session!Outcomes
  <2> QED BY <1>0, <2>1, <2>2, <2>3
<1>2. SessionTypes'
  BY <1>0, <1>1 DEF SessionTypes
<1>3. ClientOK'
  BY <1>0 DEF ClientOK, Waiting, Session!Parts
<1>4. OutputOK'
  BY <1>0, <1>1 DEF OutputOK
<1>5. EngineOK'
  <2>1. engine' = Session!NoState => ~engine'.alive
    BY DEF Session!NoState
  <2> QED BY <1>0, <2>1 DEF EngineOK
<1>6. Session!ReturnedIsDeleted'
  BY <1>0, <1>1 DEF Session!ReturnedIsDeleted
<1> QED BY <1>2, <1>3, <1>4, <1>5, <1>6 DEF SessionInv

(* The engine after a step: its file is in order, and it is parsed just    *)
(* when the document was.                                                  *)
EngineFits(s, n) ==
    s.alive => /\ s.next = Len(s.input) /\ Ordered(s.input)
               /\ s.parsed = (n = 1) /\ s.next > 0

(* The service of an invocation, whoever still waits for it. *)
LEMMA ServiceStep ==
    ASSUME SessionInv, NEW r \in wire, NEW a \in Answers(r), Session!Respond(r, a),
           engine' \in {Session!NoState} \cup Engines, EngineFits(engine', parses'),
           parses' \in Nat, parses <= parses', parses' <= 1,
           Begins \in wire /\ r # Begins => ~engine'.alive /\ parses' = 0
               /\ a \in Session!Refusals,
           a.kind = "result" => parses' = 1,
           a.kind = "state" /\ a.phase = "parsed" => parses' = 1
    PROVE  SessionInv'
<1>0. /\ SessionTypes /\ ClientOK /\ OutputOK /\ EngineOK /\ Session!ReturnedIsDeleted
      /\ UNCHANGED <<step, seq, try, error, output, spoiled, awaited, session, answer>>
      /\ wire' = wire \ {r} /\ reply' = IF awaited = r /\ reply = None THEN a ELSE reply
      /\ wire \in SUBSET Session!Invocations /\ IsFiniteSet(wire) /\ r \in Session!Invocations
  BY DEF SessionInv, Session!Respond, Session!client, SessionTypes
<1>1. /\ IsFiniteSet(wire') /\ Cardinality(wire') = Cardinality(wire) - 1
      /\ Cardinality(wire) \in Nat
  BY <1>0, FS_RemoveElement, FS_CardinalityType
<1>2. a # None
  BY <1>0, AnswerKinds
<1>3. SessionTypes'
  BY <1>0, <1>1 DEF SessionTypes
<1>4. ClientOK'
  <2>1. reply' # None => Waiting /\ reply' \in Answers(awaited)
    <3>1. CASE awaited = r /\ reply = None
      <4>1. Waiting
        BY <1>0, <3>1, NoneApart DEF ClientOK
      <4> QED BY <1>0, <3>1, <4>1
    <3>2. CASE ~(awaited = r /\ reply = None)
      BY <1>0, <3>2 DEF ClientOK
    <3> QED BY <3>1, <3>2
  <2>2. Waiting /\ reply' = None => awaited \in wire'
    BY <1>0, <1>2 DEF ClientOK
  <2>3. Cardinality(wire') <= MaxStrays
    BY <1>0, <1>1, NoneApart DEF ClientOK
  <2>4. Cardinality(wire') <= MaxStrays + 1
    BY <1>1, <2>3, NoneApart
  <2>5. step \notin {"read", "create"}
    BY <1>0 DEF ClientOK
  <2> QED BY <1>0, <2>1, <2>2, <2>3, <2>4, <2>5 DEF ClientOK, Waiting
<1>5. parses = 1 => parses' = 1
  BY <1>0 DEF EngineOK, SessionTypes
<1>6. OutputOK'
  BY <1>0, <1>5 DEF OutputOK
<1>7. Session!ReturnedIsDeleted'
  BY <1>0, <1>5 DEF Session!ReturnedIsDeleted
<1>8. EngineOK'
  <2>1. EngineFits(engine, parses)'
    OBVIOUS
  <2>2. parses' = 1 => Begins \notin wire'
    BY <1>0
  <2>3. Begins \in wire' => Begins \in wire /\ r # Begins
    BY <1>0
  <2>4. Begins \in wire' /\ reply' # None => reply' \in Session!Refusals
    BY <1>0, <2>3 DEF EngineOK
  <2>5. \A x \in wire' : x.part = "upload" /\ x.seq = 0 /\ x.try # "inspect" => x = Begins
    BY <1>0 DEF EngineOK
  <2>6. reply' # None /\ step' = "parse" /\ reply'.kind = "result" => parses' = 1
    BY <1>0, <1>5 DEF EngineOK
  <2>7. reply' # None /\ step' \in {"parse", "download"} /\ reply'.kind = "state"
          /\ reply'.phase = "parsed"
            => parses' = 1
    BY <1>0, <1>5 DEF EngineOK
  <2>8. Begins \in wire' => /\ ~engine'.alive /\ wire' \subseteq Earliest /\ parses' = 0
                            /\ step' \notin {"parse", "download"}
                            /\ step' = "upload" => seq' = 0
    BY <1>0, <2>3 DEF EngineOK
  <2> QED BY <1>0, <2>1, <2>2, <2>4, <2>5, <2>6, <2>7, <2>8 DEF EngineOK, EngineFits
<1> QED BY <1>3, <1>4, <1>6, <1>7, <1>8 DEF SessionInv

(* What the engine's invariant tells of a state. *)
LEMMA EngineTypes ==
    ASSUME SessionInv
    PROVE  /\ engine \in {Session!NoState} \cup Engines /\ EngineFits(engine, parses)
           /\ parses \in Nat /\ parses <= 1 /\ (parses = 0 \/ parses = 1)
           /\ engine.alive \in BOOLEAN /\ (engine.alive => engine \in Engines)
           /\ Begins \in wire => ~engine.alive /\ parses = 0
           /\ Session!NoState \in {Session!NoState} \cup Engines /\ ~Session!NoState.alive
           /\ \A c \in Session!Codes : Session!Failure(c) \in Session!Refusals
              /\ Session!Failure(c).kind = "failure"
           /\ Session!Missing \in Session!Refusals /\ Session!Missing.kind = "failure"
           /\ \A n \in {0, 1} : EngineFits(Session!NoState, n)
<1>1. SessionTypes /\ EngineOK
  BY DEF SessionInv
<1>2. engine \in {Session!NoState} \cup Engines /\ EngineFits(engine, parses) /\ parses \in Nat
        /\ parses <= 1
  BY <1>1 DEF SessionTypes, EngineOK, EngineFits
<1>3. ~Session!NoState.alive
  BY DEF Session!NoState
<1>4. \A c \in Session!Codes : Session!Failure(c) \in Session!Refusals
        /\ Session!Failure(c).kind = "failure"
  BY DEF Session!Refusals, Session!Failure
<1>5. Session!Missing \in Session!Refusals /\ Session!Missing.kind = "failure"
  BY <1>4 DEF Session!Missing, Session!Codes, Session!ScanFailures
<1>6. engine.alive \in BOOLEAN /\ (engine.alive => engine \in Engines)
  <2>1. CASE engine = Session!NoState
    BY <2>1 DEF Session!NoState
  <2>2. CASE engine \in Engines
    BY <2>2 DEF Engines
  <2> QED BY <1>2, <2>1, <2>2
<1>7. Begins \in wire => ~engine.alive /\ parses = 0
  BY <1>1 DEF EngineOK
<1>8. \A n \in {0, 1} : EngineFits(Session!NoState, n)
  BY <1>3 DEF EngineFits
<1> QED BY <1>2, <1>3, <1>4, <1>5, <1>6, <1>7, <1>8

(* A service that refuses, and leaves the engine. *)
LEMMA RefusalStep ==
    ASSUME SessionInv, NEW r \in wire, NEW a \in Session!Refusals, Session!Respond(r, a),
        UNCHANGED <<engine, parses>>
    PROVE  SessionInv'
<1>1. a \in Answers(r) /\ a.kind \in {"transport", "failure"}
  BY RefusalKinds DEF Answers
<1> QED BY <1>1, EngineTypes, ServiceStep

(* A chunk is served: it is appended just when it is the next one. *)
LEMMA UploadService == ASSUME SessionInv, NEW r \in wire, Session!Upload(r) PROVE SessionInv'
<1>0. SessionTypes /\ EngineOK /\ r \in Session!Invocations /\ r.seq \in Nat
        /\ r.part = "upload" /\ r.try # "inspect"
  BY DEF SessionInv, SessionTypes, Session!Upload, Session!Asks, Session!Invocations
<1> DEFINE begins == ~engine.alive /\ r.seq = 0
           s == IF begins THEN Session!NewState ELSE engine
           input == Append(s.input, r.seq)
           last == s.next + 1 = InChunks
<1>1. UNCHANGED parses
  BY DEF Session!Upload
<1>2. CASE ~begins /\ ~Session!Ready
  <2>1. Session!Respond(r, Session!Missing) /\ UNCHANGED engine
    BY <1>2 DEF Session!Upload
  <2> QED BY <1>1, <2>1, EngineTypes, RefusalStep
<1>3. CASE begins \/ Session!Ready
  <2>1. begins => r = Begins /\ Begins \in wire /\ parses = 0
    BY <1>0, EngineTypes DEF EngineOK
  <2>3. /\ s \in Engines /\ s.next = Len(s.input) /\ Ordered(s.input) /\ (s.parsed = (parses = 1))
        /\ s.alive /\ s.input \in Seq(Nat) /\ s.next \in Nat
    <3>1. CASE begins
      <4>1. Session!NewState \in Engines /\ Session!NewState.input = <<>>
              /\ Session!NewState.next = 0
            /\ Session!NewState.parsed = FALSE /\ Session!NewState.alive = TRUE
        BY DEF Session!NewState, Engines
      <4>2. Len(<<>>) = 0 /\ Ordered(<<>>) /\ <<>> \in Seq(Nat)
        BY DEF Ordered
      <4>3. s = Session!NewState /\ parses = 0
        BY <2>1, <3>1
      <4> HIDE DEF s
      <4>4. s.parsed = (parses = 1)
        <5>1. s.parsed = FALSE /\ parses # 1
          BY <4>1, <4>3
        <5> QED BY <5>1
      <4>5. s \in Engines /\ s.next = Len(s.input) /\ Ordered(s.input) /\ s.alive
        BY <4>1, <4>2, <4>3
      <4>6. s.input = <<>> /\ s.next = 0
        BY <4>1, <4>3
      <4>7. s.input \in Seq(Nat) /\ s.next \in Nat
        BY <4>2, <4>6
      <4> QED BY <4>4, <4>5, <4>7
    <3>2. CASE ~begins
      BY <1>3, <3>2, EngineTypes DEF Session!Ready, EngineFits, Engines
    <3> QED BY <3>1, <3>2
  <2>4. Begins \in wire /\ r # Begins => FALSE
    BY <1>3, <2>1, EngineTypes DEF Session!Ready
  <2> HIDE DEF s
  <2>5. CASE Session!Expects(s, r)
    <3>1. /\ engine' = [s EXCEPT !.input = input, !.next = s.next + 1, !.complete = last /\ Session!Whole(input)]
          /\ Session!Respond(r, IF last /\ ~Session!Whole(input)
             THEN Session!Failure("hash_mismatch") ELSE [kind |-> "ack"])
      BY <1>3, <2>5 DEF Session!Upload, s
    <3>2. input \in Seq(Nat) /\ Len(input) = s.next + 1 /\ Ordered(input)
      <4>1. r.seq = s.next
        BY <2>5 DEF Session!Expects
      <4>2. \A i \in DOMAIN input : input[i] = (IF i = Len(s.input) + 1 THEN r.seq
              ELSE s.input[i])
        BY <1>0, <2>3
      <4>3. \A i \in DOMAIN input : i \in Nat /\ (i = Len(s.input) + 1 \/ i \in DOMAIN s.input)
        BY <1>0, <2>3
      <4>4. Ordered(input)
        BY <2>3, <4>1, <4>2, <4>3 DEF Ordered
      <4> QED BY <1>0, <2>3, <4>4
    <3> DEFINE whole == last /\ Session!Whole(input)
    <3>3. whole \in BOOLEAN
      BY DEF Session!Whole
    <3>b. engine' = [s EXCEPT !.input = input, !.next = s.next + 1, !.complete = whole]
      BY <3>1
    <3> HIDE DEF input, last, whole
    <3>4. /\ engine' \in Engines /\ engine'.input = input /\ engine'.next = s.next + 1
          /\ engine'.parsed = s.parsed /\ engine'.alive
      <4>1. /\ engine'.input = input /\ engine'.next = s.next + 1
            /\ engine'.parsed = s.parsed /\ engine'.alive = s.alive
        BY <2>3, <3>b DEF Engines
      <4>2. engine' \in Engines
        <5>1. s.next + 1 \in Nat /\ s.live \in BOOLEAN /\ s.parsed \in BOOLEAN /\ s.out \in Nat
          BY <2>3 DEF Engines
        <5>2. engine' = [alive |-> TRUE, live |-> s.live, input |-> input, next |-> s.next + 1,
                         complete |-> whole, parsed |-> s.parsed, out |-> s.out]
          BY <2>3, <3>b DEF Engines
        <5> QED BY <3>2, <3>3, <5>1, <5>2 DEF Engines
      <4> QED BY <2>3, <4>1, <4>2
    <3>5. EngineFits(engine', parses')
      BY <1>1, <2>3, <3>2, <3>4 DEF EngineFits
    <3> DEFINE a == IF last /\ ~Session!Whole(input) THEN Session!Failure("hash_mismatch")
        ELSE [kind |-> "ack"]
    <3>6. a \in Answers(r) /\ a.kind \in {"failure", "ack"}
      <4>1. "hash_mismatch" \in Session!Codes
        BY DEF Session!Codes
      <4> QED BY <1>0, <4>1, EngineTypes DEF Answers
    <3> HIDE DEF a
    <3>7. Session!Respond(r, a)
      BY <3>1 DEF a
    <3> QED BY <1>1, <2>4, <3>4, <3>5, <3>6, <3>7, EngineTypes, ServiceStep
  <2>6. CASE ~Session!Expects(s, r)
    <3>1. engine' = s /\ Session!Respond(r, Session!Failure("invalid_output"))
      BY <1>3, <2>6 DEF Session!Upload, s
    <3>2. ~begins
      <4>1. begins => Session!Expects(s, r)
        BY DEF Session!Expects, s, Session!NewState
      <4> QED BY <2>6, <4>1
    <3>3. UNCHANGED engine /\ Session!Failure("invalid_output") \in Session!Refusals
      BY <3>1, <3>2, EngineTypes DEF s, Session!Codes
    <3> QED BY <1>1, <3>1, <3>3, RefusalStep
  <2> QED BY <2>5, <2>6
<1> QED BY <1>2, <1>3

(* A document is parsed in a session that was never parsed before: the     *)
(* engine lives once, and knows.                                           *)
LEMMA ParseService == ASSUME SessionInv, NEW r \in wire, Session!Parse(r) PROVE SessionInv'
<1>0. r \in Session!Invocations /\ r.part = "parse" /\ r.try # "inspect"
  BY DEF SessionInv, SessionTypes, Session!Parse, Session!Asks
<1>1. CASE /\ engine.alive /\ Session!MayParse(engine)
           /\ engine' = [engine EXCEPT !.parsed = TRUE] /\ parses' = parses + 1
           /\ Session!Respond(r, [kind |-> "result"])
  <2>1. engine \in Engines /\ ~engine.parsed /\ parses = 0 /\ Begins \notin wire
    BY <1>1, EngineTypes DEF Session!MayParse, EngineFits
  <2>2. /\ engine' \in Engines /\ engine'.input = engine.input /\ engine'.next = engine.next
        /\ engine'.parsed = TRUE /\ engine'.alive
    BY <1>1, <2>1 DEF Engines
  <2>3. parses' = 1
    BY <1>1, <2>1
  <2>4. EngineFits(engine', parses')
    BY <1>1, <2>2, <2>3, EngineTypes DEF EngineFits
  <2>5. PICK a \in Answers(r) : Session!Respond(r, a) /\ a.kind = "result"
    BY <1>0, <1>1 DEF Answers
  <2>6. parses' \in Nat /\ parses <= parses' /\ parses' <= 1
    BY <2>1, <2>3
  <2> QED BY <2>1, <2>2, <2>3, <2>4, <2>5, <2>6, ServiceStep
<1>2. CASE \E a \in Session!Refusals : Session!Respond(r, a) /\ UNCHANGED <<engine, parses>>
  BY <1>2, RefusalStep
<1>3. \/ /\ engine.alive /\ Session!MayParse(engine)
         /\ engine' = [engine EXCEPT !.parsed = TRUE] /\ parses' = parses + 1
         /\ Session!Respond(r, [kind |-> "result"])
      \/ \E a \in Session!Refusals : Session!Respond(r, a) /\ UNCHANGED <<engine, parses>>
  <2>1. Session!Failure("invalid_output") \in Session!Refusals
          /\ Session!Missing \in Session!Refusals
        /\ \A code \in Session!ScanFailures \cup Session!WorkerFailures : Session!Failure(code) \in Session!Refusals
    BY EngineTypes DEF Session!Codes
  <2> QED BY <2>1 DEF Session!Parse
<1> QED BY <1>1, <1>2, <1>3

(* A chunk of the result is read at the offset that was asked for. *)
LEMMA DownloadService ==
    ASSUME SessionInv, NEW r \in wire, Session!Download(r)
    PROVE  SessionInv'
<1>0. r \in Session!Invocations /\ r.part = "download" /\ r.try # "inspect" /\ UNCHANGED parses
  BY DEF SessionInv, SessionTypes, Session!Download, Session!Asks
<1>1. CASE /\ engine.alive /\ engine' = [engine EXCEPT !.out = IF r.seq = engine.out
              THEN engine.out + 1 ELSE engine.out]
           /\ Session!Respond(r, [kind |-> "chunk", chunk |-> Session!ChunkAt(engine, r)])
  <2>1. engine \in Engines /\ Begins \notin wire
    BY <1>1, EngineTypes
  <2> DEFINE o == IF r.seq = engine.out THEN engine.out + 1 ELSE engine.out
  <2>a. o \in Nat
    BY <2>1 DEF Engines
  <2>b. engine' = [engine EXCEPT !.out = o]
    BY <1>1
  <2> HIDE DEF o
  <2>2. /\ engine' \in Engines /\ engine'.input = engine.input /\ engine'.next = engine.next
        /\ engine'.parsed = engine.parsed /\ engine'.alive
    BY <1>1, <2>1, <2>a, <2>b DEF Engines
  <2>3. EngineFits(engine', parses')
    BY <1>0, <1>1, <2>2, EngineTypes DEF EngineFits
  <2>4. [kind |-> "chunk", chunk |-> Session!ChunkAt(engine, r)] \in Answers(r)
    BY <1>0 DEF Answers, Session!ChunkAt
  <2> QED BY <1>0, <1>1, <2>1, <2>2, <2>3, <2>4, EngineTypes, ServiceStep
<1>2. CASE \E a \in Session!Refusals : Session!Respond(r, a) /\ UNCHANGED engine
  BY <1>0, <1>2, RefusalStep
<1>3. \/ /\ engine.alive
         /\ engine' = [engine EXCEPT !.out = IF r.seq = engine.out THEN engine.out + 1
            ELSE engine.out]
         /\ Session!Respond(r, [kind |-> "chunk", chunk |-> Session!ChunkAt(engine, r)])
      \/ \E a \in Session!Refusals : Session!Respond(r, a) /\ UNCHANGED engine
  <2>1. Session!Failure("invalid_output") \in Session!Refusals
          /\ Session!Missing \in Session!Refusals
    BY EngineTypes DEF Session!Codes
  <2> QED BY <2>1 DEF Session!Download
<1> QED BY <1>1, <1>2, <1>3

(* The engine forgets the session. *)
LEMMA CleanupService == ASSUME SessionInv, NEW r \in wire, Session!Cleanup(r) PROVE SessionInv'
<1>0. r \in Session!Invocations /\ r.part = "cleanup" /\ r.try # "inspect" /\ UNCHANGED parses
        /\ engine' = Session!NoState
  BY DEF SessionInv, SessionTypes, Session!Cleanup, Session!Asks
<1> DEFINE a == IF engine.alive THEN [kind |-> "ack"] ELSE Session!Missing
<1>1. Session!Respond(r, a)
  BY DEF Session!Cleanup
<1>2. a \in Answers(r) /\ a.kind \in {"ack", "failure"}
  BY <1>0, EngineTypes DEF Answers
<1>3. Begins \in wire => a \in Session!Refusals
  BY EngineTypes
<1> HIDE DEF a
<1>4. EngineFits(engine', parses') /\ ~engine'.alive
  BY <1>0, EngineTypes
<1> QED BY <1>0, <1>1, <1>2, <1>3, <1>4, EngineTypes, ServiceStep

(* The state of the engine is told; it is parsed just when the document    *)
(* was.                                                                    *)
LEMMA InspectService == ASSUME SessionInv, NEW r \in wire, Session!Inspect(r) PROVE SessionInv'
<1>0. r \in Session!Invocations /\ r.try = "inspect" /\ UNCHANGED <<engine, parses>>
  BY DEF SessionInv, SessionTypes, Session!Inspect
<1>1. CASE ~Session!Ready
  BY <1>0, <1>1, EngineTypes, RefusalStep DEF Session!Inspect
<1>2. CASE Session!Ready
  <2> DEFINE a == [kind |-> "state", phase |-> Session!Phase(engine), next |-> engine.next, out |-> engine.out]
  <2>1. Session!Respond(r, a)
    BY <1>2 DEF Session!Inspect
  <2>2. engine \in Engines /\ engine.next > 0 /\ Begins \notin wire
    BY <1>2, EngineTypes DEF Session!Ready, EngineFits
  <2>3. a \in Session!States /\ a.next > 0
    BY <2>2 DEF Session!States, Engines, Session!Phase
  <2>4. a.phase = "parsed" => engine.parsed
    BY DEF Session!Phase
  <2>5. a.phase = "parsed" => parses' = 1
    BY <1>0, <1>2, <2>2, <2>4, EngineTypes DEF EngineFits, Session!Ready, Engines
  <2>6. a \in Answers(r) /\ a.kind = "state"
    BY <1>0, <2>3 DEF Answers
  <2> HIDE DEF a
  <2> QED BY <1>0, <2>1, <2>2, <2>5, <2>6, EngineTypes, ServiceStep
<1> QED BY <1>1, <1>2

(* An answer is lost, or the invocation is given up and stays on its way. *)
LEMMA LoseStep == ASSUME SessionInv, Session!Lose PROVE SessionInv'
<1>0. /\ SessionTypes /\ ClientOK /\ OutputOK /\ EngineOK /\ Session!ReturnedIsDeleted
      /\ UNCHANGED <<step, seq, try, error, output, spoiled, awaited, session, engine, parses,
         answer>>
      /\ wire \in SUBSET Session!Invocations /\ IsFiniteSet(wire) /\ reply' = Session!Transport
         /\ awaited # None
  BY DEF SessionInv, Session!Lose, Session!client, SessionTypes
<1>1. Waiting /\ Session!Transport \in Session!Refusals /\ Session!Transport.kind = "transport"
  BY <1>0 DEF ClientOK, Session!Refusals, Session!Transport
<1>2. wire' \subseteq wire /\ IsFiniteSet(wire') /\ Cardinality(wire') <= MaxStrays
  <2>1. CASE awaited \in wire /\ wire' = wire \ {awaited}
    <3>1. IsFiniteSet(wire') /\ Cardinality(wire') = Cardinality(wire) - 1
            /\ Cardinality(wire) \in Nat
      BY <1>0, <2>1, FS_RemoveElement, FS_CardinalityType
    <3>2. Cardinality(wire) <= MaxStrays + 1
      BY <1>0 DEF ClientOK
    <3> QED BY <2>1, <3>1, <3>2, NoneApart
  <2>2. CASE awaited \notin wire /\ wire' = wire \ {awaited}
    BY <1>0, <1>1, <2>2 DEF ClientOK
  <2>3. CASE wire' = wire /\ Cardinality(wire) <= MaxStrays
    BY <1>0, <2>3
  <2> QED BY <2>1, <2>2, <2>3, SameCount DEF Session!Lose
<1>3. Cardinality(wire') <= MaxStrays + 1
  BY <1>0, <1>2, NoneApart, FS_CardinalityType
<1>4. reply' # None /\ reply' \in Answers(awaited)
  BY <1>0, <1>1, RefusalKinds, NoneApart DEF Answers
<1>5. SessionTypes'
  BY <1>0, <1>2 DEF SessionTypes
<1>6. ClientOK'
  <2>1. step \notin {"read", "create"}
    BY <1>1 DEF Waiting, Session!Parts
  <2> QED BY <1>0, <1>1, <1>2, <1>3, <1>4, <2>1 DEF ClientOK, Waiting
<1>7. OutputOK'
  BY <1>0 DEF OutputOK
<1>8. EngineOK'
  <2>1. reply'.kind = "transport" /\ reply' \in Session!Refusals
    BY <1>0, <1>1
  <2>2. Begins \in wire' => Begins \in wire
    BY <1>2
  <2>3. Begins \in wire' => wire' \subseteq Earliest
    BY <1>0, <1>2 DEF EngineOK
  <2>4. \A x \in wire' : x.part = "upload" /\ x.seq = 0 /\ x.try # "inspect" => x = Begins
    BY <1>0, <1>2 DEF EngineOK
  <2> QED BY <1>0, <2>1, <2>2, <2>3, <2>4 DEF EngineOK
<1>9. Session!ReturnedIsDeleted'
  BY <1>0 DEF Session!ReturnedIsDeleted
<1> QED BY <1>5, <1>6, <1>7, <1>8, <1>9 DEF SessionInv

(* A step of the platform that only the engine sees. *)
LEMMA InstanceStep == ASSUME SessionInv, Session!Expire \/ Session!Replace PROVE SessionInv'
<1>0. /\ SessionTypes /\ ClientOK /\ OutputOK /\ EngineOK /\ Session!ReturnedIsDeleted
      /\ engine.alive
      /\ UNCHANGED <<step, seq, try, error, output, spoiled, awaited, reply, wire, session,
         parses, answer>>
  BY DEF SessionInv, Session!Expire, Session!Replace, Session!client, Session!calls
<1>1. engine \in Engines /\ Begins \notin wire /\ EngineFits(engine, parses)
  BY <1>0, EngineTypes
<1>2. /\ engine' \in {Session!NoState} \cup Engines
      /\ engine'.alive => /\ engine'.input = engine.input /\ engine'.next = engine.next
                          /\ engine'.parsed = engine.parsed
  <2>1. CASE Session!Expire
    <3>1. engine' = [engine EXCEPT !.live = FALSE]
      BY <2>1 DEF Session!Expire
    <3> QED BY <1>1, <3>1 DEF Engines
  <2>2. CASE Session!Replace
    <3>1. engine' = Session!NoState
      BY <2>2 DEF Session!Replace
    <3> QED BY <3>1, EngineTypes
  <2> QED BY <2>1, <2>2 DEF Session!Expire, Session!Replace
<1>3. EngineFits(engine', parses')
  BY <1>0, <1>1, <1>2 DEF EngineFits
<1>4. SessionTypes'
  BY <1>0, <1>2 DEF SessionTypes
<1>5. ClientOK'
  <2>1. step \notin {"read", "create"}
    BY <1>0, EngineTypes DEF ClientOK
  <2> QED BY <1>0, <2>1 DEF ClientOK, Waiting
<1>6. OutputOK'
  BY <1>0 DEF OutputOK
<1>7. EngineOK'
  BY <1>0, <1>1, <1>3 DEF EngineOK, EngineFits
<1>8. Session!ReturnedIsDeleted'
  BY <1>0 DEF Session!ReturnedIsDeleted
<1> QED BY <1>4, <1>5, <1>6, <1>7, <1>8 DEF SessionInv

(* The execution before its first step. *)
LEMMA SessionInit == ASSUME Session!Init PROVE SessionInv
<1>0. /\ step = "read" /\ seq = 0 /\ try = "first" /\ error = None /\ output = <<>>
      /\ spoiled = FALSE /\ awaited = None /\ reply = None /\ wire = {}
      /\ session = "none" /\ engine = Session!NoState /\ parses = 0 /\ answer = None
  BY DEF Session!Init
<1>1. IsFiniteSet({}) /\ Cardinality({}) = 0
  BY FS_EmptySet
<1>2. SessionTypes
  <2>1. output \in Seq(Nat) /\ IsFiniteSet(wire) /\ wire \in SUBSET Session!Invocations
    BY <1>0, <1>1
  <2>2. engine \in {Session!NoState} \cup Engines /\ try \in Session!Tries /\ parses \in Nat
          /\ seq \in Nat
    BY <1>0 DEF Session!Tries
  <2> QED BY <1>0, <2>1, <2>2 DEF SessionTypes
<1>3. ClientOK
  BY <1>0, <1>1, NoneApart DEF ClientOK, Waiting, Session!Parts
<1>4. OutputOK
  BY <1>0 DEF OutputOK, Ordered
<1>5. EngineOK
  BY <1>0 DEF EngineOK, Session!NoState
<1>6. Session!ReturnedIsDeleted
  BY <1>0 DEF Session!ReturnedIsDeleted
<1> QED BY <1>2, <1>3, <1>4, <1>5, <1>6 DEF SessionInv

(* A step that leaves the execution alone. *)
LEMMA SessionStutter == ASSUME SessionInv, UNCHANGED Session!vars PROVE SessionInv'
<1>1. UNCHANGED <<step, seq, try, error, output, spoiled, awaited, reply, wire, session, engine,
        parses, answer>>
  BY DEF Session!vars, Session!client, Session!calls
<1>2. SessionTypes' /\ ClientOK' /\ OutputOK' /\ EngineOK' /\ Session!ReturnedIsDeleted'
  BY <1>1 DEF SessionInv, SessionTypes, ClientOK, Waiting, OutputOK, EngineOK,
     Session!ReturnedIsDeleted
<1> QED BY <1>2 DEF SessionInv

(* Every step of an execution preserves its invariant. *)
LEMMA SessionStep == ASSUME SessionInv, [Session!Next]_(Session!vars) PROVE SessionInv'
<1>1. CASE Session!Client
  BY <1>1, ReadStep, CreateStep, UploadSteps, ParseSteps, DownloadSteps, CleanedStep, DeleteStep
  DEF Session!Client
<1>2. CASE Session!Handle
  BY <1>2, UploadService, ParseService, DownloadService, CleanupService,
     InspectService DEF Session!Handle
<1>3. CASE Session!Lose
  BY <1>3, LoseStep
<1>4. CASE Session!Expire \/ Session!Replace
  BY <1>4, InstanceStep
<1>5. CASE UNCHANGED Session!vars
  BY <1>5, SessionStutter
<1> QED BY <1>1, <1>2, <1>3, <1>4, <1>5 DEF Session!Next

(* A file in order is the sequence of its numbers. *)
LEMMA InOrder ==
    ASSUME NEW q \in Seq(Nat), Ordered(q)
    PROVE  q = [i \in 1..Len(q) |-> i - 1]
<1>1. DOMAIN q = 1..Len(q) /\ q = [i \in 1..Len(q) |-> q[i]]
  OBVIOUS
<1> QED BY <1>1 DEF Ordered

(* The invariant of an execution contains what the run checks of it. *)
LEMMA SessionSound == ASSUME SessionInv PROVE Session!ExecutionSound
<1>0. SessionTypes /\ ClientOK /\ OutputOK /\ EngineOK /\ Session!ReturnedIsDeleted
  BY DEF SessionInv
<1>1. Session!TypeOK
  <2>1. seq \in 0..(InChunks + OutChunks)
    <3>1. seq \in Nat /\ (seq = 0 \/ seq < InChunks \/ seq < OutChunks)
      BY <1>0 DEF SessionTypes, ClientOK
    <3> QED BY <3>1, NoneApart
  <2>2. (awaited # None) = (step \in Session!Parts)
    <3>1. [part |-> step, seq |-> seq, try |-> try] # None \/ step \notin Session!Parts
      BY <1>0, NoneApart DEF SessionTypes, Session!Invocations
    <3> QED BY <1>0, <3>1 DEF ClientOK, Waiting
  <2>3. reply \in Session!Responses \cup {None}
    BY <1>0, AnswerFits, AnswerKinds
  <2> QED BY <1>0, <2>1, <2>2, <2>3, SameCount DEF Session!TypeOK, SessionTypes, ClientOK,
             OutputOK, Session!Parts
<1>2. Session!InputInOrder
  BY <1>0, EngineTypes, InOrder DEF Session!InputInOrder, EngineFits, Engines
<1>3. Session!OutputInOrder
  BY <1>0, InOrder DEF Session!OutputInOrder, OutputOK, SessionTypes
<1>4. Session!ParsedOnce
  BY <1>0 DEF Session!ParsedOnce, EngineOK
<1> QED BY <1>0, <1>1, <1>2, <1>3, <1>4 DEF Session!ExecutionSound
-----------------------------------------------------------------------------
(* What leaves the application.                                            *)

(* The invariant of the composition: one of the parts is at work, the      *)
(* others have ended in states their own invariants hold of.               *)
ExternalInv == CallInv /\ SessionInv

(* A call that has ended, or was never made. *)
LEMMA EndedCall == ASSUME RouterEnded PROVE CallInv
<1>0. /\ task = "text" /\ adapters = [i \in 1..2 |-> CHOOSE d \in Router!Descriptors : TRUE]
      /\ phase = "done" /\ selector = 1 /\ local = 1 /\ attempts = <<>>
      /\ work = Router!Idle /\ late = FALSE /\ jobs = {} /\ trace = None
      /\ result = None
  BY DEF RouterEnded
<1>1. (CHOOSE d \in Router!Descriptors : TRUE) \in Router!Descriptors
  <2>1. [max |-> 1, idempotent |-> FALSE, admitted |-> FALSE] \in Router!Descriptors
    BY DEF Router!Descriptors
  <2> QED BY <2>1
<1>2. adapters \in [1..2 -> Router!Descriptors] /\ task \in Router!Tasks
  BY <1>0, <1>1 DEF Router!Tasks, Router!Route
<1>3. CallTypes
  <2>1. attempts \in Seq(Router!AttemptTraces) /\ selector \in 1..2
          /\ local \in 1..Router!RouteAttempts
    BY <1>0 DEF Router!RouteAttempts
  <2> QED BY <1>0, <1>2, <2>1, WorkTypes DEF CallTypes
<1>4. AttemptsOK
  BY <1>0 DEF AttemptsOK, Router!RouteAttempts
<1>5. JobsOK
  BY <1>0 DEF JobsOK
<1> QED BY <1>0, <1>3, <1>4, <1>5 DEF CallInv, Router!ValueIsTraced, Router!RetryIsSafe

(* An execution that has ended without a session. *)
LEMMA EndedSession == ASSUME SessionEnded PROVE SessionInv
<1>0. /\ step = "done" /\ seq = 0 /\ try = "first" /\ error = None /\ output = <<>>
      /\ spoiled = FALSE /\ awaited = None /\ reply = None /\ wire = {} /\ session = "none"
      /\ engine = Session!NoState /\ parses = 0
      /\ answer = Session!Failure("infrastructure_unavailable")
  BY DEF SessionEnded
<1>1. IsFiniteSet({}) /\ Cardinality({}) = 0
  BY FS_EmptySet
<1>2. answer \in Session!Outcomes /\ answer # None /\ answer.kind = "failure"
  <2>1. "infrastructure_unavailable" \in Session!Codes
    BY DEF Session!Codes, Session!ScanFailures
  <2>2. answer \in Session!Outcomes
    BY <1>0, <2>1 DEF Session!Outcomes
  <2>3. answer.kind = "failure"
    BY <1>0 DEF Session!Failure
  <2> QED BY <2>2, <2>3, NoneApart
<1>3. SessionTypes
  <2>1. output \in Seq(Nat) /\ IsFiniteSet(wire) /\ wire \in SUBSET Session!Invocations
    BY <1>0, <1>1
  <2>2. engine \in {Session!NoState} \cup Engines /\ try \in Session!Tries /\ parses \in Nat
        /\ seq \in Nat
    BY <1>0 DEF Session!Tries
  <2> QED BY <1>0, <1>2, <2>1, <2>2 DEF SessionTypes
<1>4. ClientOK
  BY <1>0, <1>1, NoneApart DEF ClientOK, Waiting, Session!Parts
<1>5. OutputOK
  BY <1>0, <1>2 DEF OutputOK, Ordered
<1>6. EngineOK
  BY <1>0 DEF EngineOK, Session!NoState
<1>7. Session!ReturnedIsDeleted
  BY <1>0, <1>2 DEF Session!ReturnedIsDeleted
<1> QED BY <1>3, <1>4, <1>5, <1>6, <1>7 DEF SessionInv

(* The composition begins with one part, the others having ended. *)
LEMMA ExternalInitInv == ExternalInit => ExternalInv
  BY CallInit, SessionInit, EndedCall, EndedSession DEF ExternalInit, ExternalInv

(* While one part takes a step the others rest. *)
LEMMA ExternalStep ==
    ExternalInv /\ [ExternalNext]_<<part, routerVars, sessionVars, vars>> => ExternalInv'
<1> SUFFICES ASSUME ExternalInv, [ExternalNext]_<<part, routerVars, sessionVars, vars>>
             PROVE  ExternalInv'
  OBVIOUS
<1>0. CallInv /\ SessionInv
  BY DEF ExternalInv
<1>1. UNCHANGED routerVars => UNCHANGED Router!vars
  BY DEF routerVars, Router!vars, Router!call, Router!loop
<1>2. UNCHANGED sessionVars => UNCHANGED Session!vars
  BY DEF sessionVars, Session!vars, Session!client, Session!calls
<1>3. Router!Next \/ UNCHANGED routerVars
  BY DEF ExternalNext
<1>4. Session!Next \/ UNCHANGED sessionVars
  BY DEF ExternalNext
<1>5. CallInv'
  BY <1>0, <1>1, <1>3, CallStep
<1>6. SessionInv'
  BY <1>0, <1>2, <1>4, SessionStep
<1> QED BY <1>5, <1>6 DEF ExternalInv

(* For any number of segments, polls and chunks, and however invocations   *)
(* are lost, late or repeated: of media that are not idempotent nothing is *)
(* submitted twice, a value is returned only with its trace stored, what   *)
(* the audio worker repeats was not accepted; both files of an execution   *)
(* are in order, its document is parsed at most once, and a document or a  *)
(* verdict of the engine is returned only when the session is gone.        *)
THEOREM CallsAreSound == ExternalSpec => []CallsSound
<1>1. ExternalInv => CallsSound
  BY CallIsSound, SessionSound DEF ExternalInv, CallsSound
<1> QED BY <1>1, ExternalInitInv, ExternalStep, PTL DEF ExternalSpec

(* The same composition holds its executions as the broker alone does.     *)
THEOREM ExternalHoldsExecutions == ASSUME OnePollOnly PROVE ExternalSpec => []ExecutionsHeld
<1>1. ExternalInit => Init
  BY DEF ExternalInit
<1>2. [ExternalNext]_<<part, routerVars, sessionVars, vars>> => [Next]_vars
  BY DEF ExternalNext
<1>3. Init => BridgeInv /\ AwaitIsAlone /\ NeverForgotten
  BY InitBridge DEF Init, AwaitIsAlone, NeverForgotten
<1>4. BridgeInv /\ AwaitIsAlone /\ NeverForgotten /\ [Next]_vars
        => BridgeInv' /\ AwaitIsAlone' /\ NeverForgotten'
  BY OnePollOnly, AloneStep, ForgottenStep, TypeStep, HeldStep, TimedStep,
      StagedStep DEF BridgeInv
<1>5. BridgeInv /\ NeverForgotten => ExecutionsHeld
  BY DEF BridgeInv, ExecutionsHeld
<1> QED BY <1>1, <1>2, <1>3, <1>4, <1>5, PTL DEF ExternalSpec

=============================================================================

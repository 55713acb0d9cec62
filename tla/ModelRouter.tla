----------------------------- MODULE ModelRouter ----------------------------
(***************************************************************************)
(* One logical call of the model router (packages/model-router): execute,  *)
(* the adapters it invokes, and what their providers do with a submission. *)
(* A step is the continuation of one await: the feature flag, a request of *)
(* the adapter, the trace sink.  The deadline may pass at any time; then   *)
(* the timer of withDeadline and the awaited promise race.                 *)
(*                                                                         *)
(* A call of the audio worker that ends in an error is repeated when       *)
(* normalizeFailure (packages/audio) finds it retryable.                   *)
(***************************************************************************)
EXTENDS Naturals, Sequences, FiniteSets

CONSTANTS
    Segments,   \* parts of a narration of at most 600 characters
    MaxPolls,   \* MAX_STATUS_POLLS
    None

(* ROUTE_POLICY_V6.  The text tasks differ in their prompts only. *)
Route ==
    [text      |-> [capability |-> "structured", fallback |-> FALSE, gated |-> FALSE],
     embedding |-> [capability |-> "embedding", fallback |-> FALSE, gated |-> FALSE],
     tts       |-> [capability |-> "speech", fallback |-> TRUE, gated |-> FALSE],
     video     |-> [capability |-> "video", fallback |-> FALSE, gated |-> TRUE]]
Tasks == DOMAIN Route
RouteAttempts == 2
Media == {"speech", "video"}

(* An adapter descriptor, or a registry without one: attempts the adapter  *)
(* allows, whether a repeated submission is one to the provider, and       *)
(* whether the deployment admits the adapter (developmentOnly, canary).    *)
Descriptors == [max : 1..2, idempotent : BOOLEAN, admitted : BOOLEAN]

VARIABLES
    task,
    adapters,   \* adapters[i]: descriptor of the primary and the fallback
    phase,      \* the await the call is at
    selector,   \* selectorIndex, from 1
    local,      \* localAttempt
    attempts,   \* the attempt traces so far
    failure,    \* the error to throw after the loop
    work,       \* where the adapter is: its request, segment and polls
    late,       \* the deadline has passed
    jobs,       \* invocations some part of which a media provider accepted
    trace,      \* the logical trace the sink has
    result      \* what the caller got

call == <<task, adapters>>
loop == <<selector, local, attempts, failure>>
vars == <<call, phase, loop, work, late, jobs, trace, result>>

Idle == [step |-> "none", segment |-> 0, polls |-> 0]
Capability == Route[task].capability

Init ==
    /\ task \in Tasks
    /\ adapters \in [1..2 -> Descriptors]
    /\ ~Route[task].fallback => adapters[2] = adapters[1]
    /\ phase = IF Route[task].gated THEN "gate" ELSE "select"
    /\ selector = 1 /\ local = 1 /\ attempts = <<>> /\ failure = None
    /\ work = Idle /\ late = FALSE /\ jobs = {} /\ trace = None /\ result = None

-----------------------------------------------------------------------------
(* The caller gets an error: its code, and providerFailure. *)
Throw(code, provider) ==
    /\ phase' = "done"
    /\ result' = [kind |-> "error", code |-> code, provider |-> provider]

(* The feature flag of media.video.v1, asked under the deadline. *)
Gate ==
    /\ phase = "gate"
    /\ \/ ~late /\ phase' = "select" /\ UNCHANGED result
       \/ Throw("feature_disabled", None)
       \/ late /\ Throw("deadline_exceeded", None)
    /\ UNCHANGED <<call, loop, work, late, jobs, trace>>

(* Mutant of Verified: any media adapter may be tried again. *)
VerifiedAny(d) == d.admitted

(* selectAdapter and verifyAdapter. *)
Verified(d) ==
    /\ d.admitted
    /\ Capability \in Media => d.max = 1 \/ d.idempotent

(* No adapter is registered for the selector, or one that does not fit. *)
Unfit(d) == IF d.admitted THEN {"invalid_adapter_configuration"}
            ELSE {"adapter_unavailable", "invalid_adapter_configuration"}

Select ==
    /\ phase = "select"
    /\ IF Verified(adapters[selector])
       THEN phase' = "attempt" /\ UNCHANGED result
       ELSE \E code \in Unfit(adapters[selector]) : Throw(code, None)
    /\ UNCHANGED <<call, loop, work, late, jobs, trace>>

(* invokeAdapter: the request is made whether or not time is left by then. *)
Invoke ==
    /\ phase = "attempt"
    /\ IF late
       THEN /\ phase' = "failed" /\ UNCHANGED work
            /\ failure' = [code |-> "deadline_exceeded", provider |-> None]
       ELSE /\ phase' = "invoked" /\ work' = [Idle EXCEPT !.step = "submit", !.segment = 1]
            /\ UNCHANGED failure
    /\ UNCHANGED <<call, selector, local, attempts, late, jobs, trace, result>>

-----------------------------------------------------------------------------
(* Continuations of the attempt. *)

Attempted(outcome) == Append(attempts, [selector |-> selector, outcome |-> outcome])

(* The adapter's value: too late, refused by RESULT_VALIDATORS, or traced  *)
(* as a success.                                                           *)
Answer(valid) ==
    /\ work' = Idle
    /\ \/ /\ late
          /\ attempts' = Attempted("deadline_exceeded") /\ phase' = "failed"
          /\ failure' = [code |-> "deadline_exceeded", provider |-> None]
       \/ /\ ~late /\ ~valid
          /\ attempts' = Attempted("validation_error") /\ phase' = "failed"
          /\ failure' = [code |-> "invalid_result", provider |-> None]
       \/ /\ ~late /\ valid
          /\ attempts' = Attempted("success") /\ phase' = "succeeded" /\ UNCHANGED failure
    /\ UNCHANGED <<selector, local>>

Error(code, state, transient) == [code |-> code, state |-> state, transient |-> transient]

(* canUseTtsFallback. *)
CanUseFallback(e) ==
    e.transient /\ e.state = "not_accepted" /\ e.code \in {"rate_limited", "unavailable"}

(* A ModelAdapterError: another attempt, the fallback, or the end. *)
Fail(e) ==
    LET max == IF adapters[selector].max < RouteAttempts
               THEN adapters[selector].max ELSE RouteAttempts
    IN
    /\ work' = Idle
    /\ attempts' = Attempted(IF e.transient THEN "transient_error" ELSE "permanent_error")
    /\ failure' = [code |-> "provider_failure", provider |-> e]
    /\ IF e.transient /\ local < max /\ ~late
       THEN phase' = "attempt" /\ local' = local + 1 /\ UNCHANGED selector
       ELSE IF selector = 1 /\ Route[task].fallback /\ CanUseFallback(e) /\ ~late
       THEN phase' = "select" /\ selector' = 2 /\ local' = 1
       ELSE phase' = "failed" /\ UNCHANGED <<selector, local>>

(* The provider takes the submission, as part of this invocation. *)
Accepted == jobs \cup {[selector |-> selector, attempt |-> local]}
MayAccept == jobs' \in {jobs, Accepted}

At(capability, step) ==
    phase = "invoked" /\ Capability = capability /\ work.step = step

-----------------------------------------------------------------------------
(* What RESULT_VALIDATORS may find of the value an adapter returns. *)
Verdicts == BOOLEAN

(* statusFailure and the request's own errors. *)
TextErrors == {Error("unavailable", "unknown", transient) : transient \in BOOLEAN}

(* LiteLlmHttpClient: one request. *)
Complete ==
    /\ At("structured", "submit")
    /\ \/ \E valid \in Verdicts : Answer(valid)
       \/ \E e \in TextErrors : Fail(e)
    /\ UNCHANGED <<call, late, jobs, trace, result>>

(* The Model Studio embedding adapter: one request; its vectors are        *)
(* checked and put in the order of the inputs before they are returned.    *)
Embed ==
    /\ At("embedding", "submit")
    /\ \/ \E valid \in Verdicts : Answer(valid)
       \/ \E e \in TextErrors : Fail(e)
    /\ UNCHANGED <<call, late, jobs, trace, result>>

(* Mutant of Normalized: an earlier accepted segment is forgotten. *)
NormalizedAlone(e) == e

(* DashScopeModelStudioTtsClient.synthesize: once a segment was accepted   *)
(* the whole submission was.                                               *)
Normalized(e) ==
    IF work.segment > 1 /\ e.state # "accepted" THEN Error(e.code, "accepted", FALSE) ELSE e

Primary == selector = 1

(* A request the provider refuses. *)
Refusals ==
    {Error("rate_limited", "not_accepted", TRUE), Error("invalid_request", "not_accepted", FALSE)}

(* #synthesizeSegment, its POST. *)
SubmitSegment ==
    /\ At("speech", "submit") /\ Primary
    /\ \/ /\ Fail(Normalized(Error("unavailable", "unknown", TRUE))) /\ MayAccept
       \/ /\ \E e \in Refusals : Fail(Normalized(e))
          /\ UNCHANGED jobs
       \/ /\ work' = [work EXCEPT !.step = "fetch"] /\ jobs' = Accepted
          /\ UNCHANGED <<phase, loop>>
    /\ UNCHANGED <<call, late, trace, result>>

(* The audio of the segment; a stream that breaks is not a client error.   *)
FetchSegment ==
    /\ At("speech", "fetch")
    /\ \/ \E state \in {"accepted", "unknown"} : Fail(Error("provider_error", state, FALSE))
       \/ /\ work.segment < Segments /\ UNCHANGED <<phase, loop>>
          /\ work' = [step |-> "submit", segment |-> work.segment + 1, polls |-> 0]
       \/ work.segment = Segments /\ \E valid \in Verdicts : Answer(valid)
    /\ UNCHANGED <<call, late, jobs, trace, result>>

(* Piper: a local process, which takes no submission of a provider. *)
Piper ==
    /\ At("speech", "submit") /\ ~Primary
    /\ \/ Fail(Error("provider_error", "not_accepted", FALSE)) /\ UNCHANGED jobs
       \/ \E valid \in Verdicts : Answer(valid) /\ jobs' = Accepted
    /\ UNCHANGED <<call, late, trace, result>>

(* submit of the Wan and fal video clients.  A server error is reported as *)
(* not accepted.                                                           *)
SubmitVideo ==
    /\ At("video", "submit")
    /\ \/ /\ \E state \in {"unknown", "not_accepted"} : Fail(Error("unavailable", state, TRUE))
          /\ MayAccept
       \/ \E e \in Refusals : Fail(e) /\ UNCHANGED jobs
       \/ Fail(Error("provider_error", "unknown", FALSE)) /\ jobs' = Accepted
       \/ /\ work' = [work EXCEPT !.step = "poll"] /\ jobs' = Accepted
          /\ UNCHANGED <<phase, loop>>
    /\ UNCHANGED <<call, late, trace, result>>

(* Mutant of PollsLeft: one poll too many. *)
PollsLeftInclusive == work.polls <= MaxPolls

PollsLeft == work.polls < MaxPolls

(* poll, waitForCompletion and result. *)
PollVideo ==
    /\ At("video", "poll")
    /\ \/ /\ PollsLeft /\ work' = [work EXCEPT !.polls = @ + 1]
          /\ UNCHANGED <<phase, loop>>
       \/ ~PollsLeft /\ Fail(Error("timeout", "accepted", TRUE))
       \/ /\ PollsLeft
          /\ \/ \E transient \in BOOLEAN : Fail(Error("provider_error", "accepted", transient))
             \/ \E valid \in Verdicts : Answer(valid)
    /\ UNCHANGED <<call, late, jobs, trace, result>>

(* Mutant of Timeout: only a submission is given up. *)
TimeoutOfSubmission ==
    /\ phase = "invoked" /\ late /\ work.step = "submit"
    /\ attempts' = Attempted("deadline_exceeded")
    /\ failure' = [code |-> "deadline_exceeded", provider |-> None]
    /\ phase' = "failed" /\ work' = Idle
    /\ UNCHANGED <<call, selector, local, late, jobs, trace, result>>

(* The timer of withDeadline fires first: the request is aborted, and may  *)
(* have been accepted all the same.                                        *)
Timeout ==
    /\ phase = "invoked" /\ late
    /\ IF work.step = "submit" /\ Capability \in Media /\ Primary THEN MayAccept
       ELSE UNCHANGED jobs
    /\ attempts' = Attempted("deadline_exceeded")
    /\ failure' = [code |-> "deadline_exceeded", provider |-> None]
    /\ phase' = "failed" /\ work' = Idle
    /\ UNCHANGED <<call, selector, local, late, trace, result>>

-----------------------------------------------------------------------------
(* recordTrace: the sink is called in any case, and may store the trace    *)
(* although the router sees it fail.                                       *)
Stored(outcome) == [outcome |-> outcome, attempts |-> attempts]

(* What a trace says of an attempt, and of the call. *)
AttemptTraces ==
    [selector : 1..2,
     outcome : {"success", "validation_error", "transient_error", "permanent_error",
                "deadline_exceeded"}]
Traces == [outcome : {"success", "failure"}, attempts : Seq(AttemptTraces)]

(* Mutant of TraceSuccess: the trace is sent and not awaited. *)
TraceSuccessLater ==
    /\ phase = "succeeded" /\ trace' \in {trace, Stored("success")}
    /\ phase' = "done"
    /\ result' = [kind |-> "value", attempt |-> Len(attempts)]
    /\ UNCHANGED <<call, loop, work, late, jobs>>

TraceSuccess ==
    /\ phase = "succeeded"
    /\ \/ /\ ~late /\ trace' = Stored("success")
          /\ phase' = "done" /\ result' = [kind |-> "value", attempt |-> Len(attempts)]
       \/ trace' \in {trace, Stored("success")} /\ Throw("trace_failure", None)
    /\ UNCHANGED <<call, loop, work, late, jobs>>

(* After the loop: the failure, unless the trace cannot be recorded in     *)
(* time (the deadline's error) or at all (the sink's own error).           *)
TraceFailure ==
    /\ phase = "failed"
    /\ \/ ~late /\ trace' = Stored("failure") /\ Throw(failure.code, failure.provider)
       \/ late /\ trace' \in {trace, Stored("failure")} /\ Throw("deadline_exceeded", None)
       \/ ~late /\ UNCHANGED trace /\ Throw("sink", None)
    /\ UNCHANGED <<call, loop, work, late, jobs>>

Expire ==
    /\ ~late /\ phase # "done" /\ late' = TRUE
    /\ UNCHANGED <<call, phase, loop, work, jobs, trace, result>>

Adapter ==
    Complete \/ Embed \/ SubmitSegment \/ FetchSegment \/ Piper \/ SubmitVideo \/ PollVideo

Next ==
    \/ Gate \/ Select \/ Invoke \/ Adapter \/ Timeout
    \/ TraceSuccess \/ TraceFailure \/ Expire

(* The event loop runs what is due and time passes; providers may be       *)
(* silent.                                                                 *)
Fairness ==
    /\ WF_vars(Gate) /\ WF_vars(Select) /\ WF_vars(Invoke) /\ WF_vars(Expire)
    /\ WF_vars(Timeout) /\ WF_vars(TraceSuccess) /\ WF_vars(TraceFailure)

Spec == Init /\ [][Next]_vars /\ Fairness

-----------------------------------------------------------------------------
(* The attempts are those the policy and the descriptors allow, in the     *)
(* order of the selectors.                                                 *)
TypeOK ==
    /\ phase \in {"gate", "select", "attempt", "invoked", "succeeded", "failed", "done"}
    /\ selector \in 1..2 /\ local \in 1..RouteAttempts /\ late \in BOOLEAN
    /\ attempts \in Seq(AttemptTraces) /\ Len(attempts) <= RouteAttempts * 2
    /\ trace \in Traces \cup {None}
    /\ \A i \in 1..Len(attempts) : attempts[i].selector <= selector
    /\ work.segment <= Segments /\ work.polls <= MaxPolls

(* Of a media request that is not idempotent a provider accepts no part    *)
(* twice in one call: neither a retry nor the fallback follows what was,   *)
(* or may have been, accepted.                                             *)
SubmittedOnce ==
    Capability \in Media /\ ~adapters[1].idempotent /\ ~adapters[2].idempotent
        => Cardinality(jobs) <= 1

(* A value is returned only with the trace of the call stored, whose last  *)
(* attempt is the success that produced it.                                *)
ValueIsTraced ==
    result # None /\ result.kind = "value" =>
        /\ trace # None /\ trace.outcome = "success" /\ trace.attempts = attempts
        /\ attempts[result.attempt].outcome = "success"

(* normalizeFailure of the audio worker, for the router's own errors. *)
RetryableAfter(r) ==
    \/ r.code = "adapter_unavailable"
    \/ /\ r.code = "provider_failure"
       /\ r.provider.transient /\ r.provider.state = "not_accepted"

(* An error the audio worker repeats the call for leaves nothing accepted. *)
RetryIsSafe ==
    Capability = "speech" /\ result # None /\ result.kind = "error" =>
        (RetryableAfter(result) /\ ~adapters[1].idempotent => jobs = {})

(* The call ends by its deadline whatever the provider, the flag and the   *)
(* sink do.                                                                *)
CallEnds == <>(phase = "done")

(* A logical call: media are not submitted twice, values are traced, and   *)
(* what the worker repeats was not accepted.                               *)
CallSound == TypeOK /\ SubmittedOnce /\ ValueIsTraced /\ RetryIsSafe
=============================================================================

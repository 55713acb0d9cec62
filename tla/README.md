# TLA+ verification of Reflo

Reflo turns uploaded course material into chapters, lessons, narrated audio,
quizzes and tutoring. Its parts are TypeScript packages over one PostgreSQL
database, wired into an API process, an outbox relay process, Function Compute
handlers and a web client. Nothing here runs as one thread: requests, polls, a
relay, queue deliveries and two generations of a process work on the same rows at
the same time, any of them can stop half way, and brokers, pollers, operators and
learners repeat what was not answered. The modules in this directory model the
parts whose correctness depends on those interleavings. TLC checks them on small
instances; TLAPS proves the main safety results for every value of the constants.

## 1. Inventory

| Component (code) | State it keeps | Operations | What makes it correct |
|---|---|---|---|
| Outbox relay (`apps/api/src/outbox-relay*.ts`, `rocketmq-adapter.ts`, SQL of migration `20260730000100`) | `outbox_message` rows under a relay lease | claim a batch, send, mark, release | no committed command is lost, duplicates only after faults, nothing is stranded that refused messages do not crowd out |
| Audio generation (`packages/audio`, `audio-generation-repository.ts`, `apps/jobs`) | `async_operation`, its attempts, the asset, terminal events | consume: authorize, claim, synthesize, store, complete or record a failure | one logical effect, terminal is final, the history agrees, no work acknowledged away |
| Dead-letter redrive (`dlq-redrive.ts`, `reflo_*_audio_redrive`) | request and audit rows | receive, inspect, reject, claim, publish, mark, release, acknowledge | every republication audited once, one verdict for an attempt, what became of the request is in its trail, no record acknowledged without it |
| Local ingestion bridge (`local-ingestion-bridge.ts`) | queue, active lease, timers, staged files | execute, heartbeat, lease, stage, complete, expire, close | an execution is in one place, settles once, and settles |
| Course processing (`demo-upload-processing.ts`, `packages/ingestion/src/service.ts`, `ingestion-operation-store.ts`, `demo-upload-repository.ts`) | two durable operations, document and course status | schedule, claim, resolve, finalize, generate, complete, fail, replace | document and course follow their operations, decisions stand, an upload settles |
| Curriculum building (`packages/retrieval`, `content-repository.ts`) | embeddings, manifests, leased segments, curricula | embed, partition, claim and complete a segment, compose, activate | one active curriculum, complete and searchable; a segment worked on by one |
| Activation packages (`packages/activation`, `activation-repository.ts`, `activation-package-processing.ts`) | operation rows and artifacts per generation, promise chains | schedule, register, claim, generate, complete, fail, regenerate | one worker, one artifact, the order of the plan, nothing left to nobody |
| Activation stream (`activation-progress.ts`, `server.ts`) | sources, timers, polls of one page | connect, reconnect, poll, write events | one source at a time, progress never goes back, the end is told |
| Study sessions and placement (`connected-demo-repository.ts`) | sessions, attempts, evidence, masteries | start, resume, load, submit, project, reset | of the sessions that starts open one is active, one attempt for a question, evidence of attempts |
| Study page (`flow-b-study.tsx`) | phase and data | about thirty asynchronous functions | a busy page waits for what is on its way; responses that do not cross leave nothing blank |
| Tutor (`packages/tutor-agent`, `tutor-agent-repository.ts`) | loop rows, lessons, turns | next action, ask | told is recorded, results are earned, a record stays |
| Assessment (`packages/assessment`, `assessment-repository.ts`) | claims, grades, replacements | grade, abstain, replace | one grade per key, projected before it is told |
| Knowledge and reviews (`packages/knowledge-model`, `knowledge-repository.ts`) | evidence, mastery, schedules, overrides | record and replay, override | no evidence is lost to an older replay, a review falls due where evidence, clock and overrides put it |
| Delivery (`packages/delivery`, `delivery-repository.ts`) | deliveries, submissions, attempts, streak | dispatch, finalize answers, acknowledge | sent once, answered once, first answers stand |
| Accounts (`packages/accounts`, `packages/db/src/index.ts`) | links, sessions, quotas, the user row | request link, redeem, authenticate, log out, delete | a link is spent once, one live link, deletion signs out everywhere |
| API server (`apps/api/src/server.ts`) | requests in flight | route, authenticate, check, handle, answer | no change without its authorization, what is told is done |
| Course progress (`getCourseProgress`, `readiness.ts`) | reads, stored scores | progress, exam readiness | an eligible score rests on enough evidence, is stored once for its input, and its marks agree with its count |
| Account page, upload panel (`account-shell.tsx`, `demo-upload-panel.tsx`, `demo-upload.ts`) | selection, loads, timers, uploads | select, retry, archive, submit, poll | shows what was asked for last, follows an upload to its end |
| Model router (`packages/model-router`) | one call | gate, select, invoke, fall back, trace | never submitted twice when it may have been taken, ends by its deadline |
| Document worker (`FunctionRuntimeMain`, `function-compute-session.ts`) | session, chunks, result | upload, parse, download, delete | parsed once, nothing left behind, ends |
| Asset delivery, feature flags, observability, evaluation, infrastructure | reads, presentation, deployment | | not modelled (section 7) |

How they interact: an upload (`UploadPanel`) commits rows and schedules course
processing, which parses through the bridge or the document worker, builds the
curriculum with the model router, and schedules the activation package. The
study page follows that through the stream, starts a session and its placement
quiz; lessons, tutor and short answers go on from there and project evidence into
the knowledge model, whose schedules the delivery service turns into messages.
Narration goes through the outbox, the relay, the broker and the job handler; what
it cannot do ends in the dead-letter queue and the redrive. Everything a browser
asks passes the listener of the API server and its accounts.

What is hard is the same everywhere: a row is claimed, work is done outside the
transaction, and the result is written by whoever comes back. Leases expire while
their holder works, or do not exist; holders of one deployment share a lease
owner; isolation is READ COMMITTED; a process stops between two commits. The lines
where that bites are the hazards of `PROJECT.json`, each with the properties aimed
at it, or with a note that says why there is none or what they leave out.

## 2. How the modules are written

A database transaction is one step where it locks the row it decides on, and
several where a statement of it can wait or reads what others commit meanwhile
(`Accounts`, `ReviewSchedule`, `CourseProgress`, `QuizDelivery`, the start of a `StudySession`). An `await` ends a
step, and everything else may happen there. Time is not counted unless a property
is about it: leases and deadlines lapse at any moment. Results of models, parsers
and providers are choices among the outcomes the code tells apart. Every action
names the function it models; `map` in `PROJECT.json` has the lines. `MC*` modules
name the model values, instantiate further modules beside the one they extend, and
replace no definition.

| Module | Code | State and actions |
|---|---|---|
| `OutboxRelay` | relay and its SQL functions | `row`, `rowOwner`, `rowLease` are the rows; `flight[r]` the batch of a process; `copies` what the broker has. `Claim`, `SendAccepted/Ambiguous/Rejected`, `Mark`, `Release`, `Crash`, `ClaimLapse` |
| `DurablePublication` | abstract | a message is published any number of times, and retired only after that |
| `AudioOperation` | `AudioGenerationService.consume`, repository, job handler | `Authorize`, `ClaimOperation` and its refusals, `Submit`, `Synthesized`, `PutImmutable`, `CompleteAudio`, `RecordFailure`, dispositions; `Push`, `Abort` |
| `DurableOperation` | abstract (ADR 0012) | opened once, one terminal state, one event |
| `DlqRedrive` | `RocketMqDlqRedrive.run` | `Receive`, `Inspect`, `Reject`, `Claim`, `Publish`, `Mark`, `Release`, `Acknowledge`; the consumer is `Work` |
| `LocalBridge` | `LocalIngestionBridgeBroker` | calls that await the file system are two actions; the other host may make any call or none |
| `CourseProcessing` | one upload, processes that overlap | `pc[p]` is the call a process awaits; `Ingests` and `Generates` are the two operations; `Drop` every way of letting go |
| `CurriculumBuild`, `CurriculumPartition`, `CurriculumComposition` | `packages/retrieval`, content repository | builds that overlap over embeddings and leased segments; the loops that cut and compose, one turn a step |
| `Activation` | packages and regenerations | `ops` are the rows, `tail[p]` the promise chain of a process, `run[p]` what it does; `lost` records a crash or a rejected claim |
| `ActivationStream` | browser controller and the server's response | sources by generation, messages in order per source, timers, polls |
| `StudySession`, `StudyPage` | sessions and placement; the page | two transactions per answer; a start is its SELECT and its INSERT, with only other starts kept out; a function is the code between two responses |
| `TutorLoop` | `nextAction`, `ask` | a snapshot is read, decided on, and carried out later |
| `ShortAnswerGrading` | grading under a claim | claim, model, finish under the claim's token, project, answer |
| `ReviewSchedule`, `DeliveryTime` | record and replay; delivery time | statements of one transaction over two rows; hours of a zone with one transition |
| `QuizDelivery` | dispatch and answers | dispatch calls, responders (webhook, polling, email page), streak |
| `Accounts`, `ApiServer` | sign-in; the listener | transactions with row locks and deadlock victims; a request between two awaits |
| `CourseProgress` | progress and readiness | one statement a step, scores in units of a small scale; the snapshot of a score holds the readiness read before |
| `AccountShell`, `UploadPanel` | dashboard; panel and upload service | loads by slot, history, archive; timers, requests that the browser may lose while the service goes on, commit |
| `ModelRouter`, `FunctionSession` | a model call; a worker session | submissions that may have been taken; invocations that are lost, late or repeated |

## 3. Runs

| Run | Instance | What it asks |
|---|---|---|
| `relay_overlap` | 2 relays with the owner of the deployment, 3 messages, batches of 2, two refused for ever, 2 faults | `PublicationSound`, `RefinesPublication`, `NeverStranded` |
| `audio_delivery` | 2 invocations with one lease owner, 2 copies, 2 attempts, 3 pushes | `AttemptsAgree`, `OneEffect`, `RefinesDurable`, `Settles` |
| `course_overlap` | 2 processes, budgets 3 and 2; beside it 2 builds over 2 segments, documents of up to 4 spans, results of up to 2 concepts | `RowsAgree`, `DecidedStays`, `UploadSettles`; `CurriculumSound`, `CurriculumStands`, `SegmentsSound` |
| `background_overlap` | 2 redrive commands, 2 keys, 2 copies; beside it 2 calls over 3 attempts, 1 override, 2 zones | `AuditTells`; `RecordedIsSeen`, `ScheduleFollows` |
| `delivery_answers` | 2 dispatches, 2 keys, 2 channels, 2 responders, 2 schedules, 3 button presses | `OneDelivery`, `AnswersKept`, `FirstAnswerStands` |
| `tutor_session` | 2 tabs, 2 questions to the tutor, 3 lessons, 4 attempts | `ToldIsRecorded`, `LoopSound`, `RecordsStand` |
| `activation_course` | 2 processes, 2 artifacts, 2 attempts, 2 generations, 1 fault, 3 requests; beside it 1 page with 1 reconnect and 2 polls | `WorkKept`, `InOrder`, `OperationsFinish`; `SourceHeld`, `ProgressTold` |
| `study_session` | 2 tabs, 2 questions, 2 sessions, 1 lost projection, 1 reset; beside it the page with 2 overlapping functions | `AttemptsSound`, `PlacementTold`; `PageSound` |
| `platform_requests` | 3 calls of the accounts, 2 routed requests; beside it grading of 2 questions, 2 readers of progress | `SignInSound`, `AnswersSound`; `GradesSound`; `ScoresSound` |
| `web_dashboard` | 2 courses, 2 loads, 4 moves, 1 fault; 3 uploads, 2 submissions | `DashboardSound`, `AnswersArrive` |
| `external_calls` | 3 executions of the bridge, lease calls in turn; one model call over every pair of adapters; one worker session with 3 chunks each way, 2 stray invocations | `ExecutionsHeld`, `ExecutionSettles`; `CallsSound`, `CallsEnd` |
| `bridge_overlap` (violation) | 2 executions, 2 overlapping lease calls | `OneHostLease` |

A run over several components starts in one of them (`part`) and stays there: they
share no state, so that the run is their sum and not their product.
`PlatformSpec` further lets calls of the accounts overlap by three, and routes of
every family by two.

What the properties say, where the name does not: `PublicationSound` adds to types
that a published row was accepted and that a second copy is paid for by a fault.
`AttemptsAgree` is the attempt history against the operation row, that only the
newest attempt writes, and that acknowledged means final. `RowsAgree` ties
histories, document and course to the two operations. `WorkKept` is one worker per
artifact without any lease, one artifact per kind and generation, no chapter with
a quiz ready before its lesson, and while nothing was lost (`lost`) somebody who
will come to every open operation. `InOrder`: an original is claimed after those
before it are final, and what is stored is of the generation active then.
`SignInSound`: links spent once, one live link, no session that survives the
deletion of its account, lifetimes. `NeverStranded`: a message is sent or falls due unless as many refused
ones before it as a batch holds are still within their deadlines (`Crowded`), which
the run reaches: two of its three messages are refused, and the third waits for their
deadlines. `ScheduleFollows`: the delivery time is the base, later ones of active
overrides included, unless an override was appended or cancelled after a replay had
read them (`outdated`), and even then it is the base or the time of an override that
was made. `AttemptsSound`: `OneActive` is about sessions that starts opened; a reset
may put the seeded one beside them. `PageSound`: the half about a blank page
(`NeverBlank`) is about pages where no response was applied while another function
awaited one (`crossed`); the half about spinners (`BusyIsWaiting`) is about all.
`ScoresSound`: among its parts `StoredOnce`, one row for one snapshot with the
readiness in it, and `MarksAgree`, that an answer marks as many of its concepts as
unmapped as its readiness counts, although a generation or a mapping set was replaced
between its statements. `AnswersSound`: a change that is stored was
asked for with origin, session and CSRF token, and a success that is answered was
stored. `RecordedIsSeen`: the last replay written has seen every evidence that a
finished call recorded. Each group's definition lists its parts with a comment.

*Bounds.* Two processes are enough for one to overtake the other, which is what
every fence is about; a third only overtakes an overtaken one. Two copies or calls
give a repeated and a late one. Budgets of 2 or 3 give a first, an overtaken and a
last attempt (the code has 5, 5 and 3). Three messages of which two are refused fill a batch of two
and leave one behind. Counters that only environments count (`MaxFaults`, `MaxRequests`,
`MaxMoves`, `MaxResets`, `MaxUpdates`, `MaxDue`, `MaxGenerations`) bound guards, so
that each event happens, and two of them in either order where that matters.
`WithinBudget` (`MCQuizDelivery`, `MCTutorLoop`) and `OneTrouble`
(`MCCourseProcessing`) cut the state space where everything has happened at once.
Deadlock is not checked, because each of these systems may stop: all messages
published, the upload settled, no request in flight.

*Symmetry* is used only in runs without liveness: of operators, calls, responders,
answers, requests, tabs.

*Fairness.* A relay polls for ever, its sends end, its leases expire. An invocation
finishes or is stopped by the platform's limit, and EventBridge pushes what was not
acknowledged until its retries are spent. Of the bridge, timers and the file system
run and nothing is assumed of the other host. A status poll schedules what is
recoverable, calls return and leases expire in `CourseProcessing`; `Drop` is free,
so that a call gets done only in the sense that a process restarted for ever does
not fail in the same call for ever (strong fairness of `Ingests` and `Generates`).
An API process goes on with the packages it has, because the generation is bounded
by the router's deadline; `Crash` and `Reject` are free. In the browser requests
are answered or fail and timers fire; the learner of one tab (`Loyal`) goes on,
refreshes, and tries each answer, and everybody else may stop. The router and the
worker's client run their continuations and the clock reaches the deadline;
providers and the engine may be silent. Deadlines of operations are never assumed
to pass, leases are never assumed to hold.

Every property of a passing run has a mutant in `PROJECT.json`, a bug of the code's
kind that breaks it: a lease that is not looked at, an attempt left open, a count
taken before the lock, a release that forgets its owner.

## 4. Proofs

TLAPS proves the following for every value of the constants: any number of processes,
messages, invocations, executions, operators, requests and rows, and any budgets. The
assumptions are the named ones of the modules (`RelayAssumption`, `AudioAssumption`,
`RedriveAssumption`, `BridgeAssumption`, `BudgetAssumption`, `AccountsAssumption`,
`ActivationAssumption`, `BuildAssumption`, `BoundsAssumption`, `NullAssumption`,
`ScheduleBounds`, `GradingBounds`, `ActivationBounds`, `ExternalBounds`,
`TutorAssumption`, `StudyAssumption`, `PageAssumption`, `WebAssumption`): that budgets are positive, that
the names for "nothing" are no ordinary value, and what the schema or the code fixes (an
artifact is planned once, the first lesson is part of the plan). TLC evaluates them in
the runs. The two theorems under `OnePollOnly` alone have a hypothesis of their own,
named below.

**`AudioDeliveryProofs`** `RelayIsSound` is `PublicationSound`;
`RelayRefinesPublication` the refinement. `PublishedWasAccepted` needs that a process
which holds an acknowledgement has a copy at the broker to show for it, because `Mark`
does not look at the broker. `DuplicatesExplained` needs a sum (`CopiesPaid`): copies,
relays that still owe the broker a message (`Owing`) and faults balance, step by step,
which is why the set of relays is finite. That a live
claim is one process's alone is no theorem: the owner is one per deployment, and an
older process can release the claim of a newer one (section 5). The second part is
about the operation that the command starts, `AudioOperation`: `OperationRowsAgree` is
`AttemptsAgree`, `ExactlyOneEffect` is `OneEffect`; `FirstTerminalWins` and
`OperationRefinesDurable`. `OpInv` ties events and the asset to the row's state; what
keeps it is that only the row's attempt in `processing` may write. `LedgerInv` adds that
the budget counts the attempts.

**`DlqRedriveProofs`** `AuditIsTrue` is `AuditTells`. `EveryRedriveAudited` is its part
about the trail: every attempt is audited under the stored key, the last one as
published or, when its claim was released, as failed, and a rejected request as
rejected. `OneVerdictEach` is about attempts: none is audited both as published and as
failed. It does not say that a request which was published cannot be rejected later,
which it can (section 5). `RedriveInv` says of the row and
the audit what one tells of the other (`RequestOK`), what every operator at its step
may count on (`RunsOK`), and that a dead-letter record is received at most twice
(`DeliveriesOK`). The commands share one lease owner, as they do in a deployment:
nothing rests on telling them apart. The second part is about `ReviewSchedule` as the
run composes it (`Replay`): `EvidenceIsKept` is `RecordedIsSeen`. `EvidenceInv` says
that a call past the lock of the knowledge state is the one that holds it (`Locking`),
and that what it read of the ledger has everything recorded and its own attempt;
attempts that are committed after that read are nobody's record yet, so they cannot
be missed.

**`LocalBridgeProofs`** `ExecutionHeldOnce`, `ResolvesOnlyStaged` for any
interleaving; `NoExecutionForgotten` and `BridgeHoldsExecutions` (`ExecutionsHeld`)
under `OnePollOnly`, that lease calls do not overlap, without which the code does not
have it (section 5). The invariant says which timer is armed for an execution in each
place; then that a lease call which awaits is alone (`AwaitIsAlone`). The second part
is about the calls across the process boundary as the run composes them:
`CallsAreSound` is `CallsSound`, and `ExternalHoldsExecutions` has `ExecutionsHeld`
for that composition. Of the router `CallInv` says, step by step of a call, what it
still owes the provider and what its traces tell of the attempts made (`AttemptsOK`),
and at which await of the audio worker nothing can have been accepted (`JobsOK`): a
job is submitted again, or handed to the fallback, only from there. Of the isolated
document worker `SessionInv` says that its engine begins once: from the moment the
first chunk is on its way, the only invocations left are its inspection and the
clean-up (`EngineOK`), so that a late invocation finds no session to parse; and that
what the client holds of the output is what the engine has returned, in order
(`OutputOK`).

**`CourseProcessingProofs`** `CourseRowsAgree` is `RowsAgree`, with its parts;
`DecidedForever` is the action property `DecidedStays`. `CallsKnow` is the
strengthening: what a process may count on at its call although another may have claimed
since. `TakenAgrees`, `EndedAgrees` and `LapsedAgrees` say what a claim, an end and a
lapse do to a row and its history, and serve both operations. The second part is about
the build of the curriculum, `CurriculumBuild` as the run composes it (`B`):
`BuildsAreSound` is `CurriculumSound`, `CurriculaStand` the action property
`CurriculumStands`. `BuildInv` is what a build may count on at its step although another
replaces the generation under it (`CallKnows`), that no two builds make the same
embedding (`CallsDiffer`), which state of a curriculum goes with which of its embedding
(`GenerationsSound`), and that who works on a segment does so for a build that is at its
segments (`WorkersSound`). Every step of a worker is first reduced to one change of its
pool (`WorksOn`), for which preservation is proved once.

**`ApiServerProofs`** `SigningInIsSound` is `SignInSound` of `Accounts` under the
listener of `ApiServer`; `AnswersAreSound` is `AnswersSound`. `SignInInv` gives every
call at every step what it has read and what it has locked (`StagesOK`, `LocksHeld`),
so that a link which is being redeemed cannot be invalidated and a session that is
being opened cannot outlive the deletion: the opening either holds the user's row or
sees its status. `AnswersInv` follows a request through the listener: what it has
passed (`PlaceOK`), what it asked of the accounts (`SessionAsked`, `LogoutAsked`,
`DeletionAsked`), and what an answer rests on, which nothing takes back
(`LeavingStays`, `EndedStays`). The second part is about `ShortAnswerGrading` as the
run composes it (`Grading`): `GradesAreSound` is `GradesSound`. `GradesInv` says of a
key what its rows tell of each other (`KeyOK`), that a claim is held for its own
command by a call under way (`TokenOK`), what a call has at its step (`CallOK`), that
no prompt is in the session twice (`AskedOK`), and that mastery is within the ledger.

**`ActivationProofs`** `WorkIsKept` is `WorkKept`, `ClaimedInOrder` is `InOrder`. A
claim has no lease, so everything rests on who holds it. `ActivationInv` is, in its
parts: the rows (`RowOK`; originals are claimed in their order, registered together; all
before a regeneration failed), the artifacts (one for each success, of its attempt), the
processes (`ChainOK`: no key twice; `TodoOK`: a list holds registered operations;
`PackageOK`: the rest of a package is the end of its plan and what comes before is
final; `RegenerationOK`; `ClaimOK` and `ClaimedByOne`: who is at work holds the claim,
and nobody else does), `ReadyAfterQuiz`, and, while nothing was lost, `NothingDropped`:
an operation in `processing` has its process (`Worked`), and every open one is carried
by some chain or by a package whose list still has it (`Carried`). Every step of a
process is one of six moves of its queue (`Stays`, `Grows`, `Ends`, `GoesOn`, `WorksOn`,
`Retries`), and the preservation of the conditions on processes is proved once for the
moves. The second part is about the progress stream as the run composes it:
`SourceIsHeld` is `SourceHeld`, `PageNeverGoesBack` the action property that the version
shown never goes back. The source the controller reads is the newest one it opened, the
newest one has events under way only if it is the one that is read, no poll runs while a
source is read or about to be reopened, and there is room for one more generation as
long as a reconnect is left; that the page cannot go back needs, beyond its own
comparison, that the written versions only grow.

**`QuizDeliveryProofs`** `OneDeliveryEach` is `OneDelivery`, `AnswersAreKept` is
`AnswersKept`, `FirstAnswersStand` the action property. The invariant has two halves,
kept by every step of the other. `DispatchInv` knows of a dispatch at each of its steps
whether the provider has the message (`CallOK`): only the holder of a delivery sends, a
holder that may have been heard never makes it pending again, and of the reservations
that are under way one per provider is inside the advisory lock (`LockHeld`), with picks
that no live delivery has. `AnswerInv` knows what a finalisation answers at each of its
steps (`Opened`, `Past`), that a submission is backed by its attempts (`SubmissionOK`),
and therefore that a replay, a redelivered update or a late response tells nothing that
is not stored. `Grows` says what no step takes back; the conditions on whoever does not
move follow from it. The second part is about `TutorLoop`: `LoopsAreSound` is
`LoopSound`, `ToldStaysRecorded` is `ToldIsRecorded`, `TutorRecordsStand` the action
property `RecordsStand`. A call decides on a snapshot and writes later, so `TutorInv`
says what it may still count on at its await (`JobOK`): the lesson it was to replace is
the one stored under the ordinal before its own, and the attempt its result names
exists; what makes the result earned is what `Proven` reads again when it is written.
`TutorGrows` says what no step takes back, from which the jobs and replies of the other
calls follow.

**`StudyProofs`** `AttemptsAreSound` is `AttemptsSound`, of starts that exclude each other
and no reset: while one goes on, no session is active but the seeded one.
`ToldStaysStored` is the safety half of `PlacementTold`. `SessionInv` ties a tab to the
rows: the request a tab has under way is about the answer that it shows (`TabRight`), only short answers are abstained from and
replaced (`ShortOnly`), and no state accounts for more evidence than there is
(`Counted`), which is a fact about cardinalities. `PageIsSound` is `PageSound` of the
page. `BusyIsWaiting` is inductive with the kinds of request a function may be at;
`NeverBlank` is not: it needs to be known, before the response comes, that the function
which alone awaits one will leave a page that shows something, whether it is answered or
rejected (`Alive`). What a page without functions shows is `Resting`. The third part is
about the dashboard: `DashboardIsSound` is `DashboardSound`. That the address agrees with
what the learner asked for last rests on the newest load: it prefers that course, or the
course was archived before (`Prefers`), because an answer of the library may be old but
only ever has too many courses (`Outdated`); a load that is tried again starts from the
address, so the address has the same choice (`AddressRight`). That a failed upload is
replaced once needs neither the lease nor the guard of the form: it is archived in the
transaction that creates its replacement, and an archived one is not replaced
(`ReplacedGone`).

Only model-checked, and why:

* Liveness (`NeverStranded`, `Settles`, `UploadSettles`, `ExecutionSettles`,
  `OperationsFinish`, `ProgressTold`, `PlacementTold`, `AnswersArrive`, `CallsEnd`)
  rests on fairness and ENABLED, which this prover does not do.
* `DeliveryTime`, `CurriculumPartition`, `CurriculumComposition` and the replays of
  `ReviewSchedule` compute over sequences; what they compute for every input needs
  induction over data, which the installed provers cannot apply.
* `ScoresSound` is about sums over sets of concepts, which are folds: induction over
  data again.

## 5. Findings and disagreements

* **Two overlapping lease calls lose an execution** (run `bridge_overlap`, a finding):
  `lease` of the local bridge tests `#active` before an await and assigns it after.
* The owner of the relay is one per deployment, and release is fenced by it alone: an
  older process can free the claim of a newer one. The price is a duplicate, which
  the consumer absorbs (`OneEffect`).
* As many refused messages as a batch holds are claimed, released and claimed again
  without a pause, because they keep their place in the order: a good message behind
  them waits for their deadlines (`Crowded` in `OutboxRelay`).
* A start and a reset of a study session take different advisory locks,
  (214765003, 163) and (214765003, 162) (`connected-demo-repository.ts:522`, `:983`), and
  no unique index speaks of active sessions: a start that waits for the row a reset
  deletes goes on to insert its own, and two sessions are active (`Overtaken` in
  `StudySession`).
* A poll that began before a placement answer was given and is answered after the result
  is shown clears `placementResult` (`flow-b-study.tsx:686`), and nothing draws the
  phase `placement_result` without it: the page is blank (`crossed` in `StudyPage`).
* An answer that says 200 and cannot be read leaves the upload panel loading for good, and
  a submission "submitting" until another course is selected (`demo-upload-panel.tsx:76`,
  `:337`, `:366`; `ApprovalsFail` and `SubmitUnread` in `UploadPanel`).
* The statements of a progress read see what is committed between them: concepts of one
  generation can stand beside mappings of another, an eligible score beside concepts
  that are all marked as unmapped, and two such reads store two rows, because their
  readiness differs (`CourseProgress`).
* The job handler answers `dead_letter` for outcomes that leave the operation open, and
  a redrive rejects the record of an operation in `processing`: ADR 0012 has it
  finalized first.
* After an invocation is lost inside synthesis the next one submits again.
* A second dead-letter record under a published key turns the request into a rejected
  one; the first outcome stays in the audit only.
* An activation whose process dies after a claim is never taken up again: the claim has
  no lease and startup recovery does not look for it (`lost` in `Activation`). Nor
  does startup recovery find a course whose activation was never scheduled.
* `persistCurriculum` stores a chapter as ready when it is composed (`Composed` in
  `Activation`), before it has any lesson. "Ready" is therefore no promise of content:
  `ReadyAfterQuiz` can speak only of a chapter whose quiz is stored.
* A placement question whose evidence is not projected can be asked again, and the page
  cannot replay the answer it was given (it was given in an earlier session, or later
  questions are answered already): `Stranded` in `StudySession`, which
  `PlacementEnds` leaves out by name.
* An override that is appended between the read and the write of a replay is not in what
  the replay writes, and one that is cancelled there still is, until the next replay or
  override (`outdated` in `ReviewSchedule`); ADR 0033 (`:193`) has the delivery time be
  the maximum of the base and every active override. A search for the context of a question finds nothing
  while a newer embedding is active than the one its curriculum was composed over
  (`CurriculumBuild`).
* A Telegram update whose handling fails for good with a code other than the one that
  polling skips is polled again for ever (a hazard with a note, no property).
* ADR 0036 (`docs/adrs/0036-*.md:213`) has circles of prerequisites rejected; two
  segments without a circle can be composed into a curriculum with one. `SegmentsSound`
  bounds it: such a circle goes through a merged concept.

Only the first has a run of its own; of the others the model shows the behaviour and
its comments name it, and the properties say what holds nevertheless.

## 6. What is left

In the order in which it would be taken up: that `CurriculumBuild` refines the one curriculum build of `CourseProcessing`; a
composition of relay, operation and redrive over one command.

## 7. Not modelled

Components with status `not_modelled` in `PROJECT.json`, with the reason there: asset
delivery, feature flags and observability compute and keep next to no state;
evaluation, smoke tests and infrastructure are tools and deployment. In the modelled
parts: tokens, signatures and validation of payloads, wording, layout and logging; the
floating-point arithmetic of FSRS; parsing and chunking of documents; prompts and the
content of lessons and quizzes; the adaptive choice of questions; `cancelled` and
`expired` operations, which no code writes; retention, which no code ends; the removal
of a staged file failing in the bridge; the promise chain of uploads within one API
process, of which one upload is seen.

-------------------------- MODULE CourseProcessing --------------------------
(***************************************************************************)
(* From an uploaded document to a course outline:                          *)
(* DemoUploadProcessingService (apps/api/src/demo-upload-processing.ts)    *)
(* runs IngestionSupervisor.execute (packages/ingestion/src/service.ts)    *)
(* and then the curriculum builder, over two durable operations of the     *)
(* database, ingestion.parse (ingestion-operation-store.ts) and            *)
(* curriculum.generate (demo-upload-repository.ts).                        *)
(*                                                                         *)
(* One upload, whose rows DemoUploadRepository.create has committed.  An   *)
(* API process works on it at most once at a time (#scheduled, #tail), but *)
(* a process and its replacement can overlap, and both claim under the     *)
(* same lease owner, so a claim is told from another only by its lease     *)
(* being alive.                                                            *)
(***************************************************************************)
EXTENDS Naturals

CONSTANTS
    Processes,   \* API processes
    MaxIngest,   \* MAX_DELIVERIES = MAX_INGESTION_DELIVERIES, 5 in the code
    MaxGenerate  \* MAX_GENERATION_DELIVERIES, 3 in the code

ASSUME BudgetAssumption == MaxIngest \in Nat \ {0} /\ MaxGenerate \in Nat \ {0}

VARIABLES
    ing,       \* the ingestion operation: [state, lease, tries]
    ingLog,    \* ingLog[n]: outcome of its attempt n
    result,    \* result_ref of the ingestion operation
    source,    \* source_document.parse_status
    gen,       \* the generation operation
    genLog,
    course,    \* course.status
    overdue,   \* deadlines that have passed
    allowed,   \* the requesting owner's membership, by which row security
               \* shows the rows; no code ends the retention of a document
    activated, \* the activation of the course was scheduled
    pc,        \* pc[p]: the call #process awaits
    round,     \* round[p]: delivery of #runIngestion; MaxIngest + 1 is its
               \* last, reconciling call
    proposed   \* proposed[p]: outcome of its parsing, or of its building

dbVars == <<ing, ingLog, result, source, gen, genLog, course>>
worldVars == <<overdue, allowed, activated>>
vars == <<dbVars, worldVars, pc, round, proposed>>

Terminal == {"succeeded", "failed_permanent"}
OpStates == {"queued", "processing", "retry_scheduled"} \cup Terminal
Unfinished == OpStates \ Terminal

(* Outcomes of parsing: a document, a scan that needs OCR, a retryable     *)
(* failure (infrastructure_unavailable), any other failure.                *)
Outcomes == {"parsed", "ocr_required", "retry", "failed"}

Fresh == [state |-> "queued", lease |-> "none", tries |-> 0]

Init ==
    /\ ing = Fresh /\ gen = Fresh
    /\ ingLog = [n \in 1..MaxIngest |-> "none"]
    /\ genLog = [n \in 1..MaxGenerate |-> "none"]
    /\ result = "none" /\ source = "quarantined" /\ course = "generating"
    /\ overdue = {} /\ allowed = TRUE /\ activated = FALSE
    /\ pc = [p \in Processes |-> "idle"]
    /\ round = [p \in Processes |-> 1]
    /\ proposed = [p \in Processes |-> "none"]

-----------------------------------------------------------------------------
(* Operations of the two rows. *)

Live(op) == op.state = "processing" /\ op.lease = "live"

Spent(op, max, name) == op.tries >= max \/ name \in overdue

(* Mutant of Ended: lease_expires_at is not cleared. *)
EndedLeased(op, s) == [state |-> s, lease |-> op.lease, tries |-> op.tries]

Ended(op, s) == [state |-> s, lease |-> "none", tries |-> op.tries]

Taken(op) == [state |-> "processing", lease |-> "live", tries |-> op.tries + 1]

(* The attempt that is started is closed; others keep their outcome. *)
Closed(log, op, s) ==
    [n \in DOMAIN log |-> IF n = op.tries /\ log[n] = "started" THEN s ELSE log[n]]

Started(log, op) == [log EXCEPT ![op.tries + 1] = "started"]

Goto(p, call) == pc' = [pc EXCEPT ![p] = call]

Propose(p, outcome, call) ==
    proposed' = [proposed EXCEPT ![p] = outcome] /\ Goto(p, call)

-----------------------------------------------------------------------------
(* Mutant of Recoverable: an operation somebody began is taken to be done. *)
RecoverableNotStarted ==
    /\ allowed /\ course = "generating"
    /\ \/ ing.state \in {"queued", "retry_scheduled"}
          /\ source \in {"quarantined", "queued", "parsing"}
       \/ ing.state = "succeeded" /\ source = "parsed"
          /\ gen.state \in {"queued", "retry_scheduled"}

(* #processingWork: what startup recovery and a status poll find to do. *)
Recoverable ==
    /\ allowed /\ course = "generating"
    /\ \/ ing.state \in Unfinished /\ source \in {"quarantined", "queued", "parsing"}
       \/ ing.state = "succeeded" /\ source = "parsed" /\ gen.state \in Unfinished

(* schedule, by create, at startup or on a status poll. *)
Schedule(p) ==
    /\ pc[p] = "idle" /\ Recoverable
    /\ Goto(p, "ingest")
    /\ round' = [round EXCEPT ![p] = 1]
    /\ UNCHANGED <<dbVars, worldVars, proposed>>

(* The process stops, the database fails, or #process has polled a live    *)
(* lease for long enough: the work is dropped.                             *)
Drop(p) ==
    /\ pc[p] # "idle"
    /\ Goto(p, "idle")
    /\ UNCHANGED <<dbVars, worldVars, round, proposed>>

(* The rows a call asks for are not there, or not in the state it asks     *)
(* for: it throws, and schedule swallows what #process throws.  Nor is the *)
(* reconciling call repeated when it finds a live lease.                   *)
Refused(p) ==
    /\ \/ pc[p] = "ingest" /\ ~allowed
       \/ pc[p] = "ingest" /\ Live(ing) /\ round[p] > MaxIngest
       \/ pc[p] = "readback" /\ ~(allowed /\ result # "none")
       \/ pc[p] = "generate" /\ ~(allowed /\ source = "parsed")
       \/ pc[p] = "fail" /\ ~(allowed /\ Live(gen))
    /\ Goto(p, "idle")
    /\ UNCHANGED <<dbVars, worldVars, round, proposed>>

(* What #runIngestion and #process do with an outcome.  The reconciling    *)
(* call after the last delivery is not repeated.                           *)
Reports(p, outcome) ==
    /\ Goto(p, IF outcome = "parsed" THEN "generate"
               ELSE IF outcome = "retry" /\ round[p] <= MaxIngest THEN "ingest"
               ELSE "idle")
    /\ round' = [round EXCEPT ![p] = IF outcome = "retry" /\ @ <= MaxIngest THEN @ + 1 ELSE @]

(* claim: a finished operation returns its stored outcome. *)
IngestDone(p) ==
    /\ pc[p] = "ingest" /\ allowed /\ ing.state \in Terminal
    /\ Reports(p, result)
    /\ UNCHANGED <<dbVars, worldVars, proposed>>

(* Mutant of IngestExhausted: the source document is forgotten. *)
IngestExhaustedOnly(p) ==
    /\ pc[p] = "ingest" /\ allowed
    /\ ing.state \in Unfinished /\ ~Live(ing) /\ Spent(ing, MaxIngest, "ing")
    /\ ing' = Ended(ing, "failed_permanent")
    /\ ingLog' = Closed(ingLog, ing, "failed_permanent")
    /\ result' = "failed"
    /\ Goto(p, "idle")
    /\ UNCHANGED <<source, gen, genLog, course, worldVars, round, proposed>>

(* claim: the budget or the deadline is spent; the operation fails. *)
IngestExhausted(p) ==
    /\ pc[p] = "ingest" /\ allowed
    /\ ing.state \in Unfinished /\ ~Live(ing) /\ Spent(ing, MaxIngest, "ing")
    /\ ing' = Ended(ing, "failed_permanent")
    /\ ingLog' = Closed(ingLog, ing, "failed_permanent")
    /\ result' = "failed" /\ source' = "failed"
    /\ Goto(p, "idle")
    /\ UNCHANGED <<gen, genLog, course, worldVars, round, proposed>>

(* Mutant of IngestClaim: the overtaken attempt is left open. *)
IngestClaimOnly(p) ==
    /\ pc[p] = "ingest" /\ allowed
    /\ ing.state \in Unfinished /\ ~Live(ing) /\ ~Spent(ing, MaxIngest, "ing")
    /\ ing' = Taken(ing)
    /\ ingLog' = Started(ingLog, ing)
    /\ result' = "none"
    /\ Goto(p, "resolve")
    /\ UNCHANGED <<source, gen, genLog, course, worldVars, round, proposed>>

(* claim: the next attempt, closing one whose lease expired.  While a live *)
(* lease is in the way the process polls, or gives up (Drop).              *)
IngestClaim(p) ==
    /\ pc[p] = "ingest" /\ allowed
    /\ ing.state \in Unfinished /\ ~Live(ing) /\ ~Spent(ing, MaxIngest, "ing")
    /\ ing' = Taken(ing)
    /\ ingLog' = Started(Closed(ingLog, ing, "retry_scheduled"), ing)
    /\ result' = "none"
    /\ Goto(p, "resolve")
    /\ UNCHANGED <<source, gen, genLog, course, worldVars, round, proposed>>

(* resolveAuthorizedSource, before and after the work: by lease, not by    *)
(* attempt.  Without a row the outcome is authorization_denied.            *)
Resolvable == allowed /\ Live(ing) /\ source \in {"quarantined", "queued", "parsing"}

Resolve(p) ==
    /\ pc[p] = "resolve"
    /\ \/ Resolvable /\ source' = "parsing" /\ Goto(p, "parse") /\ UNCHANGED proposed
       \/ ~Resolvable /\ Propose(p, "failed", "finalize") /\ UNCHANGED source
       \/ Propose(p, "retry", "finalize") /\ UNCHANGED source  \* the database fails
    /\ UNCHANGED <<ing, ingLog, result, gen, genLog, course, worldVars, round>>

(* Staging, scanning and the isolated worker. *)
Parse(p) ==
    /\ pc[p] = "parse"
    /\ \/ \E o \in {"parsed", "ocr_required"} : Propose(p, o, "publish")
       \/ \E o \in {"retry", "failed"} : Propose(p, o, "finalize")
    /\ UNCHANGED <<dbVars, worldVars, round>>

(* Resolved once more, the artifact is published.  Publishing may fail;     *)
(* the database or the clean-up of the workspace may in any case.          *)
Publish(p) ==
    /\ pc[p] = "publish"
    /\ \/ /\ Resolvable /\ source' = "parsing"
          /\ \E o \in {proposed[p], "retry", "failed"} : Propose(p, o, "finalize")
       \/ ~Resolvable /\ Propose(p, "failed", "finalize") /\ UNCHANGED source
       \/ Propose(p, "retry", "finalize") /\ UNCHANGED source
    /\ UNCHANGED <<ing, ingLog, result, gen, genLog, course, worldVars, round>>

IngestState(outcome) ==
    IF outcome = "retry" THEN "retry_scheduled"
    ELSE IF outcome = "failed" THEN "failed_permanent" ELSE "succeeded"

(* Mutant of Finalizable: the state of the operation is not looked at. *)
FinalizableAnyState == allowed

(* finalize asks for a live lease of the shared owner. *)
Finalizable == allowed /\ Live(ing)

Finalize(p) ==
    /\ pc[p] = "finalize"
    /\ \/ /\ Finalizable
          /\ ing' = Ended(ing, IngestState(proposed[p]))
          /\ ingLog' = Closed(ingLog, ing, IngestState(proposed[p]))
          /\ result' = proposed[p]
          /\ source' = IF proposed[p] = "retry" THEN "queued" ELSE proposed[p]
          /\ Reports(p, proposed[p])
       \/ /\ ~Finalizable
          /\ Goto(p, "readback")
          /\ UNCHANGED <<ing, ingLog, result, source, round>>
    /\ UNCHANGED <<gen, genLog, course, worldVars, proposed>>

(* readCompleted: whatever result_ref holds, a scheduled retry included.   *)
(* Without one the call throws.                                            *)
Readback(p) ==
    /\ pc[p] = "readback" /\ allowed /\ result # "none"
    /\ Reports(p, result)
    /\ UNCHANGED <<dbVars, worldVars, proposed>>

-----------------------------------------------------------------------------
(* scheduleActivation, whose failure is swallowed. *)
Activates == activated' \in {activated, TRUE}

(* claimCourseGeneration: finished, or the course has its outline already. *)
GenerateDone(p) ==
    /\ pc[p] = "generate" /\ allowed /\ source = "parsed"
    /\ \/ /\ gen.state \in Terminal \/ course = "failed"
          /\ UNCHANGED <<gen, genLog>>
       \/ /\ gen.state \in Unfinished /\ course = "ready"
          /\ gen' = Ended(gen, "succeeded")
          /\ genLog' = Closed(genLog, gen, "succeeded")
    /\ Activates /\ Goto(p, "idle")
    /\ UNCHANGED <<ing, ingLog, result, source, course, overdue, allowed, round, proposed>>

Generatable(p) ==
    /\ pc[p] = "generate" /\ allowed /\ source = "parsed"
    /\ gen.state \in Unfinished /\ course \notin {"failed", "ready"} /\ ~Live(gen)

(* The course fails with its operation unless it is ready already. *)
CourseFails == course' = IF course = "generating" THEN "failed" ELSE course

GenerateExhausted(p) ==
    /\ Generatable(p) /\ Spent(gen, MaxGenerate, "gen")
    /\ gen' = Ended(gen, "failed_permanent")
    /\ genLog' = Closed(genLog, gen, "failed_permanent")
    /\ CourseFails /\ Activates /\ Goto(p, "idle")
    /\ UNCHANGED <<ing, ingLog, result, source, overdue, allowed, round, proposed>>

GenerateClaim(p) ==
    /\ Generatable(p) /\ ~Spent(gen, MaxGenerate, "gen")
    /\ gen' = Taken(gen)
    /\ genLog' = Started(Closed(genLog, gen, "retry_scheduled"), gen)
    /\ Goto(p, "build")
    /\ UNCHANGED <<ing, ingLog, result, source, course, worldVars, round, proposed>>

(* buildCurriculum commits the outline and makes the course ready; it does *)
(* not know of the lease.  It may fail before or after that commit.        *)
Build(p) ==
    /\ pc[p] = "build"
    /\ \/ /\ allowed /\ course \in {"generating", "ready"}
          /\ course' = "ready"
          /\ \/ Goto(p, "complete") /\ UNCHANGED proposed
             \/ Propose(p, "retry", "fail")
       \/ /\ \E o \in {"retry", "failed"} : Propose(p, o, "fail")
          /\ UNCHANGED course
    /\ UNCHANGED <<ing, ingLog, result, source, gen, genLog, worldVars, round>>

(* completeCourseGeneration; when it throws the attempt is failed. *)
Complete(p) ==
    /\ pc[p] = "complete"
    /\ \/ /\ allowed /\ Live(gen) /\ course = "ready"
          /\ gen' = Ended(gen, "succeeded")
          /\ genLog' = Closed(genLog, gen, "succeeded")
          /\ Activates /\ Goto(p, "idle") /\ UNCHANGED proposed
       \/ Propose(p, "retry", "fail") /\ UNCHANGED <<gen, genLog, activated>>
    /\ UNCHANGED <<ing, ingLog, result, source, course, overdue, allowed, round>>

(* Mutant of FailGeneration: the course fails with a retryable attempt too. *)
FailGenerationCourse(p) ==
    /\ pc[p] = "fail" /\ allowed /\ Live(gen)
    /\ LET retry == proposed[p] = "retry" /\ ~Spent(gen, MaxGenerate, "gen")
           s == IF retry THEN "retry_scheduled" ELSE "failed_permanent"
       IN /\ gen' = Ended(gen, s)
          /\ genLog' = Closed(genLog, gen, s)
          /\ Goto(p, IF retry THEN "generate" ELSE "idle")
    /\ CourseFails
    /\ UNCHANGED <<ing, ingLog, result, source, worldVars, round, proposed>>

(* failCourseGenerationAttempt; it throws without a live lease. *)
FailGeneration(p) ==
    /\ pc[p] = "fail" /\ allowed /\ Live(gen)
    /\ LET retry == proposed[p] = "retry" /\ ~Spent(gen, MaxGenerate, "gen")
           s == IF retry THEN "retry_scheduled" ELSE "failed_permanent"
       IN /\ gen' = Ended(gen, s)
          /\ genLog' = Closed(genLog, gen, s)
          /\ IF retry THEN UNCHANGED course ELSE CourseFails
          /\ Goto(p, IF retry THEN "generate" ELSE "idle")
    /\ UNCHANGED <<ing, ingLog, result, source, worldVars, round, proposed>>

-----------------------------------------------------------------------------
LeaseLapse ==
    /\ \/ Live(ing) /\ ing' = [ing EXCEPT !.lease = "lapsed"] /\ UNCHANGED gen
       \/ Live(gen) /\ gen' = [gen EXCEPT !.lease = "lapsed"] /\ UNCHANGED ing
    /\ UNCHANGED <<ingLog, result, source, genLog, course, worldVars, pc, round, proposed>>

DeadlinePass ==
    /\ \E name \in {"ing", "gen"} \ overdue : overdue' = overdue \cup {name}
    /\ UNCHANGED <<dbVars, allowed, activated, pc, round, proposed>>

(* The membership of the owner is revoked. *)
Withdraw ==
    /\ allowed /\ allowed' = FALSE
    /\ UNCHANGED <<dbVars, overdue, activated, pc, round, proposed>>

(* create, for a new upload of the same file in place of this one: it      *)
(* archives this course, if the upload has failed.                         *)
Replace ==
    /\ allowed /\ course # "archived"
    /\ course = "failed" \/ source = "failed" \/ ing.state = "failed_permanent"
    /\ course' = "archived"
    /\ UNCHANGED <<ing, ingLog, result, source, gen, genLog, worldVars, pc, round, proposed>>

Ingests(p) ==
    \/ IngestDone(p) \/ IngestExhausted(p) \/ IngestClaim(p) \/ Resolve(p) \/ Parse(p)
    \/ Publish(p) \/ Finalize(p) \/ Readback(p)

Generates(p) ==
    \/ GenerateDone(p) \/ GenerateExhausted(p) \/ GenerateClaim(p) \/ Build(p)
    \/ Complete(p) \/ FailGeneration(p)

Next ==
    \/ LeaseLapse \/ DeadlinePass \/ Withdraw \/ Replace
    \/ \E p \in Processes : Schedule(p) \/ Drop(p) \/ Refused(p) \/ Ingests(p) \/ Generates(p)

(* A status poll schedules what is recoverable again and again, calls      *)
(* return, leases and deadlines expire.  Drop is not fair: a process that  *)
(* stops or throws does so when it likes.                                  *)
Fairness ==
    /\ WF_vars(LeaseLapse)
    /\ \A p \in Processes : /\ WF_vars(Schedule(p)) /\ WF_vars(Refused(p))
                            /\ SF_vars(Ingests(p)) /\ SF_vars(Generates(p))

Spec == Init /\ [][Next]_vars /\ Fairness

-----------------------------------------------------------------------------
Calls == {"idle", "ingest", "resolve", "parse", "publish", "finalize", "readback",
          "generate", "build", "complete", "fail"}
LogEntries == {"none", "started", "retry_scheduled"} \cup Terminal

(* The values of every variable, with the CHECK constraint of the rows: a  *)
(* lease while processing and only then.                                   *)
TypeOK ==
    /\ ing \in [state : OpStates, lease : {"none", "live", "lapsed"}, tries : 0..MaxIngest]
    /\ gen \in [state : OpStates, lease : {"none", "live", "lapsed"}, tries : 0..MaxGenerate]
    /\ ingLog \in [1..MaxIngest -> LogEntries] /\ genLog \in [1..MaxGenerate -> LogEntries]
    /\ result \in Outcomes \cup {"none"}
    /\ source \in {"quarantined", "queued", "parsing", "parsed", "ocr_required", "failed"}
    /\ course \in {"generating", "ready", "failed", "archived"}
    /\ overdue \subseteq {"ing", "gen"} /\ allowed \in BOOLEAN /\ activated \in BOOLEAN
    /\ pc \in [Processes -> Calls]
    /\ round \in [Processes -> 1..(MaxIngest + 1)]
    /\ proposed \in [Processes -> Outcomes \cup {"none"}]
    /\ ing.state = "processing" <=> ing.lease # "none"
    /\ gen.state = "processing" <=> gen.lease # "none"

(* The attempt rows agree with the operation: attempts up to the count are *)
(* recorded, the last one is open just while the operation is processing,  *)
(* and every earlier one was closed for a retry.                           *)
LogAgrees(op, log) ==
    \A n \in DOMAIN log :
        /\ n > op.tries => log[n] = "none"
        /\ n < op.tries => log[n] = "retry_scheduled"
        /\ n = op.tries => \/ op.state = "processing" /\ log[n] = "started"
                           \/ op.state \in Terminal /\ log[n] \in {op.state, "retry_scheduled"}
                           \/ op.state = "retry_scheduled" /\ log[n] = "retry_scheduled"

(* Overlapping processes under one lease owner leave a consistent history  *)
(* of both operations, whoever of them claims, overtakes or finalizes.     *)
HistoriesAgree == LogAgrees(ing, ingLog) /\ LogAgrees(gen, genLog)

(* The document says what its operation says, however late a finalization, *)
(* a second resolve or an exhausted claim comes.                           *)
DocumentFollows ==
    /\ source \in {"parsed", "ocr_required"} <=> ing.state = "succeeded"
    /\ source = "failed" <=> ing.state = "failed_permanent"
    /\ ing.state = "retry_scheduled" => source = "queued"
    /\ ing.state \in Terminal => result = source

(* A course is decided only for a parsed document; it fails only with its  *)
(* generation, a successful generation has its outline, and only a failed  *)
(* upload is archived for its replacement.                                 *)
CourseFollows ==
    /\ course \in {"ready", "failed"} \/ gen.tries > 0 => source = "parsed"
    /\ course = "failed" => gen.state = "failed_permanent"
    /\ course = "archived" => source = "failed" \/ gen.state = "failed_permanent"
    /\ gen.state = "succeeded" => course = "ready"

(* An outline that was committed stays, and a finished operation never     *)
(* changes: a stale process or a replacement cannot reopen or reverse it.  *)
DecidedStays ==
    [][ /\ course = "ready" => course' = "ready"
        /\ course # "generating" => course' \in {course, "archived"}
        /\ ing.state \in Terminal => ing' = ing /\ source' = source
        /\ gen.state \in Terminal => gen' = gen ]_vars

(* While access lasts, an upload is parsed and its course decided, or its  *)
(* parsing fails, though processes crash, overlap and lose their leases.   *)
UploadSettles ==
    <>(\/ ~allowed
       \/ ing.state \in Terminal /\ (source = "parsed" => course # "generating"))

(* The rows of both operations, their attempts, the document and the       *)
(* course agree in every interleaving.                                     *)
RowsAgree == TypeOK /\ HistoriesAgree /\ DocumentFollows /\ CourseFollows
=============================================================================

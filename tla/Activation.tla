----------------------------- MODULE Activation -----------------------------
(***************************************************************************)
(* The activation package of a course: a first lesson, a placement quiz    *)
(* and a chapter quiz.  Each is an operation row of one curriculum         *)
(* generation; a failed one may be regenerated by the learner, which adds  *)
(* an operation of the next ordinal.  API processes run the operations     *)
(* from a queue of their own (ActivationPackageProcessingQueue): a package *)
(* runs the originals in order of priority, a regeneration runs its row.   *)
(*                                                                         *)
(* A claim has no lease: a row that is processing is run by the process    *)
(* that claimed it or by nobody.  `lost` records that a process crashed or *)
(* that a transaction of a claim was rejected, which the code does not     *)
(* repair; the properties say what holds until then, and what even after.  *)
(***************************************************************************)
EXTENDS Naturals, Sequences, FiniteSets

CONSTANTS
    Processes,       \* API processes
    Kinds,           \* the artifacts of a package in order of priority
    Keys,            \* request keys of regenerations
    MaxAttempts,     \* attempts of an operation: 5 in the code
    MaxOrdinal,      \* bound on the regenerations of an artifact
    MaxGenerations,  \* bound on the curriculum generations of the course
    MaxFaults,       \* bound on crashes, rejected transactions and rebuilds of the course
    MaxRequests,     \* bound on the requests that schedule work
    None

VARIABLES
    generation,  \* course.active_curriculum_generation_id
    ops,         \* activation_generation_operation: id -> row
    artifacts,   \* asset and quiz_bank rows: the operation and attempt that wrote each
    chapter,     \* chapter.generation_status of the first chapter of a generation
    tail,        \* process -> the work scheduled on its promise chain, the head running
    run,         \* process -> the state of #process or #runOperation
    faults,      \* crashes, rejected transactions and rebuilds so far
    requests,    \* requests so far
    lost         \* a claim or scheduled work was dropped

database == <<generation, ops, artifacts, chapter>>
queues == <<tail, run>>
vars == <<database, queues, faults, requests, lost>>

-----------------------------------------------------------------------------
Generations == 1..MaxGenerations
Artifacts == {Kinds[i] : i \in DOMAIN Kinds}
Ids == [gen : Generations, kind : Artifacts, ordinal : 0..MaxOrdinal]
Id(gen, kind, ordinal) == [gen |-> gen, kind |-> kind, ordinal |-> ordinal]
Priority(kind) == CHOOSE i \in DOMAIN Kinds : Kinds[i] = kind

Final == {"succeeded", "failed_permanent"}
Claimable == {"queued", "retry_scheduled"}
Open == Claimable \cup {"processing"}

Row(status, attempts, failure, key) ==
    [status |-> status, attempts |-> attempts, failure |-> failure, key |-> key]
Absent == Row("none", 0, None, None)
Queued(key) == Row("queued", 0, None, key)

ASSUME ActivationAssumption ==
    /\ Kinds \in Seq({"first_text_lesson", "placement_quiz", "chapter_quiz"})
    /\ \A i, j \in DOMAIN Kinds : Kinds[i] = Kinds[j] => i = j
    /\ "first_text_lesson" \in Artifacts
    /\ None \notin Keys
    /\ MaxAttempts \in Nat \ {0} /\ MaxOrdinal \in Nat /\ MaxGenerations \in Nat \ {0}
    /\ MaxFaults \in Nat /\ MaxRequests \in Nat

(* normalizeFailure: the class stored for an error of the generation, and *)
(* whether another attempt may help.  One class of either sort.           *)
Failures ==
    { [class |-> "provider_failure", retryable |-> TRUE],
      [class |-> "authorization_denied", retryable |-> FALSE] }

(* REGENERABLE_FAILURES: the classes after which the learner may ask for *)
(* another operation.                                                    *)
Regenerable ==
    {"content_out_of_bounds", "deadline_exceeded", "infrastructure_unavailable", "invalid_result",
     "provider_failure"}

Package == [what |-> "package"]
Regeneration(id, view) == [what |-> "regeneration", id |-> id, view |-> view]

At(pc, gen, todo, attempt, failure) ==
    [pc |-> pc, gen |-> gen, todo |-> todo, attempt |-> attempt, failure |-> failure]
Idle == At("idle", 0, <<>>, 0, None)
Running(todo) == At("operation", 0, todo, 0, None)
Item(id, view) == [id |-> id, view |-> view]

(* The status persistCurriculum gives a chapter, before it has an artifact. *)
Composed == "ready"

Init ==
    /\ generation = 1
    /\ ops = [id \in Ids |-> Absent]
    /\ artifacts = {}
    /\ chapter = [g \in Generations |-> IF g = 1 THEN Composed ELSE "pending"]
    /\ tail = [p \in Processes |-> <<>>]
    /\ run = [p \in Processes |-> Idle]
    /\ faults = 0 /\ requests = 0 /\ lost = FALSE

-----------------------------------------------------------------------------
(* The queue of a process.                                                 *)
(***************************************************************************)

(* #scheduled of a process: the keys of the work that has not ended. *)
Key(work) == IF work.what = "package" THEN Package ELSE work.id
Scheduled(p) == {Key(tail[p][i]) : i \in DOMAIN tail[p]}

ChainedAgain(p, work) == tail' = [tail EXCEPT ![p] = Append(@, work)]

Chained(p, work) ==
    tail' = [tail EXCEPT ![p] = IF Key(work) \in Scheduled(p) THEN @ ELSE Append(@, work)]

Requested == requests < MaxRequests /\ requests' = requests + 1

(* schedule: at the start of a study session and after an upload is ready. *)
Schedule(p) ==
    /\ Requested
    /\ Chained(p, Package)
    /\ UNCHANGED <<database, run, faults, lost>>

(* The last stage of the chain: catch and finally take the work off. *)
Ended(p) ==
    /\ tail' = [tail EXCEPT ![p] = Tail(@)]
    /\ run' = [run EXCEPT ![p] = Idle]

NextOperationStops(p) == Ended(p)

(* One work ended or, of a package with more operations, the next follows. *)
NextOperation(p) ==
    IF Len(run[p].todo) = 1
    THEN Ended(p)
    ELSE /\ run' = [run EXCEPT ![p] = Running(Tail(run[p].todo))]
         /\ UNCHANGED tail

(* plan, first half: loadCourse reads the active generation. *)
BeginPackage(p) ==
    /\ tail[p] # <<>> /\ run[p].pc = "idle" /\ Head(tail[p]) = Package
    /\ run' = [run EXCEPT ![p] = At("register", generation, <<>>, 0, None)]
    /\ UNCHANGED <<database, tail, faults, requests, lost>>

(* A regeneration starts from the row its registration returned. *)
BeginRegeneration(p) ==
    /\ tail[p] # <<>> /\ run[p].pc = "idle" /\ Head(tail[p]) # Package
    /\ run' = [run EXCEPT ![p] = Running(<<Item(Head(tail[p]).id, Head(tail[p]).view)>>)]
    /\ UNCHANGED <<database, tail, faults, requests, lost>>

(* buildActivationPlan: the originals of a generation, by priority. *)
Planned(gen) == [i \in DOMAIN Kinds |-> Id(gen, Kinds[i], 0)]

(* registerOperations: insert what is missing, and return what is stored. *)
RegisterOperations(p) ==
    /\ run[p].pc = "register"
    /\ IF run[p].gen # generation
       THEN Ended(p) /\ UNCHANGED <<database, faults, requests, lost>>
       ELSE LET plan == Planned(generation)
                Stored(id) == IF ops[id] = Absent THEN Queued(None) ELSE ops[id]
            IN  /\ ops' = [id \in Ids |-> IF \E i \in DOMAIN plan : plan[i] = id
                                          THEN Stored(id) ELSE ops[id]]
                /\ chapter' = [chapter EXCEPT ![generation] =
                                IF @ = "pending" THEN "generating" ELSE @]
                /\ run' = [run EXCEPT ![p] =
                     Running([i \in DOMAIN plan |-> Item(plan[i], Stored(plan[i]).status)])]
                /\ UNCHANGED <<generation, artifacts, tail, faults, requests, lost>>

Current(p) == Head(run[p].todo)
InPackage(p) == Head(tail[p]) = Package

AfterOutcomeAlways(p, status) == NextOperation(p)

AfterOutcomeWaits(p, status) ==
    IF status = "processing" /\ InPackage(p) THEN UNCHANGED queues ELSE NextOperation(p)

(* The outcome of an operation in #process: a package does not overtake an *)
(* operation that another process runs.                                    *)
AfterOutcome(p, status) ==
    IF status = "processing" /\ InPackage(p) THEN Ended(p) ELSE NextOperation(p)

(* #runOperation of a row that was not queued when it was read. *)
SkipOperation(p) ==
    /\ run[p].pc = "operation" /\ Current(p).view \notin Claimable
    /\ AfterOutcome(p, Current(p).view)
    /\ UNCHANGED <<database, faults, requests, lost>>

-----------------------------------------------------------------------------
(* ActivationGenerationService.run.                                        *)
(***************************************************************************)

ClaimGuardAnyStatus(id) ==
    /\ ops[id].status \in Open /\ ops[id].attempts < MaxAttempts
    /\ id.gen = generation

(* claimOperation: the row is taken, or is final already, or run throws *)
(* operation_unavailable and the work ends.                             *)
ClaimGuard(id) ==
    /\ ops[id].status \in Claimable /\ ops[id].attempts < MaxAttempts
    /\ id.gen = generation

Claim(p) ==
    /\ run[p].pc = "operation" /\ Current(p).view \in Claimable
    /\ LET id == Current(p).id IN
       \/ /\ ClaimGuard(id)
          /\ ops' = [ops EXCEPT ![id] =
                       Row("processing", ops[id].attempts + 1, None, ops[id].key)]
          /\ run' = [run EXCEPT ![p] = At("generate", 0, run[p].todo, ops[id].attempts + 1, None)]
          /\ UNCHANGED tail
       \/ /\ ~ClaimGuard(id) /\ ops[id].status \in Final
          /\ NextOperation(p)
          /\ UNCHANGED ops
       \/ /\ ~ClaimGuard(id) /\ ops[id].status \notin Final
          /\ Ended(p)
          /\ UNCHANGED ops
    /\ UNCHANGED <<generation, artifacts, chapter, faults, requests, lost>>

(* The work outside a transaction succeeds, or its error is caught. *)
Tried(p) ==
    /\ \/ run' = [run EXCEPT ![p] = At("complete", 0, run[p].todo, run[p].attempt, None)]
       \/ \E f \in Failures :
            run' = [run EXCEPT ![p] = At("fail", 0, run[p].todo, run[p].attempt, f)]
    /\ UNCHANGED <<database, tail, faults, requests, lost>>

IsLesson(id) == id.kind = "first_text_lesson"

(* #generateTextLesson: retrieval, the model, the grounding of every *)
(* concept, and the object of the text.                              *)
GenerateTextLesson(p) == run[p].pc = "generate" /\ IsLesson(Current(p).id) /\ Tried(p)

(* #generateQuizBank: retrieval, the model, and the items made of its *)
(* result without those the learner has seen.                         *)
GenerateQuizBank(p) == run[p].pc = "generate" /\ ~IsLesson(Current(p).id) /\ Tried(p)

(* assertProcessingAttempt: the claim is still this attempt's. *)
Holds(id, attempt) == ops[id].status = "processing" /\ ops[id].attempts = attempt

ChapterStatusAnyQuiz(id, rows) == "ready"

(* updateChapterReadiness: after a chapter quiz the chapter is ready when a *)
(* lesson has succeeded too.  No other completion looks.                    *)
ChapterStatus(id, rows) ==
    IF \A kind \in Artifacts \ {"placement_quiz"} :
            \E o \in 0..MaxOrdinal : rows[Id(id.gen, kind, o)].status = "succeeded"
    THEN "ready" ELSE "generating"

LinkedToAny(id) == TRUE

(* assertAuthorizedLinks and insertQuizLinks: the concepts of an artifact *)
(* belong to the generation that is active when it is stored.             *)
Linked(id) == id.gen = generation

(* finalizeSuccess, in the transaction that stores the artifact. *)
FinalizeSuccess(id, attempt) ==
    /\ ops' = [ops EXCEPT ![id] = Row("succeeded", ops[id].attempts, None, ops[id].key)]
    /\ artifacts' = artifacts \cup {[id |-> id, attempt |-> attempt]}

(* One transaction stores the artifact and the success.  An error of it is *)
(* not caught by run, for the promise is returned and not awaited inside   *)
(* try: the work ends and the row stays as it is.                          *)
Completes(p) ==
    run[p].pc = "complete" /\ Holds(Current(p).id, run[p].attempt) /\ Linked(Current(p).id)

CompleteTextLesson(p) ==
    /\ Completes(p) /\ IsLesson(Current(p).id)
    /\ FinalizeSuccess(Current(p).id, run[p].attempt)
    /\ NextOperation(p)
    /\ UNCHANGED <<generation, chapter, faults, requests, lost>>

CompleteQuizBank(p) ==
    /\ Completes(p) /\ ~IsLesson(Current(p).id)
    /\ FinalizeSuccess(Current(p).id, run[p].attempt)
    /\ chapter' = IF Current(p).id.kind = "chapter_quiz"
                  THEN [chapter EXCEPT ![Current(p).id.gen] = ChapterStatus(Current(p).id, ops')]
                  ELSE chapter
    /\ NextOperation(p)
    /\ UNCHANGED <<generation, faults, requests, lost>>

CompleteRefused(p) ==
    /\ run[p].pc = "complete" /\ ~Completes(p)
    /\ IF ops[Current(p).id].status = "succeeded" THEN NextOperation(p) ELSE Ended(p)
    /\ UNCHANGED <<database, faults, requests, lost>>

FailedStatusNoLimit(f, attempts) ==
    IF f.retryable THEN "retry_scheduled" ELSE "failed_permanent"

(* recordFailure: the operation is scheduled again, by this process and  *)
(* after a delay, or has failed for good.                                *)
FailedStatus(f, attempts) ==
    IF f.retryable /\ attempts < MaxAttempts THEN "retry_scheduled" ELSE "failed_permanent"

RecordFailure(p) ==
    /\ run[p].pc = "fail"
    /\ LET id == Current(p).id
           status == FailedStatus(run[p].failure, ops[id].attempts)
       IN  IF Holds(id, run[p].attempt)
           THEN /\ ops' = [ops EXCEPT ![id] =
                             Row(status, ops[id].attempts, run[p].failure.class, ops[id].key)]
                /\ IF status = "retry_scheduled"
                   THEN /\ run' = [run EXCEPT ![p] =
                                    Running([run[p].todo EXCEPT ![1] = Item(id, status)])]
                        /\ UNCHANGED tail
                   ELSE NextOperation(p)
           ELSE /\ IF ops[id].status \in Final THEN NextOperation(p) ELSE Ended(p)
                /\ UNCHANGED ops
    /\ UNCHANGED <<generation, artifacts, chapter, faults, requests, lost>>

(* A transaction of the work is rejected, or the commit's answer is lost:  *)
(* the error reaches the chain, which logs it and goes on to other work.   *)
Reject(p) ==
    /\ faults < MaxFaults /\ faults' = faults + 1
    /\ run[p].pc \in {"register", "operation", "complete", "fail"}
    /\ Ended(p)
    /\ lost' = TRUE
    /\ UNCHANGED <<database, requests>>

(* The process dies: its queue is in memory only. *)
Crash(p) ==
    /\ faults < MaxFaults /\ faults' = faults + 1
    /\ tail[p] # <<>>
    /\ tail' = [tail EXCEPT ![p] = <<>>]
    /\ run' = [run EXCEPT ![p] = Idle]
    /\ lost' = TRUE
    /\ UNCHANGED <<database, requests>>

-----------------------------------------------------------------------------
(* Requests of the learner, and the course.                                *)
(***************************************************************************)

(* The latest operation of an artifact of the active generation. *)
Rows(kind) == {id \in Ids : id.gen = generation /\ id.kind = kind /\ ops[id] # Absent}
Latest(kind) == CHOOSE id \in Rows(kind) : \A other \in Rows(kind) : other.ordinal <= id.ordinal

(* The artifact is stored: a lesson or placement quiz of the course, in *)
(* whatever generation, or a quiz of the chapter.                       *)
ArtifactReady(kind) ==
    \E a \in artifacts : a.id.kind = kind /\ (kind = "chapter_quiz" => a.id.gen = generation)

MayRegenerateOpen(kind) ==
    /\ ~ArtifactReady(kind)
    /\ Rows(kind) # {}
    /\ ops[Latest(kind)].status \in {"failed_permanent", "retry_scheduled"}
    /\ ops[Latest(kind)].failure \in Regenerable

(* registerArtifactRegeneration: a new request for an artifact that no      *)
(* operation has stored and whose latest operation failed in a way that may *)
(* be repeated.  The cooldown of 60 s only delays the request.              *)
MayRegenerate(kind) ==
    /\ ~ArtifactReady(kind)
    /\ Rows(kind) # {}
    /\ ops[Latest(kind)].status = "failed_permanent"
    /\ ops[Latest(kind)].failure \in Regenerable

Regenerate(p, kind, key) ==
    /\ Requested
    /\ \A id \in Ids : ops[id].key # key
    /\ MayRegenerate(kind)
    /\ Latest(kind).ordinal < MaxOrdinal
    /\ LET id == Id(generation, kind, Latest(kind).ordinal + 1) IN
       /\ ops' = [ops EXCEPT ![id] = Queued(key)]
       /\ Chained(p, Regeneration(id, "queued"))
    /\ UNCHANGED <<generation, artifacts, chapter, run, faults, lost>>

(* The same request again: the stored row is scheduled, unless it is final, *)
(* when scheduleRegeneration refuses it.                                    *)
ReplayRegeneration(p, kind, key) ==
    \E id \in Ids :
        /\ ops[id].key = key /\ id.kind = kind
        /\ ops[id].status \in Open
        /\ Requested
        /\ Chained(p, Regeneration(id, ops[id].status))
        /\ UNCHANGED <<database, run, faults, lost>>

(* content-repository: another build of the course makes its generation the *)
(* active one.                                                              *)
ActivateGeneration ==
    /\ generation < MaxGenerations /\ faults < MaxFaults
    /\ generation' = generation + 1 /\ faults' = faults + 1
    /\ chapter' = [chapter EXCEPT ![generation'] = Composed]
    /\ UNCHANGED <<ops, artifacts, queues, requests, lost>>

Step(p) ==
    \/ BeginPackage(p) \/ BeginRegeneration(p) \/ RegisterOperations(p) \/ SkipOperation(p)
    \/ Claim(p) \/ RecordFailure(p)
    \/ GenerateTextLesson(p) \/ GenerateQuizBank(p)
    \/ CompleteTextLesson(p) \/ CompleteQuizBank(p) \/ CompleteRefused(p)

Next ==
    \/ \E p \in Processes : Step(p) \/ Schedule(p) \/ Reject(p) \/ Crash(p)
    \/ \E p \in Processes, kind \in Artifacts, key \in Keys :
            Regenerate(p, kind, key) \/ ReplayRegeneration(p, kind, key)
    \/ ActivateGeneration

(* A process goes on with the work it has; deadlines bound the generation. *)
Fairness == \A p \in Processes : WF_vars(Step(p))

Spec == Init /\ [][Next]_vars /\ Fairness

-----------------------------------------------------------------------------
TypeOK ==
    /\ generation \in Generations
    /\ ops \in [Ids -> [status : {"none"} \cup Open \cup Final, attempts : 0..MaxAttempts,
                        failure : {None} \cup {f.class : f \in Failures}, key : {None} \cup Keys]]
    /\ artifacts \subseteq [id : Ids, attempt : 1..MaxAttempts]
    /\ chapter \in [Generations -> {"pending", "generating", "ready"}]
    /\ \A p \in Processes :
        /\ \A i, j \in DOMAIN tail[p] : Key(tail[p][i]) = Key(tail[p][j]) => i = j
        /\ run[p].pc \in {"idle", "register", "operation", "generate", "complete", "fail"}
        /\ (run[p].pc \in {"operation", "generate", "complete", "fail"}) <=> (run[p].todo # <<>>)
        /\ run[p].pc # "idle" => tail[p] # <<>>
    /\ faults \in 0..MaxFaults /\ requests \in 0..MaxRequests /\ lost \in BOOLEAN

Working(p, id) == run[p].pc \in {"generate", "complete", "fail"} /\ Current(p).id = id

(* Without a lease, the status alone keeps two processes from generating    *)
(* the same artifact: an operation is in the hands of one process, and that *)
(* process is at the attempt the row counts.                                *)
OneWorker ==
    \A p \in Processes, id \in Ids :
        Working(p, id) =>
            /\ Holds(id, run[p].attempt)
            /\ \A q \in Processes \ {p} : ~Working(q, id)

(* The package and any number of regeneration requests, on any process and *)
(* after any fault, leave at most one artifact of a kind in a generation,  *)
(* written by the operation that says it succeeded.                        *)
OneArtifact ==
    /\ \A a, b \in artifacts : a.id.gen = b.id.gen /\ a.id.kind = b.id.kind => a = b
    /\ \A id \in Ids : ops[id].status = "succeeded" <=> \E a \in artifacts : a.id = id

HasStored(g, kind) == \E a \in artifacts : a.id.gen = g /\ a.id.kind = kind

(* Once a chapter has its quiz, it is not ready without the lesson, however *)
(* the two were generated, failed, and were generated again.                *)
ReadyAfterQuiz ==
    \A g \in 1..generation :
        chapter[g] = "ready" /\ HasStored(g, "chapter_quiz") => HasStored(g, "first_text_lesson")

(* p will still come to the operation: it has a regeneration of it, or a    *)
(* package that has not passed it.                                          *)
Attends(p, id) ==
    \/ \E i \in DOMAIN run[p].todo : run[p].todo[i].id = id
    \/ \E i \in DOMAIN tail[p] :
        /\ i > 1 \/ run[p].pc \in {"idle", "register"}
        /\ Key(tail[p][i]) \in {id} \cup IF id.ordinal = 0 THEN {Package} ELSE {}

(* Overlapping packages give way to each other by stopping.  However they   *)
(* meet, an open operation of the active generation stays with a process    *)
(* that will come to it, as long as nothing was lost.                       *)
Attended ==
    ~lost => \A id \in Ids :
        ops[id].status \in Open /\ id.gen = generation => \E p \in Processes : Attends(p, id)

(* The course may be built again while a model works on its old text.  What *)
(* is stored is of the generation that is active at that moment.            *)
StoredOfActive == [][\A a \in artifacts' \ artifacts : a.id.gen = generation]_vars

(* "Do not overtake it by generating lower-priority artifacts": a package *)
(* claims an original only when those before it are final.                *)
NoOvertaking ==
    [][\A p \in Processes :
        Claim(p) /\ InPackage(p) /\ run'[p].pc = "generate" =>
            \A id \in Ids :
                id.gen = Current(p).id.gen /\ id.ordinal = 0
                    /\ Priority(id.kind) < Priority(Current(p).id.kind)
                        => ops[id].status \in Final]_vars

(* The processes catch up: the work on every chain ends whatever happens to *)
(* it, and then every operation of the active generation is final, unless a *)
(* fault dropped one.                                                       *)
OperationsFinish ==
    []<>/\ \A p \in Processes : tail[p] = <<>>
        /\ lost \/ \A id \in Ids : ops[id].status \in Open => id.gen # generation

(* Overlapping packages and regenerations: every artifact has one worker   *)
(* and is stored once, no chapter is ready without its lesson, and open    *)
(* work stays with a process that will come to it.                         *)
WorkKept == TypeOK /\ OneWorker /\ OneArtifact /\ ReadyAfterQuiz /\ Attended

(* Artifacts are claimed in their order and stored in their generation. *)
InOrder == NoOvertaking /\ StoredOfActive
=============================================================================

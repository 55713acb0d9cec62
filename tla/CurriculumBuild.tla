-------------------------- MODULE CurriculumBuild --------------------------
(***************************************************************************)
(* Building the curriculum of a course from its parsed document            *)
(* (packages/retrieval/src/service.ts over                                 *)
(* packages/db/src/content-repository.ts and a store of vectors).          *)
(*                                                                         *)
(* A build embeds the spans of the document, unless an active embedding of *)
(* just these spans is there, activates the embedding, cuts the spans into *)
(* segments, has a model work on each under a lease, composes the results, *)
(* and activates the curriculum.  Builds overlap: a process that is being  *)
(* replaced, one whose claim of the course has lapsed, a retry.  Each step *)
(* below is one transaction, or one await on the model or on the vectors.  *)
(*                                                                         *)
(* An embedding is named by the call that made it: its identity hashes the *)
(* provider's request ids.  It fixes the manifest and the curriculum made  *)
(* from it, which are identified by hashes of it and of the spans.  A      *)
(* result of a segment is named by the attempt that came to it.            *)
(***************************************************************************)
EXTENDS Naturals, FiniteSets

CONSTANTS
    Builders,        \* the processes that build
    Documents,       \* the possible outcomes of parsing and chunking, by version of the code
    Size,            \* segments of a document
    MaxConcurrency,  \* CURRICULUM_SEGMENT_MAX_CONCURRENCY
    MaxAttempts,     \* the attempts of a segment after which no failure is retried
    MaxCalls,        \* bound: calls of buildCurriculum
    MaxFaults        \* bound: transactions and calls that fail, processes that end

VARIABLES
    open,        \* the course is generating or ready, its source active, its owner a member
    embedding,   \* source_embedding_generation: its document and its status
    current,     \* source_document.active_embedding_generation_id
    vectors,     \* the generations in the store of vectors
    segment,     \* curriculum_segment_operation, by generation and ordinal
    curriculum,  \* curriculum_generation: its status, and the results it was composed from
    active,      \* course.active_curriculum_generation_id
    build,       \* the call a process is in
    task,        \* the segments of that call
    calls,       \* calls so far
    faults       \* faults so far

stored == <<embedding, current, vectors, segment, curriculum, active>>
vars == <<open, stored, build, task, calls, faults>>

Segments == 1..Size
Generations == 1..MaxCalls

NoSegment == [state |-> "none", attempt |-> 0, leased |-> FALSE, result |-> 0]
Queued == [state |-> "queued", attempt |-> 0, leased |-> FALSE, result |-> 0]
NoCall == [pc |-> "idle", call |-> 0, gen |-> 0, document |-> "none"]
NoTask == [phase |-> "waiting", attempt |-> 0, retryable |-> FALSE, result |-> 0]
NoTasks == [i \in Segments |-> NoTask]

Embeddings == [document : Documents \cup {"none"},
               status : {"none", "building", "active", "retired"}]
Rows == [state : {"none", "queued", "processing", "retry_scheduled", "succeeded",
                  "failed_permanent"},
         attempt : Nat, leased : BOOLEAN, result : Nat]
Curricula == [status : {"none", "active", "retired"}, results : [Segments -> Nat]]
CallStates == [pc : {"idle", "ensure", "embed", "record", "write", "activate", "partition",
                     "segments", "persist", "ready"},
               call : 0..MaxCalls, gen : 0..MaxCalls, document : Documents \cup {"none"}]
TaskStates == [phase : {"waiting", "claimed", "answered", "failing", "done", "thrown"},
               attempt : Nat, retryable : BOOLEAN, result : Nat]

TypeOK ==
    /\ open \in BOOLEAN /\ current \in 0..MaxCalls /\ active \in 0..MaxCalls
    /\ calls \in 0..MaxCalls /\ faults \in 0..MaxFaults
    /\ embedding \in [Generations -> Embeddings]
    /\ vectors \subseteq Generations
    /\ segment \in [Generations -> [Segments -> Rows]]
    /\ curriculum \in [Generations -> Curricula]
    /\ build \in [Builders -> CallStates]
    /\ task \in [Builders -> [Segments -> TaskStates]]

Init ==
    /\ open = TRUE /\ current = 0 /\ vectors = {} /\ active = 0
    /\ embedding = [g \in Generations |-> [document |-> "none", status |-> "none"]]
    /\ segment = [g \in Generations |-> [i \in Segments |-> NoSegment]]
    /\ curriculum = [g \in Generations |->
                       [status |-> "none", results |-> [i \in Segments |-> 0]]]
    /\ build = [b \in Builders |-> NoCall] /\ task = [b \in Builders |-> NoTasks]
    /\ calls = 0 /\ faults = 0

At(b, pc) == build[b].pc = pc
Goto(b, pc) == build' = [build EXCEPT ![b].pc = pc]
TakeUp(b, g, pc) == build' = [build EXCEPT ![b].pc = pc, ![b].gen = g]

(* The call throws: what its segments came to is not looked at. *)
Throw(b) ==
    /\ build' = [build EXCEPT ![b] = NoCall] /\ task' = [task EXCEPT ![b] = NoTasks]

(***************************************************************************)
(* Up to the segments.                                                     *)
(***************************************************************************)
(* authorizeSource; the document is chunked; persistSourceSpans, whose     *)
(* rows, if they are there already, are as they should be.                 *)
Start(b) ==
    /\ build[b].pc \in {"idle", "ready"} /\ calls < MaxCalls /\ open
    /\ calls' = calls + 1
    /\ \E d \in Documents :
         build' = [build EXCEPT ![b] = [pc |-> "ensure", call |-> calls + 1, gen |-> 0,
                                        document |-> d]]
    /\ task' = [task EXCEPT ![b] = NoTasks]
    /\ UNCHANGED <<open, stored, faults>>

(* #ensureEmbeddingGeneration: the active one, if it has these very spans. *)
Reusable(b) ==
    /\ current # 0 /\ embedding[current].status = "active"
    /\ embedding[current].document = build[b].document

Ensure(b) ==
    /\ At(b, "ensure") /\ open
    /\ IF Reusable(b) THEN TakeUp(b, current, "partition") ELSE Goto(b, "embed")
    /\ UNCHANGED <<open, stored, task, calls, faults>>

(* #embedDocuments, and buildEmbeddingGeneration. *)
EmbedDocuments(b) ==
    /\ At(b, "embed")
    /\ TakeUp(b, build[b].call, "record")
    /\ UNCHANGED <<open, stored, task, calls, faults>>

RecordEmbeddingGeneration(b) ==
    /\ At(b, "record") /\ open /\ Goto(b, "write")
    /\ embedding' = [embedding EXCEPT ![build[b].gen] =
                       [document |-> build[b].document, status |-> "building"]]
    /\ UNCHANGED <<open, current, vectors, segment, curriculum, active, task, calls,
                   faults>>

(* vectors.writeGeneration, outside the database. *)
WriteGeneration(b) ==
    /\ At(b, "write") /\ Goto(b, "activate")
    /\ vectors' = vectors \cup {build[b].gen}
    /\ UNCHANGED <<open, embedding, current, segment, curriculum, active, task, calls,
                   faults>>

(* activateEmbeddingGeneration: the others are retired. *)
ActivateEmbeddingGeneration(b) ==
    LET g == build[b].gen IN
    /\ At(b, "activate") /\ open /\ embedding[g].status \in {"building", "active"}
    /\ embedding' = [h \in Generations |->
                       IF h = g THEN [embedding[h] EXCEPT !.status = "active"]
                       ELSE IF embedding[h].status = "active"
                       THEN [embedding[h] EXCEPT !.status = "retired"] ELSE embedding[h]]
    /\ current' = g /\ Goto(b, "partition")
    /\ UNCHANGED <<open, vectors, segment, curriculum, active, task, calls, faults>>

(* partitionCurriculumSource and persistCurriculumPartition: refused when  *)
(* the embedding is active no more; rows that are there stay as they are.  *)
PersistCurriculumPartition(b) ==
    LET g == build[b].gen IN
    /\ At(b, "partition") /\ open /\ current = g /\ Goto(b, "segments")
    /\ segment' = [segment EXCEPT ![g] = [i \in Segments |->
                     IF @[i].state = "none" THEN Queued ELSE @[i]]]
    /\ UNCHANGED <<open, embedding, current, vectors, curriculum, active, task, calls,
                   faults>>

(***************************************************************************)
(* #executeCurriculumSegments: workers take the segments in their order;   *)
(* one that throws ends, the others go on, and the call waits for them.    *)
(***************************************************************************)
InPhase(b, phases) == {i \in Segments : task[b][i].phase \in phases}
Busy(b) == InPhase(b, {"claimed", "answered", "failing"})
Idle(b) == MaxConcurrency > Cardinality(Busy(b) \cup InPhase(b, {"thrown"}))

(* The segment that an idle worker takes. *)
IsNext(b, i) ==
    /\ At(b, "segments") /\ Idle(b) /\ task[b][i].phase = "waiting"
    /\ \A j \in InPhase(b, {"waiting"}) : i <= j

Row(b, i) == segment[build[b].gen][i]
SetTask(b, i, t) == task' = [task EXCEPT ![b][i] = t]
SetRow(b, i, r) == segment' = [segment EXCEPT ![build[b].gen][i] = r]
KeepsTheRest ==
    UNCHANGED <<open, embedding, current, vectors, curriculum, active, build, calls>>

(* Mutant: a claim that takes a segment again that has succeeded. *)
ClaimableAgain(row) ==
    \/ row.state \in {"queued", "retry_scheduled", "succeeded"}
    \/ row.state = "processing" /\ ~row.leased

(* claimCurriculumSegment *)
Claimable(row) ==
    \/ row.state \in {"queued", "retry_scheduled"}
    \/ row.state = "processing" /\ ~row.leased

(* What is left of the deadline is left open.  A claim that leaves no time *)
(* for a whole call of a retry is failed, for good: see Answer.            *)
Claim(b, i) ==
    LET row == Row(b, i) IN
    /\ IsNext(b, i) /\ open /\ Claimable(row)
    /\ SetRow(b, i, [row EXCEPT !.state = "processing", !.attempt = @ + 1, !.leased = TRUE])
    /\ SetTask(b, i, [NoTask EXCEPT !.phase = "claimed", !.attempt = row.attempt + 1])
    /\ KeepsTheRest /\ UNCHANGED faults

(* The claim finds a result. *)
FindSucceeded(b, i) ==
    /\ IsNext(b, i) /\ open /\ Row(b, i).state = "succeeded"
    /\ SetTask(b, i, [NoTask EXCEPT !.phase = "done", !.result = Row(b, i).result])
    /\ KeepsTheRest /\ UNCHANGED <<segment, faults>>

(* The reserve of the deadline is reached, the authorization gone, another *)
(* has the segment, it has failed for good, or the transaction fails.      *)
ClaimRefused(b, i) ==
    /\ IsNext(b, i)
    /\ SetTask(b, i, [NoTask EXCEPT !.phase = "thrown"])
    /\ KeepsTheRest /\ UNCHANGED <<segment, faults>>

(* models.execute("curriculum.segment.v1"), or no time left for it. *)
Answer(b, i) ==
    /\ task[b][i].phase = "claimed"
    /\ \/ SetTask(b, i, [task[b][i] EXCEPT !.phase = "answered"])
       \/ \E retryable \in BOOLEAN :
            SetTask(b, i, [task[b][i] EXCEPT !.phase = "failing", !.retryable = retryable])
    /\ KeepsTheRest /\ UNCHANGED <<segment, faults>>

(* completeCurriculumSegment: only of the own attempt, under its lease. *)
OwnLease(b, i) ==
    /\ Row(b, i).state = "processing" /\ Row(b, i).leased
    /\ Row(b, i).attempt = task[b][i].attempt

Complete(b, i) ==
    /\ task[b][i].phase = "answered" /\ open /\ OwnLease(b, i)
    /\ SetRow(b, i, [Row(b, i) EXCEPT !.state = "succeeded", !.leased = FALSE,
                                      !.result = task[b][i].attempt])
    /\ \/ /\ SetTask(b, i, [NoTask EXCEPT !.phase = "done", !.result = task[b][i].attempt])
          /\ UNCHANGED faults
       \/ /\ faults < MaxFaults /\ faults' = faults + 1  \* committed, but not told so
          /\ SetTask(b, i, [task[b][i] EXCEPT !.phase = "failing"])
    /\ KeepsTheRest

(* A refusal for the lease is retryable, one for the authorization is not. *)
CompleteRefused(b, i) ==
    /\ task[b][i].phase = "answered" /\ (open => ~OwnLease(b, i))
    /\ SetTask(b, i, [task[b][i] EXCEPT !.phase = "failing", !.retryable = open])
    /\ KeepsTheRest /\ UNCHANGED <<segment, faults>>

(* failCurriculumSegment, of the own attempt, under a lease or not; what   *)
(* it throws is swallowed, and the worker throws.                          *)
Fail(b, i) ==
    LET t == task[b][i] IN
    /\ t.phase = "failing"
    /\ IF open /\ Row(b, i).state = "processing" /\ Row(b, i).attempt = t.attempt
         THEN SetRow(b, i, [Row(b, i) EXCEPT !.leased = FALSE,
                !.state = IF t.retryable /\ t.attempt < MaxAttempts THEN "retry_scheduled"
                          ELSE "failed_permanent"])
         ELSE UNCHANGED segment
    /\ SetTask(b, i, [NoTask EXCEPT !.phase = "thrown"])
    /\ KeepsTheRest /\ UNCHANGED faults

(* The transaction of a completion or a failure fails. *)
SegmentTransactionFails(b, i) ==
    /\ faults < MaxFaults /\ faults' = faults + 1
    /\ \/ task[b][i].phase = "failing" /\ SetTask(b, i, [NoTask EXCEPT !.phase = "thrown"])
       \/ /\ task[b][i].phase = "answered"
          /\ SetTask(b, i, [task[b][i] EXCEPT !.phase = "failing"])
    /\ KeepsTheRest /\ UNCHANGED segment

(***************************************************************************)
(* The curriculum.                                                         *)
(***************************************************************************)
Worked(b) == [i \in Segments |-> task[b][i].result]

(* Promise.allSettled once nobody works and nobody will, composeCurriculum. *)
Compose(b) ==
    /\ At(b, "segments") /\ Busy(b) = {} /\ (InPhase(b, {"waiting"}) = {} \/ ~Idle(b))
    /\ \/ InPhase(b, {"done"}) = Segments /\ Goto(b, "persist") /\ UNCHANGED task
       \/ Throw(b)  \* a segment has no result, or none of the results teaches anything
    /\ UNCHANGED <<open, stored, calls, faults>>

(* Mutant: the embedding is not compared with the active one. *)
PersistableOutdated(b) ==
    \A i \in Segments : /\ Row(b, i).state = "succeeded"
                        /\ Row(b, i).result = task[b][i].result

(* persistCurriculum: the segments must all have the results that were     *)
(* composed, and the embedding must still be the active one.               *)
Persistable(b) ==
    /\ \A i \in Segments : /\ Row(b, i).state = "succeeded"
                           /\ Row(b, i).result = task[b][i].result
    /\ current = build[b].gen

(* The caller is told of a failure if the answer is lost, or if by then    *)
(* the deadline is over.                                                   *)
PersistCurriculum(b) ==
    LET g == build[b].gen IN
    /\ At(b, "persist") /\ open /\ Persistable(b)
    /\ curriculum' = [h \in Generations |->
                        IF h = g THEN [status |-> "active", results |-> Worked(b)]
                        ELSE IF curriculum[h].status = "active"
                        THEN [curriculum[h] EXCEPT !.status = "retired"] ELSE curriculum[h]]
    /\ active' = g
    /\ (Goto(b, "ready") /\ UNCHANGED task) \/ Throw(b)
    /\ UNCHANGED <<open, embedding, current, vectors, segment, calls, faults>>

(* A step is refused: the authorization is gone, the deadline is over,     *)
(* another embedding is in the place of this one.                          *)
Refused(b) ==
    \/ build[b].pc \in {"ensure", "record", "activate", "partition", "persist"} /\ ~open
    \/ build[b].pc \in {"embed", "persist"}  \* remainingDeadline
    \/ At(b, "activate") /\ embedding[build[b].gen].status \notin {"building", "active"}
    \/ At(b, "partition") /\ current # build[b].gen

Refuse(b) == Refused(b) /\ Throw(b) /\ UNCHANGED <<open, stored, calls, faults>>

(* A transaction fails (two that activate wait for each other's share      *)
(* locks, and the database ends one), a call of a model or of the vectors, *)
(* or the process.                                                         *)
CallFails(b) ==
    /\ build[b].pc \notin {"idle", "ready"} /\ faults < MaxFaults /\ faults' = faults + 1
    /\ Throw(b) /\ UNCHANGED <<open, stored, calls>>

(***************************************************************************)
(* The environment.                                                        *)
(***************************************************************************)
LeaseLapses(g, i) ==
    /\ segment[g][i].leased
    /\ segment' = [segment EXCEPT ![g][i].leased = FALSE]
    /\ UNCHANGED <<open, embedding, current, vectors, curriculum, active, build, task, calls, faults>>

(* The course is archived or failed, the source deleted, access revoked. *)
Revoke ==
    /\ open /\ open' = FALSE
    /\ UNCHANGED <<stored, build, task, calls, faults>>

Next ==
    \/ \E b \in Builders :
         \/ Start(b) \/ Ensure(b) \/ EmbedDocuments(b) \/ RecordEmbeddingGeneration(b)
         \/ WriteGeneration(b) \/ ActivateEmbeddingGeneration(b)
         \/ PersistCurriculumPartition(b) \/ Compose(b) \/ PersistCurriculum(b)
         \/ Refuse(b) \/ CallFails(b)
    \/ \E b \in Builders, i \in Segments :
         \/ Claim(b, i) \/ FindSucceeded(b, i) \/ ClaimRefused(b, i) \/ Answer(b, i)
         \/ Complete(b, i) \/ CompleteRefused(b, i) \/ Fail(b, i)
         \/ SegmentTransactionFails(b, i)
    \/ \E g \in Generations, i \in Segments : LeaseLapses(g, i)
    \/ Revoke

Spec == Init /\ [][Next]_vars

(***************************************************************************)
(* Properties.                                                             *)
(***************************************************************************)
(* There is one active embedding, the source's, and it has its vectors. *)
ActiveIsSearchable ==
    /\ \A g \in Generations : embedding[g].status = "active" <=> g = current
    /\ current \in vectors \cup {0}

(* The one active curriculum is the course's; what a curriculum was        *)
(* composed from are the results of all the segments of its manifest.      *)
CurriculaComplete ==
    \A g \in Generations :
       /\ curriculum[g].status = "active" <=> g = active
       /\ curriculum[g].status # "none" =>
            \A i \in Segments : segment[g][i].state = "succeeded"
                                  /\ segment[g][i].result = curriculum[g].results[i]

(* No two calls work on one attempt of a segment, and none on one that is  *)
(* not the segment's newest but one that was taken over.                   *)
WorkedOnOnce ==
    \A b, c \in Builders : \A i \in Busy(b) :
       /\ task[b][i].attempt <= Row(b, i).attempt
       /\ (b # c /\ i \in Busy(c) /\ build[c].gen = build[b].gen) =>
            task[c][i].attempt # task[b][i].attempt

(* A call that returns has stored the curriculum that it tells of. *)
ToldIsStored ==
    \A b \in Builders :
       At(b, "ready") => /\ curriculum[build[b].gen].status # "none"
                         /\ curriculum[build[b].gen].results = Worked(b)
                         /\ embedding[build[b].gen].document = build[b].document

(* In every interleaving of builds, what is active is one, and complete. *)
CurriculumSound ==
    TypeOK /\ ActiveIsSearchable /\ CurriculaComplete /\ WorkedOnOnce /\ ToldIsStored

(* A result, a segment given up and the content of a curriculum stand; an  *)
(* embedding or a curriculum that was retired never comes back; and one is *)
(* activated only over the active embedding.                               *)
CurriculumStands ==
    [][ /\ \A g \in Generations :
             /\ \A i \in Segments : segment[g][i].state \in {"succeeded", "failed_permanent"} =>
                                      segment'[g][i] = segment[g][i]
             /\ curriculum[g].status # "none" =>
                  curriculum'[g].results = curriculum[g].results
             /\ curriculum[g].status = "retired" => curriculum'[g] = curriculum[g]
             /\ embedding[g].status = "retired" => embedding'[g] = embedding[g]
        /\ active' # active => active' = current ]_vars
=============================================================================

-------------------------- MODULE ActivationProofs --------------------------
(***************************************************************************)
(* Theorems about the activation packages of a course, for any number of   *)
(* processes, artifacts, regenerations, rebuilds of the course and faults; *)
(* and about the stream that tells the page how far they are, for any      *)
(* number of snapshots, reconnections and polls.                           *)
(***************************************************************************)
EXTENDS MCActivation, SequenceTheorems, WellFoundedInduction, TLAPS

Statuses == {"none"} \cup Open \cup Final
RowSet == [status : Statuses, attempts : 0..MaxAttempts,
           failure : {None} \cup {f.class : f \in Failures}, key : {None} \cup Keys]
Items == [id : Ids, view : Statuses]
Works == {Package} \cup [what : {"regeneration"}, id : Ids, view : Open]
Runs == [pc : {"idle", "register", "operation", "generate", "complete", "fail"},
         gen : {0} \cup Generations, todo : Seq(Items), attempt : 0..MaxAttempts,
         failure : {None} \cup Failures]

(* The values of the variables that the proofs compute with. *)
Types ==
    /\ generation \in Generations
    /\ ops \in [Ids -> RowSet]
    /\ artifacts \subseteq [id : Ids, attempt : 1..MaxAttempts]
    /\ chapter \in [Generations -> {"pending", "generating", "ready"}]
    /\ tail \in [Processes -> Seq(Works)]
    /\ run \in [Processes -> Runs]
    /\ faults \in 0..MaxFaults /\ requests \in 0..MaxRequests /\ lost \in BOOLEAN

(* The operations as their rows tell of them: none is left without an      *)
(* attempt, originals are claimed in their order, and all those before a   *)
(* regeneration have failed.                                               *)
RowOK(id) ==
    /\ ops[id].status = "none" => ops[id] = Absent
    /\ ops[id].status # "none" => id.gen <= generation
    /\ ops[id].status = "queued" => ops[id].attempts = 0
    /\ ops[id].status \in Claimable => ops[id].attempts < MaxAttempts
    /\ ops[id].status \in {"processing", "succeeded"} => ops[id].attempts > 0
    /\ ops[id].key # None => id.ordinal > 0
RowsInOrder ==
    \A g \in Generations : \A i, j \in DOMAIN Kinds :
        i < j /\ ops[Id(g, Kinds[j], 0)].status \notin {"none", "queued"} =>
            ops[Id(g, Kinds[i], 0)].status \in Final
RegisteredTogether ==
    \A g \in Generations : \A i, j \in DOMAIN Kinds :
        ops[Id(g, Kinds[i], 0)].status = "none" => ops[Id(g, Kinds[j], 0)].status = "none"
OldestFailed ==
    \A a, b \in Ids : a.gen = b.gen /\ a.kind = b.kind /\ a.ordinal < b.ordinal /\ ops[b].status # "none" =>
        ops[a].status = "failed_permanent"
RowsOK == (\A id \in Ids : RowOK(id)) /\ RowsInOrder /\ RegisteredTogether /\ OldestFailed

(* An artifact is of the attempt at which its operation succeeded. *)
ArtifactsOK ==
    /\ \A a \in artifacts : ops[a.id].status = "succeeded" /\ a.attempt = ops[a.id].attempts
    /\ \A id \in Ids : ops[id].status = "succeeded" => \E a \in artifacts : a.id = id

(* The work on a chain. *)
Engaged(p) == run[p].pc \in {"operation", "generate", "complete", "fail"}
AtWork(p) == run[p].pc \in {"generate", "complete", "fail"}
ChainOK(p) ==
    /\ \A i, j \in DOMAIN tail[p] : Key(tail[p][i]) = Key(tail[p][j]) => i = j
    /\ run[p].pc # "idle" => tail[p] # <<>>
    /\ run[p].pc = "register" => InPackage(p)
    /\ \A i \in DOMAIN tail[p] : tail[p][i] # Package =>
         tail[p][i].id.ordinal > 0 /\ ops[tail[p][i].id].status # "none"

(* What a process has yet to do: of a package, the originals from some     *)
(* priority on, which may be claimed if an earlier one may; those before   *)
(* are final.  Of a regeneration, its row.                                 *)
Place(p, i) == Len(Kinds) - Len(run[p].todo) + i
TodoOK(p) ==
    /\ Engaged(p) <=> run[p].todo # <<>>
    /\ \A i \in DOMAIN run[p].todo :
         /\ ops[run[p].todo[i].id].status # "none"
         /\ run[p].todo[i].view # "none"
         /\ run[p].todo[i].view \in Final => ops[run[p].todo[i].id].status \in Final
PackageOK(p) == Engaged(p) /\ InPackage(p) =>
    /\ Len(run[p].todo) <= Len(Kinds)
    /\ \A i \in DOMAIN run[p].todo :
         run[p].todo[i].id = Id(Current(p).id.gen, Kinds[Place(p, i)], 0)
    /\ \A i, j \in DOMAIN run[p].todo :
         i < j /\ run[p].todo[i].view \in Claimable => run[p].todo[j].view \in Claimable
    /\ \A i \in DOMAIN Kinds : i < Place(p, 1) =>
         ops[Id(Current(p).id.gen, Kinds[i], 0)].status \in Final
RegenerationOK(p) == Engaged(p) /\ ~InPackage(p) =>
    Len(run[p].todo) = 1 /\ Current(p).id = Head(tail[p]).id

(* A process at work has the claim, alone. *)
ClaimOK(p) == AtWork(p) =>
    /\ Current(p).view \in Claimable
    /\ run[p].attempt \in 1..MaxAttempts /\ Holds(Current(p).id, run[p].attempt)
    /\ run[p].pc = "fail" => run[p].failure \in Failures
ClaimedByOne == \A p, q \in Processes : AtWork(p) /\ AtWork(q) /\ Current(p).id = Current(q).id => p = q

ProcessesOK ==
    /\ \A p \in Processes : ChainOK(p) /\ TodoOK(p) /\ PackageOK(p) /\ RegenerationOK(p) /\ ClaimOK(p)
    /\ ClaimedByOne

(* As long as nothing was lost, an operation that is processing is worked  *)
(* on, and an open one is in the hands of a process that will claim it: it *)
(* is in a package whose next operation may be claimed, or its             *)
(* regeneration is next, or waits on a chain.                              *)
Leads(p) == Engaged(p) /\ Current(p).view \in Claimable
Carries(p, id) == Leads(p) /\ InPackage(p) /\ \E i \in DOMAIN run[p].todo : run[p].todo[i].id = id
Waits(p, id) ==
    \E i \in DOMAIN tail[p] :
        /\ i > 1 \/ run[p].pc = "idle"
        /\ tail[p][i] # Package /\ tail[p][i].id = id /\ tail[p][i].view \in Claimable
Worked == \A id \in Ids : id.gen = generation /\ ops[id].status = "processing" =>
    \E p \in Processes : AtWork(p) /\ Current(p).id = id
Carried == \A id \in Ids : id.gen = generation /\ ops[id].status \in Open =>
    IF id.ordinal = 0 THEN \E p \in Processes : Carries(p, id)
    ELSE \E p \in Processes : (Leads(p) /\ Current(p).id = id) \/ Waits(p, id)
NothingDropped == ~lost => Worked /\ Carried

ActivationInv == Types /\ RowsOK /\ ArtifactsOK /\ ProcessesOK /\ ReadyAfterQuiz /\ NothingDropped
-----------------------------------------------------------------------------
(* What is known of a sequence with an element, of a longer one, and of    *)
(* one with another first element.                                         *)
LEMMA NotEmpty ==
    ASSUME NEW S, NEW s \in Seq(S), s # <<>>
    PROVE  /\ Len(s) \in Nat \ {0} /\ DOMAIN s = 1..Len(s) /\ Head(s) = s[1] /\ Head(s) \in S
           /\ Tail(s) \in Seq(S) /\ DOMAIN Tail(s) = 1..(Len(s) - 1) /\ Len(Tail(s)) = Len(s) - 1
           /\ \A i \in 1..(Len(s) - 1) : Tail(s)[i] = s[i + 1]
           /\ Tail(s) = <<>> <=> Len(s) = 1
<1>1. Tail(s) \in Seq(S) /\ Len(Tail(s)) = Len(s) - 1 /\ Head(s) \in S
      /\ \A i \in 1 .. Len(Tail(s)) : Tail(s)[i] = s[i+1]
  BY HeadTailProperties
<1>2. Len(s) \in Nat \ {0} /\ DOMAIN s = 1..Len(s)
  BY EmptySeq, LenProperties
<1>3. Tail(s) = <<>> <=> Len(Tail(s)) = 0
  BY <1>1, EmptySeq
<1>4. Head(s) = s[1]
  OBVIOUS
<1>5. DOMAIN Tail(s) = 1..Len(Tail(s))
  BY <1>1, LenProperties
<1> QED
  BY <1>1, <1>2, <1>3, <1>4, <1>5

(* A sequence is empty when it has no places. *)
LEMMA Empty ==
    ASSUME NEW S, NEW s \in Seq(S)
    PROVE  s = <<>> <=> DOMAIN s = {}
<1>1. s = <<>> => DOMAIN s = {}
  OBVIOUS
<1>2. s # <<>> => 1 \in DOMAIN s
  BY NotEmpty
<1> QED
  BY <1>1, <1>2

(* What an appended element changes of a sequence. *)
LEMMA Longer ==
    ASSUME NEW S, NEW s \in Seq(S), NEW x \in S
    PROVE  /\ Append(s, x) \in Seq(S) /\ Append(s, x) # <<>> /\ Len(s) \in Nat
           /\ DOMAIN s = 1..Len(s) /\ DOMAIN Append(s, x) = 1..(Len(s) + 1)
           /\ \A i \in 1..Len(s) : Append(s, x)[i] = s[i]
           /\ Append(s, x)[Len(s) + 1] = x
<1>1. /\ Append(s, x) \in Seq(S) /\ Append(s, x) # <<>> /\ Len(Append(s, x)) = Len(s) + 1
      /\ \A i \in 1..Len(s) : Append(s, x)[i] = s[i]
      /\ Append(s, x)[Len(s) + 1] = x
  BY AppendProperties
<1>2. Len(s) \in Nat /\ DOMAIN s = 1..Len(s) /\ DOMAIN Append(s, x) = 1..Len(Append(s, x))
  BY <1>1, LenProperties
<1> QED
  BY <1>1, <1>2

(* What replacing the head changes of a sequence. *)
LEMMA Headed ==
    ASSUME NEW S, NEW s \in Seq(S), s # <<>>, NEW x \in S
    PROVE  /\ [s EXCEPT ![1] = x] \in Seq(S) /\ [s EXCEPT ![1] = x] # <<>>
           /\ Len([s EXCEPT ![1] = x]) = Len(s) /\ DOMAIN [s EXCEPT ![1] = x] = DOMAIN s
           /\ [s EXCEPT ![1] = x][1] = x
           /\ \A i \in DOMAIN s \ {1} : [s EXCEPT ![1] = x][i] = s[i]
<1>1. Len(s) \in Nat \ {0} /\ DOMAIN s = 1..Len(s)
  BY NotEmpty
<1>2. 1 \in 1..Len(s)
  BY <1>1
<1>3. /\ [s EXCEPT ![1] = x] \in Seq(S) /\ Len([s EXCEPT ![1] = x]) = Len(s)
      /\ \A j \in 1 .. Len(s) : [s EXCEPT ![1] = x][j] = IF j=1 THEN x ELSE s[j]
  BY <1>2, ExceptSeq
<1>4. [s EXCEPT ![1] = x] # <<>>
  BY <1>1, <1>3, EmptySeq
<1> QED
  BY <1>1, <1>2, <1>3, <1>4

(* A sequence of one element. *)
LEMMA Single ==
    ASSUME NEW S, NEW x \in S
    PROVE  <<x>> \in Seq(S) /\ <<x>> # <<>> /\ Len(<<x>>) = 1 /\ DOMAIN <<x>> = {1} /\ <<x>>[1] = x
  OBVIOUS

(* A set of natural numbers has a least one. *)
LEMMA Least ==
    ASSUME NEW T \in SUBSET Nat, T # {}
    PROVE  \E m \in T : \A n \in T : m <= n
<1> DEFINE Below == OpToRel(<, Nat)
<1>1. IsWellFoundedOn(Below, Nat)
  BY NatLessThanWellFounded
<1>2. ASSUME NEW x \in Nat, NEW y \in Nat, y < x PROVE <<y, x>> \in Below
  BY <1>2 DEF OpToRel
<1> HIDE DEF Below
<1>3. PICK m \in T : \A y \in T : ~(<<y, m>> \in Below)
  <2>1. T \subseteq Nat
    OBVIOUS
  <2> QED
    BY <1>1, <2>1, WFMin
<1>4. ASSUME NEW n \in T PROVE m <= n
  <2>1. ~(n < m)
    BY <1>2, <1>3
  <2> QED
    BY <2>1
<1> QED
  BY <1>4

(* The artifacts of a package, and the operations it plans. *)
LEMMA KindsAre ==
    /\ Len(Kinds) \in Nat \ {0} /\ DOMAIN Kinds = 1..Len(Kinds)
    /\ Artifacts \subseteq {"first_text_lesson", "placement_quiz", "chapter_quiz"}
    /\ \A i \in DOMAIN Kinds : Kinds[i] \in Artifacts
    /\ \A i, j \in DOMAIN Kinds : Kinds[i] = Kinds[j] => i = j
    /\ \A kind \in Artifacts : \E i \in DOMAIN Kinds : Kinds[i] = kind
<1>1. Kinds \in Seq({"first_text_lesson", "placement_quiz", "chapter_quiz"})
  BY ActivationAssumption
<1>2. Kinds # <<>>
  BY ActivationAssumption DEF Artifacts
<1> QED
  BY <1>1, <1>2, NotEmpty, ElementOfSeq, ActivationAssumption DEF Artifacts

(* A plan has one original for each kind, in the order of the kinds. *)
LEMMA PlannedAre ==
    ASSUME NEW gen \in Generations
    PROVE  /\ DOMAIN Planned(gen) = DOMAIN Kinds
           /\ \A i \in DOMAIN Kinds : Planned(gen)[i] = Id(gen, Kinds[i], 0) /\ Planned(gen)[i] \in Ids
  BY KindsAre, ActivationAssumption DEF Planned, Id, Ids

(* A key tells a package from a regeneration. *)
LEMMA KeysApart == Package \notin Ids /\ \A id, view : Regeneration(id, view) # Package
<1>1. DOMAIN Package = {"what"} /\ \A id \in Ids : DOMAIN id = {"gen", "kind", "ordinal"}
  BY DEF Package, Ids
<1>2. \A id, view : DOMAIN Regeneration(id, view) = {"what", "id", "view"}
  BY DEF Regeneration
<1> QED
  BY <1>1, <1>2

(* The key of a regeneration is its artifact; a package has its own. *)
LEMMA KeysOf ==
    ASSUME NEW work \in Works
    PROVE  /\ work = Package => Key(work) = Package
           /\ work # Package => /\ Key(work) = work.id /\ Key(work) \in Ids /\ Key(work) # Package
                                /\ work = Regeneration(work.id, work.view) /\ work.view \in Open
<1>1. CASE work = Package
  BY <1>1 DEF Key, Package
<1>2. CASE work \in [what : {"regeneration"}, id : Ids, view : Open]
  BY <1>2, KeysApart DEF Key, Regeneration
<1> QED
  BY <1>1, <1>2, KeysApart DEF Works

-----------------------------------------------------------------------------
(* A step is one of a process, or the course is built again. *)
Generates(p) == run[p].pc = "generate" /\ Tried(p)
Registers(p) == \E kind \in Artifacts, key \in Keys : Regenerate(p, kind, key)
Replays(p) == \E kind \in Artifacts, key \in Keys : ReplayRegeneration(p, kind, key)
Completed(p) == CompleteTextLesson(p) \/ CompleteQuizBank(p)
Moves(p) ==
    \/ BeginPackage(p) \/ BeginRegeneration(p) \/ RegisterOperations(p) \/ SkipOperation(p)
    \/ Claim(p) \/ RecordFailure(p) \/ Generates(p) \/ Completed(p) \/ CompleteRefused(p)
    \/ Schedule(p) \/ Reject(p) \/ Crash(p) \/ Registers(p) \/ Replays(p)

(* A step of the system is a process that moves, a rebuild of the outline, or *)
(* a stutter. *)
LEMMA NextCases ==
    ASSUME [Next]_vars
    PROVE  (\E p \in Processes : Moves(p)) \/ ActivateGeneration \/ UNCHANGED vars
<1>1. ASSUME NEW p \in Processes, Step(p) PROVE Moves(p)
  BY <1>1 DEF Step, Moves, Generates, GenerateTextLesson, GenerateQuizBank, Completed
<1> QED
  BY <1>1 DEF Next, Moves, Registers, Replays

-----------------------------------------------------------------------------
(* Runs that the code starts with. *)
LEMMA RunningTyped == Idle \in Runs /\ \A todo \in Seq(Items) : Running(todo) \in Runs
<1>1. 0 \in 0..MaxAttempts
  BY ActivationAssumption
<1>2. <<>> \in Seq(Items)
  BY EmptySeq
<1>3. \A todo \in Seq(Items) : Running(todo) \in Runs
  BY <1>1 DEF Running, At, Runs
<1>4. Idle \in Runs
  BY <1>1, <1>2 DEF Idle, At, Runs
<1> QED
  BY <1>3, <1>4

-----------------------------------------------------------------------------
(* The initial state satisfies the invariant. *)
LEMMA InitInvariant == Init => ActivationInv
<1> SUFFICES ASSUME Init PROVE ActivationInv
  OBVIOUS
<1> USE ActivationAssumption DEF Init
<1>0. /\ Absent \in RowSet /\ Absent.status = "none" /\ Absent.key = None
      /\ Idle \in Runs /\ Idle.pc = "idle" /\ Idle.todo = <<>>
  BY RunningTyped DEF Absent, Row, RowSet, Statuses, Idle, At
<1>1. Types
  <2>1. 1 \in Generations /\ 0 \in 0..MaxFaults /\ 0 \in 0..MaxRequests
    BY DEF Generations
  <2>2. chapter \in [Generations -> {"pending", "generating", "ready"}]
    BY DEF Composed
  <2>3. tail \in [Processes -> Seq(Works)]
    BY EmptySeq
  <2>4. ops \in [Ids -> RowSet] /\ run \in [Processes -> Runs]
    BY <1>0
  <2> QED
    BY <2>1, <2>2, <2>3, <2>4 DEF Types
<1>2. RowsOK
  <2>1. \A g \in Generations : \A i \in DOMAIN Kinds : Id(g, Kinds[i], 0) \in Ids
    BY PlannedAre
  <2> QED
    BY <1>0, <2>1 DEF RowsOK, RowOK, RowsInOrder, RegisteredTogether, OldestFailed, Claimable
<1>3. ArtifactsOK /\ ReadyAfterQuiz
  BY <1>0 DEF ArtifactsOK, ReadyAfterQuiz, HasStored
<1>4. ProcessesOK
  BY <1>0 DEF ProcessesOK, ChainOK, TodoOK, PackageOK, RegenerationOK, ClaimOK, ClaimedByOne,
     Engaged, AtWork
<1>5. NothingDropped
  BY <1>0 DEF NothingDropped, Worked, Carried, Open, Claimable
<1> QED
  BY <1>1, <1>2, <1>3, <1>4, <1>5 DEF ActivationInv

-----------------------------------------------------------------------------
(* The types. *)
LEMMA RowsTyped ==
    ASSUME NEW status \in Statuses, NEW attempts \in 0..MaxAttempts,
           NEW failure \in {None} \cup {f.class : f \in Failures}, NEW key \in {None} \cup Keys
    PROVE  Row(status, attempts, failure, key) \in RowSet
  BY DEF Row, RowSet

(* A run that a process sets is a run. *)
LEMMA RunsTyped ==
    ASSUME NEW pc \in {"idle", "register", "operation", "generate", "complete", "fail"},
           NEW gen \in {0} \cup Generations, NEW todo \in Seq(Items),
           NEW attempt \in 0..MaxAttempts, NEW failure \in {None} \cup Failures
    PROVE  At(pc, gen, todo, attempt, failure) \in Runs
  BY DEF At, Runs

(* The active generation is a positive number. *)
LEMMA ActiveTyped == ASSUME Types PROVE generation \in Generations /\ generation \in Nat \ {0}
  BY ActivationAssumption DEF Types, Generations

(* The work of a process that is engaged. *)
LEMMA CurrentTyped ==
    ASSUME Types, NEW p \in Processes, TodoOK(p), Engaged(p)
    PROVE  /\ run[p].todo \in Seq(Items) /\ run[p].todo # <<>> /\ run[p] \in Runs
           /\ Current(p) = run[p].todo[1] /\ Current(p).id \in Ids /\ Current(p).view \in Statuses
           /\ Len(run[p].todo) \in Nat \ {0} /\ DOMAIN run[p].todo = 1..Len(run[p].todo)
           /\ ops[Current(p).id] \in RowSet /\ Current(p).id.gen \in Generations
<1>1. run[p] \in Runs /\ run[p].todo \in Seq(Items) /\ run[p].todo # <<>>
  BY DEF Types, Runs, TodoOK
<1>2. Head(run[p].todo) = run[p].todo[1] /\ Head(run[p].todo) \in Items
  BY <1>1, NotEmpty
<1> QED
  BY <1>1, <1>2, NotEmpty DEF Current, Items, Ids, Types

(* What ending, going on and chaining make of the queues. *)
LEMMA EndedTyped ==
    ASSUME Types, NEW p \in Processes, tail[p] # <<>>, Ended(p)
    PROVE  tail' \in [Processes -> Seq(Works)] /\ run' \in [Processes -> Runs]
<1>1. Tail(tail[p]) \in Seq(Works)
  BY NotEmpty DEF Types
<1> QED
  BY <1>1, RunningTyped DEF Ended, Types

(* Going on to the next operation keeps chain and run typed (executePackage). *)
LEMMA NextTyped ==
    ASSUME Types, NEW p \in Processes, tail[p] # <<>>, run[p].todo # <<>>, NextOperation(p)
    PROVE  tail' \in [Processes -> Seq(Works)] /\ run' \in [Processes -> Runs]
<1>1. Tail(run[p].todo) \in Seq(Items)
  BY NotEmpty DEF Types, Runs
<1> QED
  BY <1>1, RunningTyped, EndedTyped DEF NextOperation, Types

(* Work that is chained is appended to a chain of works. *)
LEMMA ChainedTyped ==
    ASSUME Types, NEW p \in Processes, NEW work \in Works, Chained(p, work)
    PROVE  tail' \in [Processes -> Seq(Works)]
<1>1. Append(tail[p], work) \in Seq(Works)
  BY Longer DEF Types
<1> QED
  BY <1>1 DEF Chained, Types

(* The operation that a regeneration follows, if an artifact has any. *)
LEMMA LatestIs ==
    ASSUME Types, NEW kind, Rows(kind) # {}
    PROVE  /\ Latest(kind) \in Rows(kind)
           /\ \A other \in Rows(kind) : other.ordinal <= Latest(kind).ordinal
<1> DEFINE Left == {MaxOrdinal - id.ordinal : id \in Rows(kind)}
<1>1. \A id \in Rows(kind) : id.ordinal \in 0..MaxOrdinal
  BY DEF Rows, Ids
<1>2. Left \in SUBSET Nat /\ Left # {}
  BY <1>1, ActivationAssumption
<1>3. PICK m \in Left : \A n \in Left : m <= n
  <2> HIDE DEF Left
  <2> QED
    BY <1>2, Least
<1>4. PICK id \in Rows(kind) : m = MaxOrdinal - id.ordinal
  BY <1>3
<1>5. \A other \in Rows(kind) : other.ordinal <= id.ordinal
  <2> SUFFICES ASSUME NEW other \in Rows(kind) PROVE other.ordinal <= id.ordinal
    OBVIOUS
  <2>1. MaxOrdinal - other.ordinal \in Left
    OBVIOUS
  <2>2. m <= MaxOrdinal - other.ordinal
    BY <1>3, <2>1
  <2> QED
    BY <1>1, <1>4, <2>2, ActivationAssumption
<1> QED
  BY <1>5 DEF Latest

(* Statuses and classes that the actions store. *)
LEMMA StatusesAre ==
    /\ {"none", "queued", "processing", "succeeded", "retry_scheduled", "failed_permanent"}
         \subseteq Statuses
    /\ Claimable \subseteq Statuses /\ Open \subseteq Statuses /\ Final \subseteq Statuses
    /\ \A f, attempts : FailedStatus(f, attempts) \in {"retry_scheduled", "failed_permanent"}
    /\ \A status \in Statuses : status \in Open \/ status \in Final \/ status = "none"
    /\ Claimable \cap Final = {} /\ "processing" \notin Claimable \cup Final
    /\ "none" \notin Open \cup Final
  BY DEF Statuses, Open, Final, Claimable, FailedStatus

(* A row that is registered is a row, and queued. *)
LEMMA QueuedTyped == \A key \in {None} \cup Keys : Queued(key) \in RowSet /\ Queued(key).status = "queued"
  BY ActivationAssumption DEF Queued, Row, RowSet, Statuses, Open, Claimable

(* What a registration makes of the rows, and of the run. *)
Stored(id) == IF ops[id] = Absent THEN Queued(None) ELSE ops[id]
Inserted ==
    ops' = [id \in Ids |-> IF \E i \in DOMAIN Planned(generation) : Planned(generation)[i] = id
                           THEN Stored(id) ELSE ops[id]]
Listed == [i \in DOMAIN Planned(generation) |->
             Item(Planned(generation)[i], Stored(Planned(generation)[i]).status)]

(* What registerOperations stores: absent originals of the active generation *)
(* become queued, nothing else changes, and the run lists every kind in its *)
(* order. *)
LEMMA Registration ==
    ASSUME Types, NEW p \in Processes, RegisterOperations(p), run[p].gen = generation
    PROVE  /\ Inserted /\ ops' \in [Ids -> RowSet]
           /\ \A id \in Ids :
                \/ ops'[id] = ops[id]
                \/ ops[id] = Absent /\ ops'[id] = Queued(None) /\ id.gen = generation /\ id.ordinal = 0
           /\ \A i \in DOMAIN Kinds : ops'[Id(generation, Kinds[i], 0)] = Stored(Id(generation, Kinds[i], 0))
           /\ run' = [run EXCEPT ![p] = Running(Listed)]
           /\ Listed \in Seq(Items) /\ DOMAIN Listed = DOMAIN Kinds /\ Len(Listed) = Len(Kinds)
           /\ \A i \in DOMAIN Kinds :
                Listed[i] = Item(Id(generation, Kinds[i], 0), ops'[Id(generation, Kinds[i], 0)].status)
<1>1. Inserted /\ run' = [run EXCEPT ![p] = Running(Listed)]
  BY DEF RegisterOperations, Inserted, Listed, Stored
<1>2. /\ DOMAIN Planned(generation) = DOMAIN Kinds
      /\ \A i \in DOMAIN Kinds : /\ Planned(generation)[i] = Id(generation, Kinds[i], 0)
                                 /\ Planned(generation)[i] \in Ids
  BY ActiveTyped, PlannedAre
<1>3. \A id \in Ids : Stored(id) \in RowSet
  BY QueuedTyped DEF Stored, Types
<1>4. ops' \in [Ids -> RowSet]
  BY <1>1, <1>3 DEF Inserted, Types
<1>5. ASSUME NEW id \in Ids
      PROVE  \/ ops'[id] = ops[id]
             \/ ops[id] = Absent /\ ops'[id] = Queued(None) /\ id.gen = generation /\ id.ordinal = 0
  <2>1. CASE \E i \in DOMAIN Planned(generation) : Planned(generation)[i] = id
    <3>1. id.gen = generation /\ id.ordinal = 0
      BY <1>2, <2>1 DEF Id
    <3>2. ops'[id] = Stored(id)
      BY <1>1, <2>1 DEF Inserted
    <3> QED
      BY <3>1, <3>2 DEF Stored
  <2>2. CASE ~ \E i \in DOMAIN Planned(generation) : Planned(generation)[i] = id
    BY <1>1, <2>2 DEF Inserted
  <2> QED
    BY <2>1, <2>2
<1>6. \A i \in DOMAIN Kinds : ops'[Id(generation, Kinds[i], 0)] = Stored(Id(generation, Kinds[i], 0))
  BY <1>1, <1>2 DEF Inserted
<1>7. /\ DOMAIN Listed = DOMAIN Kinds
      /\ \A i \in DOMAIN Kinds :
           Listed[i] = Item(Id(generation, Kinds[i], 0), ops'[Id(generation, Kinds[i], 0)].status)
  BY <1>2, <1>6 DEF Listed
<1>8. \A i \in DOMAIN Kinds : Listed[i] \in Items
  <2> SUFFICES ASSUME NEW i \in DOMAIN Kinds PROVE Listed[i] \in Items
    OBVIOUS
  <2>1. Id(generation, Kinds[i], 0) \in Ids
    BY <1>2
  <2>2. ops'[Id(generation, Kinds[i], 0)].status \in Statuses
    BY <1>4, <2>1 DEF RowSet
  <2> QED
    BY <1>7, <2>1, <2>2 DEF Item, Items
<1>9. Listed \in Seq(Items) /\ Len(Listed) = Len(Kinds)
  <2>1. Len(Kinds) \in Nat /\ DOMAIN Listed = 1..Len(Kinds)
    BY <1>7, KindsAre
  <2>2. Listed = [i \in 1..Len(Kinds) |-> Listed[i]]
    BY <1>2, <2>1 DEF Listed
  <2>3. Listed \in [1..Len(Kinds) -> Items]
    BY <1>7, <1>8, <2>1, <2>2
  <2>4. Listed \in Seq(Items)
    BY <2>1, <2>3, SeqDef
  <2> QED
    BY <2>1, <2>4, LenProperties
<1>10. \A id \in Ids :
          \/ ops'[id] = ops[id]
          \/ ops[id] = Absent /\ ops'[id] = Queued(None) /\ id.gen = generation /\ id.ordinal = 0
  BY <1>5
<1> HIDE DEF Listed
<1> QED
  BY <1>1, <1>4, <1>6, <1>7, <1>9, <1>10

(* A row moves in one of four ways: it is inserted, with the others of its *)
(* package or after those that failed, claimed, comes to a result of its   *)
(* attempt, or stays.                                                      *)
InsertsOriginal(id) ==
    /\ ops'[id] = Queued(None) /\ id.ordinal = 0
    /\ \E p \in Processes : RegisterOperations(p) /\ run[p].gen = generation
    /\ \A i \in DOMAIN Kinds : ops'[Id(generation, Kinds[i], 0)].status # "none"
InsertsRegeneration(id) ==
    /\ id.ordinal > 0 /\ \E key \in Keys : ops'[id] = Queued(key)
    /\ \E p \in Processes : Chained(p, Regeneration(id, "queued")) /\ run' = run
    /\ \A a \in Ids : a.gen = id.gen /\ a.kind = id.kind /\ a.ordinal < id.ordinal =>
         ops[a].status = "failed_permanent"
Inserts(id) ==
    ops[id] = Absent /\ id.gen = generation /\ (InsertsOriginal(id) \/ InsertsRegeneration(id))
Claims(id) ==
    /\ ClaimGuard(id) /\ \E p \in Processes : Claim(p) /\ Current(p).id = id
    /\ ops'[id] = Row("processing", ops[id].attempts + 1, None, ops[id].key)
Results(id) ==
    /\ ops[id].status = "processing"
    /\ \E p \in Processes : AtWork(p) /\ Current(p).id = id /\ ~AtWork(p)'
    /\ \E status \in {"succeeded", "retry_scheduled", "failed_permanent"},
          failure \in {None} \cup {f.class : f \in Failures} :
         /\ ops'[id] = Row(status, ops[id].attempts, failure, ops[id].key)
         /\ status = "retry_scheduled" => ops[id].attempts < MaxAttempts
         /\ status = "succeeded" => \E p \in Processes : Completed(p) /\ Current(p).id = id
RowMoves(id) == ops'[id] = ops[id] \/ Inserts(id) \/ Claims(id) \/ Results(id)

(* An operation that came to a result is no longer worked on. *)
LEMMA WorkEnds ==
    ASSUME Types, NEW p \in Processes, Completed(p) \/ RecordFailure(p), ops' # ops
    PROVE  ~AtWork(p)'
<1>1. NextOperation(p) \/ \E todo : run' = [run EXCEPT ![p] = Running(todo)]
  BY DEF Completed, CompleteTextLesson, CompleteQuizBank, RecordFailure
<1>2. \/ run' = [run EXCEPT ![p] = Idle]
      \/ \E todo : run' = [run EXCEPT ![p] = Running(todo)]
  BY <1>1 DEF NextOperation, Ended
<1>3. run'[p].pc \in {"idle", "operation"}
  BY <1>2 DEF Types, Idle, Running, At
<1> QED
  BY <1>3 DEF AtWork

(* Each row moves in one of the four ways. *)
LEMMA RowsMove ==
    ASSUME Types, ProcessesOK, RowsOK, [Next]_vars, NEW id \in Ids
    PROVE  RowMoves(id)
<1>0. ops \in [Ids -> RowSet]
  BY DEF Types
<1>1. ASSUME NEW p \in Processes, Registers(p) PROVE RowMoves(id)
  <2>1. PICK kind \in Artifacts, key \in Keys : Regenerate(p, kind, key)
    BY <1>1 DEF Registers
  <2> DEFINE new == Id(generation, kind, Latest(kind).ordinal + 1)
  <2>2. /\ ops' = [ops EXCEPT ![new] = Queued(key)] /\ Rows(kind) # {}
        /\ Chained(p, Regeneration(new, "queued")) /\ run' = run
    BY <2>1 DEF Regenerate, MayRegenerate
  <2>3. /\ Latest(kind) \in Rows(kind)
        /\ \A other \in Rows(kind) : other.ordinal <= Latest(kind).ordinal
    BY <2>2, LatestIs
  <2>4. Latest(kind).ordinal \in Nat
    BY <2>3, ActivationAssumption DEF Rows, Ids
  <2>5. new \notin Rows(kind) /\ new.ordinal > 0 /\ new.gen = generation /\ new.kind = kind
    BY <2>3, <2>4 DEF Id
  <2>6. new \in Ids => ops[new] = Absent
    BY <2>5 DEF Rows
  <2>7. ASSUME NEW a \in Ids, a.gen = generation, a.kind = kind, a.ordinal < new.ordinal
        PROVE  ops[a].status = "failed_permanent"
    <3>1. ops[Latest(kind)].status = "failed_permanent"
      BY <2>1 DEF Regenerate, MayRegenerate
    <3>2. Latest(kind) \in Ids /\ Latest(kind).gen = generation /\ Latest(kind).kind = kind
      BY <2>3 DEF Rows
    <3>3. a.ordinal = Latest(kind).ordinal \/ a.ordinal < Latest(kind).ordinal
      BY <2>4, <2>7, <3>2 DEF Id, Ids
    <3>4. a.ordinal = Latest(kind).ordinal => a = Latest(kind)
      BY <2>7, <3>2 DEF Ids
    <3> QED
      BY <2>7, <3>1, <3>2, <3>3, <3>4, StatusesAre DEF RowsOK, OldestFailed
  <2> HIDE DEF new
  <2>8. CASE id = new
    BY <1>0, <2>2, <2>5, <2>6, <2>7, <2>8 DEF RowMoves, Inserts, InsertsRegeneration
  <2> QED
    BY <1>0, <2>2, <2>8 DEF RowMoves
<1>2. ASSUME NEW p \in Processes, RegisterOperations(p) PROVE RowMoves(id)
  <2>1. CASE run[p].gen # generation
    BY <1>2, <2>1 DEF RegisterOperations, RowMoves, database
  <2>2. CASE run[p].gen = generation
    <3>1. \/ ops'[id] = ops[id]
          \/ ops[id] = Absent /\ ops'[id] = Queued(None) /\ id.gen = generation /\ id.ordinal = 0
      BY <1>2, <2>2, Registration
    <3>2. \A i \in DOMAIN Kinds : ops'[Id(generation, Kinds[i], 0)].status # "none"
      <4> SUFFICES ASSUME NEW i \in DOMAIN Kinds
                   PROVE  Stored(Id(generation, Kinds[i], 0)).status # "none"
        BY <1>2, <2>2, Registration
      <4>1. Id(generation, Kinds[i], 0) \in Ids
        BY ActiveTyped, PlannedAre
      <4> QED
        BY <4>1, QueuedTyped DEF Stored, RowsOK, RowOK
    <3> QED
      BY <1>2, <2>2, <3>1, <3>2 DEF RowMoves, Inserts, InsertsOriginal
  <2> QED
    BY <2>1, <2>2
<1>3. ASSUME NEW p \in Processes, Claim(p) PROVE RowMoves(id)
  <2>1. ops' = ops \/ (/\ ClaimGuard(Current(p).id)
                       /\ ops' = [ops EXCEPT ![Current(p).id] =
                            Row("processing", ops[Current(p).id].attempts + 1, None, ops[Current(p).id].key)])
    BY <1>3 DEF Claim
  <2> QED
    BY <1>0, <1>3, <2>1 DEF RowMoves, Claims
<1>4. ASSUME NEW p \in Processes, Completed(p) PROVE RowMoves(id)
  <2>1. /\ Holds(Current(p).id, run[p].attempt) /\ AtWork(p)
        /\ ops' = [ops EXCEPT ![Current(p).id] =
             Row("succeeded", ops[Current(p).id].attempts, None, ops[Current(p).id].key)]
    BY <1>4 DEF Completed, CompleteTextLesson, CompleteQuizBank, Completes, FinalizeSuccess, AtWork
  <2>2. CASE Current(p).id = id
    <3>1. ops'[id] = Row("succeeded", ops[id].attempts, None, ops[id].key)
      BY <1>0, <2>1, <2>2
    <3>2. ops[id].status = "processing"
      BY <2>1, <2>2 DEF Holds
    <3>3. ops'[id] # ops[id]
      BY <3>1, <3>2 DEF Row
    <3>4. ~AtWork(p)'
      BY <1>4, <3>3, WorkEnds
    <3> QED
      BY <1>4, <2>1, <2>2, <3>1, <3>2, <3>4 DEF RowMoves, Results
  <2>3. CASE Current(p).id # id
    BY <1>0, <2>1, <2>3 DEF RowMoves
  <2> QED
    BY <2>2, <2>3
<1>5. ASSUME NEW p \in Processes, RecordFailure(p) PROVE RowMoves(id)
  <2> DEFINE now == Current(p).id
             status == FailedStatus(run[p].failure, ops[now].attempts)
  <2>1. \/ ops' = ops
        \/ /\ Holds(now, run[p].attempt)
           /\ ops' = [ops EXCEPT ![now] =
                Row(status, ops[now].attempts, run[p].failure.class, ops[now].key)]
    BY <1>5 DEF RecordFailure
  <2>2. run[p].failure \in Failures
    BY <1>5 DEF RecordFailure, ProcessesOK, ClaimOK, AtWork
  <2>3. /\ status \in {"retry_scheduled", "failed_permanent"}
        /\ status = "retry_scheduled" => ops[now].attempts < MaxAttempts
    BY DEF FailedStatus
  <2>4. run[p].failure.class \in {f.class : f \in Failures}
    BY <2>2
  <2>5. AtWork(p)
    BY <1>5 DEF RecordFailure, AtWork
  <2>6. CASE now = id /\ ops' # ops
    <3>1. ~AtWork(p)'
      BY <1>5, <2>6, WorkEnds
    <3> QED
      BY <1>0, <2>1, <2>3, <2>4, <2>5, <2>6, <3>1 DEF RowMoves, Results, Holds
  <2>7. CASE now # id \/ ops' = ops
    <3> HIDE DEF now, status
    <3> QED
      BY <1>0, <2>1, <2>7 DEF RowMoves
  <2> QED
    BY <2>6, <2>7
<1>6. ASSUME NEW p \in Processes, Moves(p), ~Registers(p), ~RegisterOperations(p), ~Claim(p),
             ~Completed(p), ~RecordFailure(p)
      PROVE  RowMoves(id)
  BY <1>6 DEF Moves, BeginPackage, BeginRegeneration, SkipOperation, Generates, Tried,
     CompleteRefused, Schedule, Reject, Crash, Replays, ReplayRegeneration, database, RowMoves
<1>7. CASE ActivateGeneration \/ UNCHANGED vars
  BY <1>7 DEF ActivateGeneration, vars, database, RowMoves
<1> QED
  BY <1>1, <1>2, <1>3, <1>4, <1>5, <1>6, <1>7, NextCases

(* A row stays once it is there, and stays as it is once it is final. *)
LEMMA RowsStay ==
    ASSUME Types, NEW id \in Ids, RowMoves(id)
    PROVE  /\ ops[id].status # "none" => ops'[id].status # "none"
           /\ ops[id].status \in Final => ops'[id] = ops[id]
           /\ ops'[id].status = "none" => ops'[id] = ops[id]
           /\ ops'[id] \in RowSet
<1>0. ops[id] \in RowSet /\ Absent.status = "none"
  BY DEF Types, Absent, Row
<1>1. CASE ops'[id] = ops[id]
  BY <1>0, <1>1
<1>2. CASE Inserts(id)
  BY <1>0, <1>2, QueuedTyped, StatusesAre DEF Inserts, InsertsOriginal, InsertsRegeneration
<1>3. CASE Claims(id)
  <2>1. ops[id].attempts + 1 \in 0..MaxAttempts
    BY <1>0, <1>3, ActivationAssumption DEF Claims, ClaimGuard, RowSet
  <2>2. ops'[id] \in RowSet
    BY <1>0, <1>3, <2>1, RowsTyped, StatusesAre DEF Claims, RowSet
  <2> QED
    BY <1>3, <2>2, StatusesAre DEF Claims, ClaimGuard, Row
<1>4. CASE Results(id)
  <2>1. ops'[id] \in RowSet
    BY <1>0, <1>4, RowsTyped, StatusesAre DEF Results, RowSet
  <2> QED
    BY <1>4, <2>1, StatusesAre DEF Results, Row
<1> QED
  BY <1>1, <1>2, <1>3, <1>4 DEF RowMoves

(* Processes that have something to do have it on their chains. *)
LEMMA ChainsHold ==
    ASSUME Types, ProcessesOK, NEW p \in Processes
    PROVE  /\ run[p].pc # "idle" => tail[p] # <<>>
           /\ Engaged(p) => TodoOK(p) /\ run[p].todo # <<>>
           /\ tail[p] \in Seq(Works) /\ run[p] \in Runs /\ run[p].todo \in Seq(Items)
  BY DEF ProcessesOK, ChainOK, TodoOK, Types, Runs

(* Chains and runs stay typed whatever a process does. *)
LEMMA QueuesTyped ==
    ASSUME Types, ProcessesOK, RowsOK, NEW p \in Processes, Moves(p)
    PROVE  tail' \in [Processes -> Seq(Works)] /\ run' \in [Processes -> Runs]
<1>0. /\ run[p].pc # "idle" => tail[p] # <<>>
      /\ Engaged(p) => TodoOK(p) /\ run[p].todo # <<>>
      /\ tail \in [Processes -> Seq(Works)] /\ run \in [Processes -> Runs]
      /\ run[p].todo \in Seq(Items) /\ run[p].attempt \in 0..MaxAttempts
  BY ChainsHold DEF Types, Runs
<1>1. CASE Ended(p) /\ run[p].pc # "idle"
  BY <1>0, <1>1, EndedTyped
<1>2. CASE NextOperation(p) /\ Engaged(p)
  BY <1>0, <1>2, NextTyped DEF Engaged
<1>3. CASE BeginPackage(p)
  <2>1. <<>> \in Seq(Items) /\ 0 \in 0..MaxAttempts /\ generation \in Generations
    BY EmptySeq, ActiveTyped, ActivationAssumption
  <2>2. At("register", generation, <<>>, 0, None) \in Runs
    BY <2>1 DEF At, Runs
  <2> QED
    BY <1>0, <1>3, <2>2 DEF BeginPackage
<1>4. CASE BeginRegeneration(p)
  <2>1. /\ tail[p] # <<>> /\ Head(tail[p]) # Package
        /\ run' = [run EXCEPT ![p] = Running(<<Item(Head(tail[p]).id, Head(tail[p]).view)>>)]
    BY <1>4 DEF BeginRegeneration
  <2>2. Head(tail[p]) \in Works
    BY <1>0, <2>1, NotEmpty
  <2>3. Item(Head(tail[p]).id, Head(tail[p]).view) \in Items
    BY <2>1, <2>2, KeysOf, StatusesAre DEF Item, Items
  <2>4. Running(<<Item(Head(tail[p]).id, Head(tail[p]).view)>>) \in Runs
    BY <2>3, Single, RunningTyped
  <2> QED
    BY <1>0, <1>4, <2>1, <2>4 DEF BeginRegeneration
<1>5. CASE RegisterOperations(p) /\ run[p].gen = generation
  BY <1>0, <1>5, Registration, RunningTyped DEF RegisterOperations
<1>6. CASE Claim(p)
  <2>1. CASE NextOperation(p) \/ Ended(p)
    BY <1>1, <1>2, <1>6, <2>1 DEF Claim, Engaged
  <2>2. CASE /\ ClaimGuard(Current(p).id) /\ UNCHANGED tail
             /\ run' = [run EXCEPT ![p] =
                          At("generate", 0, run[p].todo, ops[Current(p).id].attempts + 1, None)]
    <3>1. ops[Current(p).id] \in RowSet
      BY <1>0, <1>6, CurrentTyped DEF Claim, Engaged
    <3>2. ops[Current(p).id].attempts + 1 \in 0..MaxAttempts
      BY <2>2, <3>1, ActivationAssumption DEF ClaimGuard, RowSet
    <3>3. At("generate", 0, run[p].todo, ops[Current(p).id].attempts + 1, None) \in Runs
      BY <1>0, <3>2, RunsTyped
    <3> QED
      BY <1>0, <1>6, <2>2, <3>3
  <2> QED
    BY <1>6, <2>1, <2>2 DEF Claim
<1>7. CASE Generates(p)
  <2>1. \A pc \in {"complete", "fail"}, failure \in {None} \cup Failures :
          At(pc, 0, run[p].todo, run[p].attempt, failure) \in Runs
    BY <1>0, RunsTyped
  <2>2. PICK pc \in {"complete", "fail"}, failure \in {None} \cup Failures :
          run' = [run EXCEPT ![p] = At(pc, 0, run[p].todo, run[p].attempt, failure)]
    BY <1>7 DEF Generates, Tried
  <2> QED
    BY <1>0, <1>7, <2>1, <2>2 DEF Generates, Tried
<1>8. CASE RecordFailure(p)
  <2>1. CASE NextOperation(p) \/ Ended(p)
    BY <1>1, <1>2, <1>8, <2>1 DEF RecordFailure, Engaged
  <2>2. CASE /\ UNCHANGED tail
             /\ run' = [run EXCEPT ![p] =
                  Running([run[p].todo EXCEPT ![1] = Item(Current(p).id, "retry_scheduled")])]
    <3>1. Item(Current(p).id, "retry_scheduled") \in Items
      BY <1>0, <1>8, CurrentTyped, StatusesAre DEF RecordFailure, Engaged, Item, Items
    <3>2. [run[p].todo EXCEPT ![1] = Item(Current(p).id, "retry_scheduled")] \in Seq(Items)
      BY <1>0, <1>8, <3>1, Headed DEF RecordFailure, Engaged
    <3> QED
      BY <1>0, <2>2, <3>2, RunningTyped
  <2> QED
    BY <1>8, <2>1, <2>2 DEF RecordFailure
<1>9. CASE Crash(p)
  BY <1>0, <1>9, EmptySeq, RunningTyped DEF Crash
<1>10. CASE Schedule(p)
  <2>1. Package \in Works
    BY DEF Works
  <2> QED
    BY <1>0, <1>10, <2>1, ChainedTyped DEF Schedule
<1>11. CASE Registers(p)
  <2>1. PICK kind \in Artifacts, key \in Keys : Regenerate(p, kind, key)
    BY <1>11 DEF Registers
  <2> DEFINE new == Id(generation, kind, Latest(kind).ordinal + 1)
  <2>2. Chained(p, Regeneration(new, "queued")) /\ UNCHANGED run /\ Rows(kind) # {}
        /\ Latest(kind).ordinal < MaxOrdinal
    BY <2>1 DEF Regenerate, MayRegenerate
  <2>3. new \in Ids
    <3>1. Latest(kind) \in Ids
      BY <2>2, LatestIs DEF Rows
    <3>2. Latest(kind).ordinal + 1 \in 0..MaxOrdinal
      BY <2>2, <3>1, ActivationAssumption DEF Ids
    <3> QED
      BY <3>2, ActiveTyped DEF Id, Ids
  <2>4. Regeneration(new, "queued") \in Works
    BY <2>3 DEF Regeneration, Works, Open, Claimable
  <2> QED
    BY <1>0, <2>2, <2>4, ChainedTyped
<1>12. CASE Replays(p)
  <2>1. PICK id \in Ids : /\ Chained(p, Regeneration(id, ops[id].status)) /\ UNCHANGED run
                          /\ ops[id].status \in Open
    BY <1>12 DEF Replays, ReplayRegeneration
  <2>2. Regeneration(id, ops[id].status) \in Works
    BY <2>1 DEF Regeneration, Works
  <2> QED
    BY <1>0, <2>1, <2>2, ChainedTyped
<1>13. CASE SkipOperation(p) \/ Completed(p) \/ CompleteRefused(p) \/ Reject(p)
  <2>1. (NextOperation(p) \/ Ended(p)) /\ run[p].pc # "idle" /\ (NextOperation(p) => Engaged(p) \/ Ended(p))
    BY <1>13 DEF SkipOperation, AfterOutcome, Completed, CompleteTextLesson, CompleteQuizBank,
       Completes,
       CompleteRefused, Reject, Engaged
  <2> QED
    BY <1>1, <1>2, <2>1
<1>14. CASE RegisterOperations(p) /\ run[p].gen # generation
  BY <1>1, <1>14 DEF RegisterOperations
<1> QED
  BY <1>3, <1>4, <1>5, <1>6, <1>7, <1>8, <1>9, <1>10, <1>11, <1>12, <1>13, <1>14 DEF Moves

(* What a step writes: rows one at a time, but for a registration. *)
LEMMA RowsWritten ==
    ASSUME Types, ProcessesOK, RowsOK, [Next]_vars
    PROVE  ops' \in [Ids -> RowSet] /\ \A id \in Ids : RowMoves(id)
<1>1. \A id \in Ids : RowMoves(id) /\ ops'[id] \in RowSet
  BY RowsMove, RowsStay
<1>2. ASSUME NEW p \in Processes, Moves(p)
      PROVE  \/ ops' = ops
             \/ \E id, row : ops' = [ops EXCEPT ![id] = row]
             \/ \E row : ops' = [id \in Ids |-> row[id]]
  <2>1. CASE Registers(p)
    BY <2>1 DEF Registers, Regenerate
  <2>2. CASE RegisterOperations(p)
    <3>1. CASE run[p].gen = generation
      <4>1. ops' \in [Ids -> RowSet]
        BY <2>2, <3>1, Registration
      <4> QED
        BY <4>1
    <3> QED
      BY <2>2, <3>1 DEF RegisterOperations, database
  <2>3. CASE Claim(p)
    BY <2>3 DEF Claim
  <2>4. CASE Completed(p)
    BY <2>4 DEF Completed, CompleteTextLesson, CompleteQuizBank, FinalizeSuccess
  <2>5. CASE RecordFailure(p)
    BY <2>5 DEF RecordFailure
  <2>6. CASE ~(Registers(p) \/ RegisterOperations(p) \/ Claim(p) \/ Completed(p) \/ RecordFailure(p))
    BY <1>2, <2>6 DEF Moves, BeginPackage, BeginRegeneration, SkipOperation, Generates, Tried,
       CompleteRefused, Schedule, Reject, Crash, Replays, ReplayRegeneration, database
  <2> QED
    BY <2>1, <2>2, <2>3, <2>4, <2>5, <2>6
<1>3. \/ ops' = ops
      \/ \E id, row : ops' = [ops EXCEPT ![id] = row]
      \/ \E row : ops' = [id \in Ids |-> row[id]]
  BY <1>2, NextCases DEF ActivateGeneration, vars, database
<1> QED
  BY <1>1, <1>3 DEF Types

(* The types are preserved. *)
LEMMA TypesStep ==
    ASSUME Types, ProcessesOK, RowsOK, [Next]_vars
    PROVE  Types'
<1>1. ops' \in [Ids -> RowSet]
  BY RowsWritten
<1>2. tail' \in [Processes -> Seq(Works)] /\ run' \in [Processes -> Runs]
  BY QueuesTyped, NextCases DEF ActivateGeneration, vars, queues, Types
<1>3. /\ faults' \in 0..MaxFaults /\ requests' \in 0..MaxRequests /\ lost' \in BOOLEAN
      /\ generation' \in Generations
  <2> USE ActivationAssumption DEF Types
  <2>1. ASSUME NEW p \in Processes, Moves(p)
        PROVE  /\ faults' = faults \/ (faults < MaxFaults /\ faults' = faults + 1)
               /\ requests' = requests \/ (requests < MaxRequests /\ requests' = requests + 1)
               /\ lost' = lost \/ lost' = TRUE
               /\ generation' = generation
    BY <2>1 DEF Moves, BeginPackage, BeginRegeneration, RegisterOperations, SkipOperation, Claim,
       RecordFailure, Generates, Tried, Completed, CompleteTextLesson, CompleteQuizBank,
       CompleteRefused, Schedule, Requested, Reject, Crash, Registers, Regenerate, Replays,
       ReplayRegeneration, database
  <2>2. ASSUME NEW p \in Processes, Moves(p)
        PROVE  /\ faults' \in 0..MaxFaults /\ requests' \in 0..MaxRequests /\ lost' \in BOOLEAN
               /\ generation' \in Generations
    <3>1. lost' = lost \/ lost' = TRUE
      BY <2>1, <2>2
    <3>2. lost' \in BOOLEAN
      BY <3>1, Zenon
    <3>3. faults' = faults \/ (faults < MaxFaults /\ faults' = faults + 1)
      BY <2>1, <2>2
    <3>4. requests' = requests \/ (requests < MaxRequests /\ requests' = requests + 1)
      BY <2>1, <2>2
    <3>5. faults' \in 0..MaxFaults /\ requests' \in 0..MaxRequests
      BY <3>3, <3>4
    <3>6. generation' \in Generations
      BY <2>1, <2>2
    <3> QED
      BY <3>2, <3>5, <3>6
  <2>3. CASE ActivateGeneration
    BY <2>3 DEF ActivateGeneration, Generations
  <2>4. CASE UNCHANGED vars
    BY <2>4 DEF vars, database
  <2> QED
    BY <2>2, <2>3, <2>4, NextCases
<1>4. artifacts' \subseteq [id : Ids, attempt : 1..MaxAttempts]
  <2>1. ASSUME NEW p \in Processes, Completed(p)
        PROVE  artifacts' \subseteq [id : Ids, attempt : 1..MaxAttempts]
    <3>1. /\ AtWork(p) /\ Engaged(p)
          /\ artifacts' = artifacts \cup {[id |-> Current(p).id, attempt |-> run[p].attempt]}
      BY <2>1 DEF Completed, CompleteTextLesson, CompleteQuizBank, Completes, FinalizeSuccess,
         AtWork, Engaged
    <3>2. Current(p).id \in Ids /\ run[p].attempt \in 1..MaxAttempts
      BY <3>1, CurrentTyped DEF ProcessesOK, ClaimOK
    <3> QED
      BY <3>1, <3>2 DEF Types
  <2>2. ASSUME NEW p \in Processes, Moves(p), ~Completed(p) PROVE artifacts' = artifacts
    BY <2>2 DEF Moves, BeginPackage, BeginRegeneration, RegisterOperations, SkipOperation, Claim,
       RecordFailure, Generates, Tried, CompleteRefused, Schedule, Reject, Crash, Registers,
       Regenerate, Replays, ReplayRegeneration, database
  <2> QED
    BY <2>1, <2>2, NextCases DEF ActivateGeneration, vars, database, Types
<1>5. chapter' \in [Generations -> {"pending", "generating", "ready"}]
  <2>1. ASSUME NEW p \in Processes, Moves(p)
        PROVE  \/ chapter' = chapter
               \/ \E g : \E status \in {"generating", "ready"} :
                    chapter' = [chapter EXCEPT ![g] = status]
    <3>1. CASE RegisterOperations(p)
      <4>1. CASE chapter' = [chapter EXCEPT ![generation] = IF @ = "pending" THEN "generating" ELSE @]
        <5>1. CASE chapter[generation] = "pending"
          BY <4>1, <5>1
        <5>2. CASE chapter[generation] # "pending"
          BY <4>1, <5>2, ActiveTyped DEF Types
        <5> QED
          BY <5>1, <5>2
      <4> QED
        BY <3>1, <4>1 DEF RegisterOperations, database
    <3>2. CASE CompleteQuizBank(p)
      BY <3>2 DEF CompleteQuizBank, ChapterStatus
    <3>3. CASE ~RegisterOperations(p) /\ ~CompleteQuizBank(p)
      BY <2>1, <3>3 DEF Moves, BeginPackage, BeginRegeneration, SkipOperation, Claim,
         RecordFailure, Generates, Tried, Completed, CompleteTextLesson, CompleteRefused, Schedule,
         Reject, Crash, Registers, Regenerate, Replays, ReplayRegeneration, database
    <3> QED
      BY <3>1, <3>2, <3>3
  <2>2. CASE ActivateGeneration
    BY <2>2 DEF ActivateGeneration, Types, Composed
  <2>3. CASE UNCHANGED vars
    BY <2>3 DEF vars, database, Types
  <2> QED
    BY <2>1, <2>2, <2>3, NextCases DEF Types
<1> QED
  BY <1>1, <1>2, <1>3, <1>4, <1>5 DEF Types

-----------------------------------------------------------------------------
(* The rows. *)

(* The course is built again, or keeps its generation. *)
LEMMA GenerationMoves ==
    ASSUME Types, [Next]_vars
    PROVE  \/ generation' = generation
           \/ ActivateGeneration /\ generation' = generation + 1 /\ generation' \in Generations
<1>1. ASSUME NEW p \in Processes, Moves(p) PROVE generation' = generation
  BY <1>1 DEF Moves, BeginPackage, BeginRegeneration, RegisterOperations, SkipOperation, Claim,
     RecordFailure, Generates, Tried, Completed, CompleteTextLesson, CompleteQuizBank,
     CompleteRefused, Schedule, Reject, Crash, Registers, Regenerate, Replays,
     ReplayRegeneration, database
<1>2. ActivateGeneration => generation' = generation + 1 /\ generation' \in Generations
  BY ActivationAssumption DEF ActivateGeneration, Types, Generations
<1>3. UNCHANGED vars => generation' = generation
  BY DEF vars, database
<1> QED
  BY <1>1, <1>2, <1>3, NextCases

(* What one row has to be, it stays under every move a row can make. *)
LEMMA RowStep ==
    ASSUME Types, [Next]_vars, NEW id \in Ids, RowOK(id), RowMoves(id)
    PROVE  RowOK(id)'
<1>0. /\ ops[id] \in RowSet /\ ops[id].attempts \in Nat /\ id.gen \in Nat
      /\ generation' >= generation /\ generation \in Nat /\ generation' \in Nat
  <2>1. id.gen \in Generations
    BY DEF Ids
  <2>2. id.gen \in Nat
    BY <2>1, ActivationAssumption DEF Generations
  <2>3. ops[id] \in RowSet
    BY DEF Types
  <2>4. ops[id].attempts \in Nat
    BY <2>3, ActivationAssumption DEF RowSet
  <2>5. generation' >= generation /\ generation \in Nat /\ generation' \in Nat
    BY ActiveTyped, GenerationMoves
  <2> QED
    BY <2>2, <2>3, <2>4, <2>5
<1>1. CASE ops'[id] = ops[id]
  BY <1>0, <1>1 DEF RowOK
<1>2. CASE Inserts(id)
  <2>1. PICK key \in {None} \cup Keys : ops'[id] = Queued(key) /\ (key # None => id.ordinal > 0)
    BY <1>2, ActivationAssumption DEF Inserts, InsertsOriginal, InsertsRegeneration
  <2>2. /\ ops'[id].status = "queued" /\ ops'[id].attempts = 0 /\ ops'[id].key = key
        /\ id.gen <= generation'
    BY <1>0, <1>2, <2>1 DEF Queued, Row, Inserts
  <2> QED
    BY <2>1, <2>2, ActivationAssumption DEF RowOK
<1>3. CASE Claims(id)
  <2>1. /\ ops'[id].status = "processing" /\ ops'[id].attempts = ops[id].attempts + 1
        /\ ops'[id].key = ops[id].key /\ ops[id].status # "none"
    BY <1>3 DEF Claims, ClaimGuard, Claimable, Row
  <2> QED
    BY <1>0, <2>1 DEF RowOK, Claimable
<1>4. CASE Results(id)
  <2>1. PICK status \in {"succeeded", "retry_scheduled", "failed_permanent"} :
          /\ ops'[id].status = status /\ ops'[id].attempts = ops[id].attempts
          /\ ops'[id].key = ops[id].key /\ ops[id].status = "processing"
          /\ status = "retry_scheduled" => ops[id].attempts < MaxAttempts
    BY <1>4 DEF Results, Row
  <2> QED
    BY <1>0, <2>1 DEF RowOK, Claimable
<1> QED
  BY <1>1, <1>2, <1>3, <1>4 DEF RowMoves

(* A claimed original is claimed by a package, whose earlier ones are final. *)
LEMMA ClaimsInOrder ==
    ASSUME Types, ProcessesOK, NEW p \in Processes, Claim(p), NEW g \in Generations,
           NEW j \in DOMAIN Kinds, Current(p).id = Id(g, Kinds[j], 0)
    PROVE  /\ InPackage(p) /\ Place(p, 1) = j
           /\ \A i \in DOMAIN Kinds : i < j => ops[Id(g, Kinds[i], 0)].status \in Final
<1>0. Engaged(p) /\ TodoOK(p) /\ PackageOK(p) /\ RegenerationOK(p) /\ ChainOK(p)
  BY DEF Claim, Engaged, ProcessesOK
<1>1. tail[p] # <<>> /\ tail[p] \in Seq(Works) /\ Head(tail[p]) = tail[p][1] /\ 1 \in DOMAIN tail[p]
  <2>1. tail[p] # <<>> /\ tail[p] \in Seq(Works)
    BY <1>0, ChainsHold DEF Engaged
  <2> QED
    BY <2>1, NotEmpty
<1>2. InPackage(p)
  BY <1>0, <1>1 DEF RegenerationOK, ChainOK, InPackage, Id
<1>3. /\ Len(run[p].todo) \in Nat \ {0} /\ DOMAIN run[p].todo = 1..Len(run[p].todo)
      /\ Current(p) = run[p].todo[1] /\ Len(run[p].todo) <= Len(Kinds)
  BY <1>0, <1>2, CurrentTyped DEF PackageOK
<1>4. Place(p, 1) \in DOMAIN Kinds
  BY <1>3, KindsAre DEF Place
<1>5. Current(p).id = Id(Current(p).id.gen, Kinds[Place(p, 1)], 0)
  BY <1>0, <1>2, <1>3 DEF PackageOK
<1>6. Kinds[Place(p, 1)] = Kinds[j] /\ Current(p).id.gen = g
  BY <1>5 DEF Id
<1>7. Place(p, 1) = j
  BY <1>4, <1>6, KindsAre
<1> QED
  BY <1>0, <1>2, <1>6, <1>7 DEF PackageOK

(* The conditions on the rows are preserved. *)
LEMMA RowsStep ==
    ASSUME Types, ProcessesOK, RowsOK, [Next]_vars
    PROVE  RowsOK'
<1>0. \A id \in Ids : RowMoves(id)
  BY RowsWritten
<1>1. \A id \in Ids : /\ ops[id].status # "none" => ops'[id].status # "none"
                      /\ ops[id].status \in Final => ops'[id] = ops[id]
                      /\ ops'[id].status = "none" => ops'[id] = ops[id]
  BY <1>0, RowsStay
<1>2. ASSUME NEW id \in Ids PROVE RowOK(id)'
  BY <1>0, RowStep DEF RowsOK
<1>3. ASSUME NEW g \in Generations PROVE \A i \in DOMAIN Kinds : Id(g, Kinds[i], 0) \in Ids
  BY PlannedAre
<1>4. RowsInOrder'
  <2> SUFFICES ASSUME NEW g \in Generations, NEW i \in DOMAIN Kinds, NEW j \in DOMAIN Kinds, i < j,
                      ops'[Id(g, Kinds[j], 0)].status \notin {"none", "queued"}
               PROVE  ops'[Id(g, Kinds[i], 0)].status \in Final
    BY DEF RowsInOrder
  <2> DEFINE a == Id(g, Kinds[i], 0)
             b == Id(g, Kinds[j], 0)
  <2>1. a \in Ids /\ b \in Ids
    BY <1>3
  <2>2. ops[a].status \in Final
    <3>1. CASE ops'[b] = ops[b] \/ Results(b)
      BY <3>1 DEF RowsOK, RowsInOrder, Results
    <3>2. CASE Inserts(b)
      BY <3>2, QueuedTyped, ActivationAssumption DEF Inserts, InsertsOriginal, InsertsRegeneration
    <3>3. CASE Claims(b)
      BY <3>3, ClaimsInOrder DEF Claims
    <3> QED
      BY <1>0, <2>1, <3>1, <3>2, <3>3 DEF RowMoves
  <2> QED
    BY <1>1, <2>1, <2>2
<1>5. RegisteredTogether'
  <2> SUFFICES ASSUME NEW g \in Generations, NEW i \in DOMAIN Kinds, NEW j \in DOMAIN Kinds,
                      ops'[Id(g, Kinds[i], 0)].status = "none",
                      ops'[Id(g, Kinds[j], 0)].status # "none"
               PROVE  FALSE
    BY DEF RegisteredTogether
  <2> DEFINE a == Id(g, Kinds[i], 0)
             b == Id(g, Kinds[j], 0)
  <2>1. a \in Ids /\ b \in Ids /\ b.gen = g /\ b.ordinal = 0
    BY <1>3 DEF Id
  <2>2. ops[b].status = "none"
    <3>1. ops[a].status = "none"
      BY <1>1, <2>1
    <3> QED
      BY <3>1 DEF RowsOK, RegisteredTogether
  <2>3. Inserts(b)
    BY <1>0, <2>1, <2>2 DEF RowMoves, Claims, ClaimGuard, Claimable, Results
  <2> QED
    BY <2>1, <2>3 DEF Inserts, InsertsOriginal, InsertsRegeneration
<1>6. OldestFailed'
  <2> SUFFICES ASSUME NEW a \in Ids, NEW b \in Ids, a.gen = b.gen, a.kind = b.kind,
                      a.ordinal < b.ordinal, ops'[b].status # "none"
               PROVE  ops'[a].status = "failed_permanent"
    BY DEF OldestFailed
  <2>1. ops[a].status = "failed_permanent"
    <3>1. CASE ops[b].status # "none"
      BY <3>1 DEF RowsOK, OldestFailed
    <3>2. CASE ops[b].status = "none"
      <4>1. Inserts(b)
        BY <1>0, <3>2 DEF RowMoves, Claims, ClaimGuard, Claimable, Results
      <4>2. a.ordinal \in Nat /\ b.ordinal # 0
        BY DEF Ids
      <4> QED
        BY <4>1, <4>2 DEF Inserts, InsertsOriginal, InsertsRegeneration
    <3> QED
      BY <3>1, <3>2
  <2> QED
    BY <1>1, <2>1, StatusesAre DEF Final
<1> QED
  BY <1>2, <1>4, <1>5, <1>6 DEF RowsOK

-----------------------------------------------------------------------------
(* The artifacts. *)
LEMMA ArtifactsMove ==
    ASSUME [Next]_vars
    PROVE  artifacts' = artifacts \/ \E p \in Processes : Completed(p)
<1>1. ASSUME NEW p \in Processes, Moves(p), ~Completed(p) PROVE artifacts' = artifacts
  BY <1>1 DEF Moves, BeginPackage, BeginRegeneration, RegisterOperations, SkipOperation, Claim,
     RecordFailure, Generates, Tried, CompleteRefused, Schedule, Reject, Crash, Registers,
     Regenerate, Replays, ReplayRegeneration, database
<1> QED
  BY <1>1, NextCases DEF ActivateGeneration, vars, database

(* What a completion stores, and where. *)
LEMMA CompletedStores ==
    ASSUME Types, ProcessesOK, NEW p \in Processes, Completed(p)
    PROVE  /\ AtWork(p) /\ Engaged(p) /\ Current(p).id \in Ids /\ Current(p).id.gen = generation
           /\ run[p].attempt \in 1..MaxAttempts /\ Holds(Current(p).id, run[p].attempt)
           /\ artifacts' = artifacts \cup {[id |-> Current(p).id, attempt |-> run[p].attempt]}
           /\ ops' = [ops EXCEPT ![Current(p).id] =
                        Row("succeeded", ops[Current(p).id].attempts, None, ops[Current(p).id].key)]
           /\ ops'[Current(p).id].status = "succeeded" /\ ops'[Current(p).id].attempts = run[p].attempt
<1>1. /\ AtWork(p) /\ Engaged(p) /\ Current(p).id.gen = generation
      /\ artifacts' = artifacts \cup {[id |-> Current(p).id, attempt |-> run[p].attempt]}
      /\ ops' = [ops EXCEPT ![Current(p).id] =
                   Row("succeeded", ops[Current(p).id].attempts, None, ops[Current(p).id].key)]
  BY DEF Completed, CompleteTextLesson, CompleteQuizBank, Completes, FinalizeSuccess,
     AtWork, Engaged, Linked
<1>2. /\ Current(p).id \in Ids /\ run[p].attempt \in 1..MaxAttempts
      /\ Holds(Current(p).id, run[p].attempt)
  BY <1>1, CurrentTyped DEF ProcessesOK, ClaimOK
<1>3. ops'[Current(p).id].status = "succeeded" /\ ops'[Current(p).id].attempts = run[p].attempt
  BY <1>1, <1>2 DEF Types, Row, Holds
<1> QED
  BY <1>1, <1>2, <1>3

(* The conditions on the stored artifacts are preserved. *)
LEMMA ArtifactsStep ==
    ASSUME Types, ProcessesOK, RowsOK, ArtifactsOK, [Next]_vars
    PROVE  ArtifactsOK'
<1>0. /\ \A id \in Ids : RowMoves(id)
      /\ \A id \in Ids : ops[id].status \in Final => ops'[id] = ops[id]
      /\ \A a \in artifacts : a.id \in Ids
  BY RowsWritten, RowsStay DEF Types
<1>1. \A a \in artifacts : ops'[a.id].status = "succeeded" /\ a.attempt = ops'[a.id].attempts
  BY <1>0 DEF ArtifactsOK, Final
<1>2. \A a \in artifacts' : ops'[a.id].status = "succeeded" /\ a.attempt = ops'[a.id].attempts
  <2>1. ASSUME NEW p \in Processes, Completed(p)
        PROVE  \A a \in artifacts' : ops'[a.id].status = "succeeded" /\ a.attempt = ops'[a.id].attempts
    BY <1>1, <2>1, CompletedStores
  <2> QED
    BY <1>1, <2>1, ArtifactsMove
<1>3. ASSUME NEW id \in Ids, ops'[id].status = "succeeded" PROVE \E a \in artifacts' : a.id = id
  <2>1. CASE ops'[id] = ops[id]
    <3>1. PICK a \in artifacts : a.id = id
      BY <1>3, <2>1 DEF ArtifactsOK
    <3>2. a \in artifacts'
      BY <3>1, ArtifactsMove, CompletedStores
    <3> QED
      BY <3>1, <3>2
  <2>2. CASE Results(id)
    <3>1. PICK p \in Processes : Completed(p) /\ Current(p).id = id
      BY <1>3, <2>2 DEF Results, Row
    <3>2. [id |-> Current(p).id, attempt |-> run[p].attempt] \in artifacts'
      BY <3>1, CompletedStores
    <3> QED
      BY <3>1, <3>2
  <2>3. ~Inserts(id) /\ ~Claims(id)
    <3>1. ~Inserts(id)
      BY <1>3, QueuedTyped, StatusesAre DEF Inserts, InsertsOriginal, InsertsRegeneration
    <3>2. ~Claims(id)
      BY <1>3 DEF Claims, Row
    <3> QED
      BY <3>1, <3>2
  <2> QED
    BY <1>0, <2>1, <2>2, <2>3 DEF RowMoves
<1> QED
  BY <1>2, <1>3 DEF ArtifactsOK

-----------------------------------------------------------------------------
(* What a step makes of the queue of a process.  It keeps its work, or gets *)
(* more; it ends the work at the head of its chain, or crashes; it begins a *)
(* work; a package takes the list of its operations; it claims an operation *)
(* or works on with its claim; it has to try again; or it goes on to the    *)
(* operation after one that is final.                                       *)
Stays(p) == run'[p] = run[p] /\ tail'[p] = tail[p]
Grows(p) ==
    /\ run'[p] = run[p]
    /\ \E work \in Works :
         /\ tail'[p] = Append(tail[p], work) /\ Key(work) \notin Scheduled(p)
         /\ work # Package => work.id.ordinal > 0 /\ ops'[work.id].status # "none"
Yields(p) ==
    /\ run[p].pc = "operation" /\ ops[Current(p).id].status = "processing"
    /\ \A q \in Processes \ {p} : Stays(q)
MayEnd(p) ==
    \/ lost' = TRUE
    \/ ~Leads(p)
    \/ Current(p).id.gen # generation
    \/ Len(run[p].todo) = 1 /\ ops'[Current(p).id].status \in Final
    \/ Yields(p)
Ends(p) == run[p].pc # "idle" /\ Ended(p) /\ MayEnd(p)
Lists(p) == RegisterOperations(p) /\ run[p].gen = generation
WorksOn(p) ==
    /\ Engaged(p) /\ Leads(p) /\ tail'[p] = tail[p]
    /\ \E pc \in {"generate", "complete", "fail"}, attempt \in 1..MaxAttempts,
          failure \in {None} \cup Failures :
         /\ run'[p] = At(pc, 0, run[p].todo, attempt, failure)
         /\ ops'[Current(p).id].status = "processing" /\ ops'[Current(p).id].attempts = attempt
         /\ pc = "fail" => failure \in Failures
    /\ AtWork(p) \/ ops[Current(p).id].status \in Claimable
Retries(p) ==
    /\ AtWork(p) /\ tail'[p] = tail[p]
    /\ run'[p] = Running([run[p].todo EXCEPT ![1] = Item(Current(p).id, "retry_scheduled")])
    /\ ops'[Current(p).id].status = "retry_scheduled"
GoesOn(p) ==
    /\ Engaged(p) /\ tail'[p] = tail[p] /\ Len(run[p].todo) # 1
    /\ run'[p] = Running(Tail(run[p].todo))
    /\ ops'[Current(p).id].status \in Final
QueueMoves(p) ==
    \/ Stays(p) \/ Grows(p) \/ Ends(p) \/ Crash(p) \/ BeginPackage(p) \/ BeginRegeneration(p)
    \/ Lists(p) \/ WorksOn(p) \/ Retries(p) \/ GoesOn(p)

(* A process moves no queue but its own. *)
LEMMA OthersStay ==
    ASSUME Types, NEW p \in Processes, Moves(p), NEW q \in Processes \ {p}
    PROVE  Stays(q)
<1>1. (\E t : tail' = [tail EXCEPT ![p] = t]) \/ tail' = tail
  <2>1. Ended(p) => \E t : tail' = [tail EXCEPT ![p] = t]
    BY DEF Ended
  <2>2. NextOperation(p) => (\E t : tail' = [tail EXCEPT ![p] = t]) \/ tail' = tail
    BY <2>1 DEF NextOperation
  <2>3. \A work : Chained(p, work) => \E t : tail' = [tail EXCEPT ![p] = t]
    BY DEF Chained
  <2> QED
    BY <2>1, <2>2, <2>3 DEF Moves, BeginPackage, BeginRegeneration, RegisterOperations,
       SkipOperation, AfterOutcome, Claim, RecordFailure, Generates, Tried, Completed,
       CompleteTextLesson, CompleteQuizBank, CompleteRefused, Schedule, Reject, Crash,
       Registers, Regenerate, Replays, ReplayRegeneration
<1>2. (\E r : run' = [run EXCEPT ![p] = r]) \/ run' = run
  <2>1. Ended(p) => \E r : run' = [run EXCEPT ![p] = r]
    BY DEF Ended
  <2>2. NextOperation(p) => \E r : run' = [run EXCEPT ![p] = r]
    BY <2>1 DEF NextOperation
  <2> QED
    BY <2>1, <2>2 DEF Moves, BeginPackage, BeginRegeneration, RegisterOperations,
       SkipOperation, AfterOutcome, Claim, RecordFailure, Generates, Tried, Completed,
       CompleteTextLesson, CompleteQuizBank, CompleteRefused, Schedule, Reject, Crash,
       Registers, Regenerate, Replays, ReplayRegeneration
<1> QED
  BY <1>1, <1>2 DEF Stays, Types

(* Chained work is new on the chain, or leaves it as it is. *)
LEMMA ChainedMoves ==
    ASSUME Types, NEW p \in Processes, NEW work \in Works, Chained(p, work), UNCHANGED run,
           work # Package => work.id.ordinal > 0 /\ ops'[work.id].status # "none"
    PROVE  Stays(p) \/ Grows(p)
  BY DEF Chained, Stays, Grows, Types

(* An operation that ended well or for good is followed by the next, if any. *)
LEMMA NextMoves ==
    ASSUME Types, ProcessesOK, NEW p \in Processes, Engaged(p), NextOperation(p),
           ops'[Current(p).id].status \in Final
    PROVE  GoesOn(p) \/ Ends(p)
<1>1. CASE Len(run[p].todo) = 1
  BY <1>1 DEF NextOperation, Ends, MayEnd, Engaged
<1>2. CASE Len(run[p].todo) # 1
  BY <1>2 DEF NextOperation, GoesOn, Types
<1> QED
  BY <1>1, <1>2

(* An operation that is skipped is final, so its process goes on or ends. *)
LEMMA SkipMoves ==
    ASSUME Types, ProcessesOK, NEW p \in Processes, SkipOperation(p)
    PROVE  GoesOn(p) \/ Ends(p)
<1>0. /\ Engaged(p) /\ TodoOK(p) /\ RegenerationOK(p) /\ ops' = ops /\ run[p].pc # "idle"
      /\ Current(p).view \notin Claimable
  BY DEF SkipOperation, Engaged, ProcessesOK, database
<1>1. /\ Current(p) = run[p].todo[1] /\ 1 \in DOMAIN run[p].todo /\ Current(p).view \in Statuses
      /\ Current(p).view # "none"
  BY <1>0, CurrentTyped DEF TodoOK
<1>2. CASE Current(p).view \in Final
  <2>1. ops'[Current(p).id].status \in Final
    BY <1>0, <1>1, <1>2 DEF TodoOK
  <2>2. NextOperation(p)
    BY <1>2, StatusesAre DEF SkipOperation, AfterOutcome
  <2> QED
    BY <1>0, <2>1, <2>2, NextMoves
<1>3. CASE Current(p).view = "processing"
  <2>1. ~Leads(p)
    BY <1>0 DEF Leads
  <2>2. Ended(p)
    BY <1>0, <1>3 DEF SkipOperation, AfterOutcome, NextOperation, RegenerationOK
  <2> QED
    BY <1>0, <2>1, <2>2 DEF Ends, MayEnd
<1> QED
  BY <1>0, <1>1, <1>2, <1>3 DEF Statuses, Open

(* A claim goes to work, or its process goes on or ends when it gets none. *)
LEMMA ClaimMoves ==
    ASSUME Types, ProcessesOK, RowsOK, NEW p \in Processes, Claim(p)
    PROVE  GoesOn(p) \/ Ends(p) \/ WorksOn(p)
<1>0. /\ Engaged(p) /\ TodoOK(p) /\ run[p].pc = "operation" /\ Leads(p)
      /\ Moves(p)
  BY DEF Claim, Engaged, ProcessesOK, Leads, Moves
<1>1. /\ Current(p) = run[p].todo[1] /\ 1 \in DOMAIN run[p].todo /\ Current(p).id \in Ids
      /\ ops[Current(p).id] \in RowSet /\ ops[Current(p).id].status # "none"
  BY <1>0, CurrentTyped DEF TodoOK
<1>2. CASE /\ ClaimGuard(Current(p).id) /\ UNCHANGED tail
           /\ ops' = [ops EXCEPT ![Current(p).id] =
                        Row("processing", ops[Current(p).id].attempts + 1, None, ops[Current(p).id].key)]
           /\ run' = [run EXCEPT ![p] =
                        At("generate", 0, run[p].todo, ops[Current(p).id].attempts + 1, None)]
  <2>1. ops[Current(p).id].attempts + 1 \in 1..MaxAttempts
    BY <1>1, <1>2, ActivationAssumption DEF ClaimGuard, RowSet
  <2>2. /\ ops'[Current(p).id].status = "processing"
        /\ ops'[Current(p).id].attempts = ops[Current(p).id].attempts + 1
    BY <1>1, <1>2 DEF Types, Row
  <2>3. run'[p] = At("generate", 0, run[p].todo, ops[Current(p).id].attempts + 1, None)
    BY <1>2 DEF Types
  <2> QED
    BY <1>0, <1>2, <2>1, <2>2, <2>3 DEF WorksOn, ClaimGuard
<1>3. CASE /\ ~ClaimGuard(Current(p).id) /\ ops[Current(p).id].status \in Final
           /\ NextOperation(p) /\ UNCHANGED ops
  BY <1>0, <1>3, NextMoves
<1>4. CASE /\ ~ClaimGuard(Current(p).id) /\ ops[Current(p).id].status \notin Final
           /\ Ended(p) /\ UNCHANGED ops
  <2>1. ops[Current(p).id].status \in Claimable \/ ops[Current(p).id].status = "processing"
    BY <1>1, <1>4, StatusesAre DEF RowSet, Open
  <2>2. ops[Current(p).id].status \in Claimable => Current(p).id.gen # generation
    BY <1>1, <1>4 DEF ClaimGuard, RowsOK, RowOK
  <2>3. ops[Current(p).id].status = "processing" => Yields(p)
    BY <1>0, OthersStay DEF Yields
  <2> QED
    BY <1>0, <1>4, <2>1, <2>2, <2>3 DEF Ends, MayEnd
<1> QED
  BY <1>2, <1>3, <1>4 DEF Claim

(* After a recorded failure the process retries, goes on or ends. *)
LEMMA FailureMoves ==
    ASSUME Types, ProcessesOK, NEW p \in Processes, RecordFailure(p)
    PROVE  GoesOn(p) \/ Ends(p) \/ Retries(p)
<1> DEFINE status == FailedStatus(run[p].failure, ops[Current(p).id].attempts)
<1>0. /\ Engaged(p) /\ AtWork(p) /\ TodoOK(p)
      /\ Holds(Current(p).id, run[p].attempt)
  BY DEF RecordFailure, Engaged, AtWork, ProcessesOK, ClaimOK
<1>1. Current(p).id \in Ids
  BY <1>0, CurrentTyped
<1>2. /\ ops' = [ops EXCEPT ![Current(p).id] =
                   Row(status, ops[Current(p).id].attempts, run[p].failure.class, ops[Current(p).id].key)]
      /\ \/ /\ status = "retry_scheduled" /\ UNCHANGED tail
            /\ run' = [run EXCEPT ![p] =
                         Running([run[p].todo EXCEPT ![1] = Item(Current(p).id, status)])]
         \/ status # "retry_scheduled" /\ NextOperation(p)
  BY <1>0 DEF RecordFailure
<1>3. ops'[Current(p).id].status = status
  BY <1>1, <1>2 DEF Types, Row
<1>4. status \in {"retry_scheduled", "failed_permanent"}
  BY StatusesAre
<1> HIDE DEF status
<1>5. CASE /\ status = "retry_scheduled" /\ UNCHANGED tail
           /\ run' = [run EXCEPT ![p] =
                        Running([run[p].todo EXCEPT ![1] = Item(Current(p).id, status)])]
  BY <1>0, <1>3, <1>5 DEF Retries, Types
<1>6. CASE status # "retry_scheduled" /\ NextOperation(p)
  BY <1>0, <1>3, <1>4, <1>6, NextMoves DEF Final
<1> QED
  BY <1>2, <1>5, <1>6

(* After a stored artifact the process goes on or ends. *)
LEMMA CompletedMoves ==
    ASSUME Types, ProcessesOK, NEW p \in Processes, Completed(p)
    PROVE  GoesOn(p) \/ Ends(p)
<1>1. Engaged(p) /\ ops'[Current(p).id].status \in Final
  BY CompletedStores DEF Final
<1>2. NextOperation(p)
  BY DEF Completed, CompleteTextLesson, CompleteQuizBank
<1> QED
  BY <1>1, <1>2, NextMoves

(* A refused completion ends the work of its process. *)
LEMMA RefusedMoves ==
    ASSUME Types, ProcessesOK, NEW p \in Processes, CompleteRefused(p)
    PROVE  Ends(p)
<1>1. Holds(Current(p).id, run[p].attempt) /\ run[p].pc = "complete"
  BY DEF CompleteRefused, AtWork, ProcessesOK, ClaimOK
<1>2. Current(p).id.gen # generation
  BY <1>1 DEF CompleteRefused, Completes, Linked
<1>3. Ended(p)
  BY <1>1 DEF CompleteRefused, Holds
<1> QED
  BY <1>1, <1>2, <1>3 DEF Ends, MayEnd

(* Generation keeps the process at the operation it claimed. *)
LEMMA GeneratesMoves ==
    ASSUME Types, ProcessesOK, NEW p \in Processes, Generates(p)
    PROVE  WorksOn(p)
<1>0. /\ Engaged(p) /\ AtWork(p) /\ ops' = ops /\ tail' = tail
      /\ Current(p).view \in Claimable /\ run[p].attempt \in 1..MaxAttempts
      /\ Holds(Current(p).id, run[p].attempt)
  BY DEF Generates, Tried, Engaged, AtWork, ProcessesOK, ClaimOK, database
<1>1. PICK pc \in {"complete", "fail"}, failure \in {None} \cup Failures :
        /\ run' = [run EXCEPT ![p] = At(pc, 0, run[p].todo, run[p].attempt, failure)]
        /\ pc = "fail" => failure \in Failures
  BY DEF Generates, Tried
<1>2. run'[p] = At(pc, 0, run[p].todo, run[p].attempt, failure)
  BY <1>1 DEF Types
<1> QED
  BY <1>0, <1>1, <1>2 DEF WorksOn, Leads, Holds

(* A request adds work to the chain of a process or leaves it alone. *)
LEMMA RequestMoves ==
    ASSUME Types, RowsOK, [Next]_vars, NEW p \in Processes, Schedule(p) \/ Registers(p) \/ Replays(p)
    PROVE  Stays(p) \/ Grows(p)
<1>1. CASE Schedule(p)
  <2>1. Package \in Works
    BY DEF Works
  <2> QED
    BY <1>1, <2>1, ChainedMoves DEF Schedule
<1>2. CASE Registers(p)
  <2>1. PICK kind \in Artifacts, key \in Keys : Regenerate(p, kind, key)
    BY <1>2 DEF Registers
  <2> DEFINE new == Id(generation, kind, Latest(kind).ordinal + 1)
  <2>2. /\ Chained(p, Regeneration(new, "queued")) /\ UNCHANGED run /\ Rows(kind) # {}
        /\ ops' = [ops EXCEPT ![new] = Queued(key)] /\ Latest(kind).ordinal < MaxOrdinal
    BY <2>1 DEF Regenerate, MayRegenerate
  <2>3. new \in Ids /\ new.ordinal > 0
    <3>1. Latest(kind) \in Ids
      BY <2>2, LatestIs DEF Rows
    <3>2. Latest(kind).ordinal + 1 \in 0..MaxOrdinal /\ Latest(kind).ordinal + 1 > 0
      BY <2>2, <3>1, ActivationAssumption DEF Ids
    <3> QED
      BY <3>2, ActiveTyped DEF Id, Ids
  <2>4. ops'[new].status = "queued"
    BY <2>2, <2>3, QueuedTyped DEF Types
  <2> HIDE DEF new
  <2>5. Regeneration(new, "queued") \in Works /\ Regeneration(new, "queued").id = new
    BY <2>3 DEF Regeneration, Works, Open, Claimable
  <2> QED
    BY <2>2, <2>3, <2>4, <2>5, ChainedMoves
<1>3. CASE Replays(p)
  <2>1. PICK id \in Ids, key \in Keys :
          /\ Chained(p, Regeneration(id, ops[id].status)) /\ UNCHANGED <<database, run>>
          /\ ops[id].status \in Open /\ ops[id].key = key
    BY <1>3 DEF Replays, ReplayRegeneration
  <2>2. Regeneration(id, ops[id].status) \in Works /\ Regeneration(id, ops[id].status).id = id
    BY <2>1 DEF Regeneration, Works
  <2>3. id.ordinal > 0 /\ ops'[id].status # "none"
    BY <2>1, StatusesAre, ActivationAssumption DEF RowsOK, RowOK, database
  <2> QED
    BY <2>1, <2>2, <2>3, ChainedMoves
<1> QED
  BY <1>1, <1>2, <1>3

(* Every queue moves in one of these ways. *)
LEMMA QueuesMove ==
    ASSUME Types, ProcessesOK, RowsOK, [Next]_vars, NEW p \in Processes
    PROVE  QueueMoves(p)
<1>1. ASSUME Moves(p) PROVE QueueMoves(p)
  <2>1. CASE SkipOperation(p) \/ Claim(p) \/ RecordFailure(p)
    BY <2>1, SkipMoves, ClaimMoves, FailureMoves DEF QueueMoves
  <2>2. CASE Completed(p) \/ CompleteRefused(p) \/ Generates(p)
    BY <2>2, CompletedMoves, RefusedMoves, GeneratesMoves DEF QueueMoves
  <2>3. CASE Schedule(p) \/ Registers(p) \/ Replays(p)
    BY <2>3, RequestMoves DEF QueueMoves
  <2>4. CASE RegisterOperations(p)
    BY <2>4 DEF QueueMoves, Lists, RegisterOperations, Ends, MayEnd, Leads, Engaged
  <2>5. CASE Reject(p)
    BY <2>5 DEF QueueMoves, Ends, MayEnd, Reject
  <2>6. CASE BeginPackage(p) \/ BeginRegeneration(p) \/ Crash(p)
    BY <2>6 DEF QueueMoves
  <2> QED
    BY <1>1, <2>1, <2>2, <2>3, <2>4, <2>5, <2>6 DEF Moves
<1>2. ASSUME NEW q \in Processes, Moves(q), p # q PROVE QueueMoves(p)
  BY <1>2, OthersStay DEF QueueMoves
<1>3. CASE ActivateGeneration \/ UNCHANGED vars
  BY <1>3 DEF ActivateGeneration, vars, queues, QueueMoves, Stays
<1> QED
  BY <1>1, <1>2, <1>3, NextCases

-----------------------------------------------------------------------------
(* The processes. *)
RowsGrow ==
    \A id \in Ids :
        /\ ops[id].status # "none" => ops'[id].status # "none"
        /\ ops[id].status \in Final => ops'[id].status \in Final

(* A row that is there stays, and a final row stays as it is. *)
LEMMA RowsGrowing ==
    ASSUME Types, ProcessesOK, RowsOK, [Next]_vars
    PROVE  RowsGrow
  BY RowsWritten, RowsStay DEF RowsGrow

(* A queue that moves: the chain, and the state of its head. *)
LEMMA MovedQueue ==
    ASSUME Types, NEW p \in Processes, ChainOK(p), TodoOK(p), QueueMoves(p)
    PROVE  /\ \/ tail'[p] = tail[p] \/ tail'[p] = <<>>
              \/ tail[p] # <<>> /\ tail'[p] = Tail(tail[p])
              \/ Grows(p)
           /\ \/ run'[p] = run[p] \/ run'[p] = Idle
              \/ tail[p] # <<>> /\ tail'[p] = tail[p]
<1>1. CASE Stays(p) \/ Grows(p)
  BY <1>1 DEF Stays, Grows
<1>2. CASE Ends(p)
  BY <1>2 DEF Ends, Ended, Types, ChainOK
<1>3. CASE Crash(p)
  BY <1>3 DEF Crash, Types
<1>4. CASE BeginPackage(p) \/ BeginRegeneration(p)
  BY <1>4 DEF BeginPackage, BeginRegeneration
<1>5. CASE Lists(p)
  BY <1>5 DEF Lists, RegisterOperations, ChainOK
<1>6. CASE WorksOn(p) \/ Retries(p) \/ GoesOn(p)
  BY <1>6 DEF WorksOn, Retries, GoesOn, Engaged, AtWork, ChainOK
<1> QED
  BY <1>1, <1>2, <1>3, <1>4, <1>5, <1>6 DEF QueueMoves

(* The head of a chain stays while more is chained. *)
LEMMA GrownChain ==
    ASSUME Types, NEW p \in Processes, Grows(p)
    PROVE  /\ tail'[p] # <<>>
           /\ tail[p] # <<>> => Head(tail'[p]) = Head(tail[p])
<1>1. PICK work \in Works : tail'[p] = Append(tail[p], work)
  BY DEF Grows
<1>2. tail[p] \in Seq(Works)
  BY DEF Types
<1>3. /\ Append(tail[p], work) # <<>> /\ Append(tail[p], work) \in Seq(Works) /\ Len(tail[p]) \in Nat
      /\ \A i \in 1..Len(tail[p]) : Append(tail[p], work)[i] = tail[p][i]
  BY <1>2, Longer
<1>4. Head(Append(tail[p], work)) = Append(tail[p], work)[1]
  BY <1>3, NotEmpty
<1>5. ASSUME tail[p] # <<>> PROVE Head(Append(tail[p], work)) = Head(tail[p])
  <2>1. Head(tail[p]) = tail[p][1] /\ Len(tail[p]) \in Nat \ {0}
    BY <1>2, <1>5, NotEmpty
  <2> QED
    BY <1>3, <1>4, <2>1
<1> QED
  BY <1>1, <1>3, <1>5

(* The conditions on a chain are preserved by every move of its process and *)
(* by the growth of rows. *)
LEMMA ChainStep ==
    ASSUME Types, NEW p \in Processes, ChainOK(p), TodoOK(p), QueueMoves(p), RowsGrow
    PROVE  ChainOK(p)'
<1>0. tail[p] \in Seq(Works)
  BY DEF Types
<1>1. \A i \in DOMAIN tail[p] : tail[p][i] \in Works
  BY <1>0, ElementOfSeq, LenProperties
<1>2. \A work \in Works : work # Package => work.id \in Ids
  BY KeysOf
<1> DEFINE Chain(t, rows) ==
      /\ \A i, j \in DOMAIN t : Key(t[i]) = Key(t[j]) => i = j
      /\ \A i \in DOMAIN t : t[i] # Package => t[i].id.ordinal > 0 /\ rows[t[i].id].status # "none"
<1>3. Chain(tail[p], ops')
  BY <1>1, <1>2 DEF ChainOK, RowsGrow
<1>4. Chain(tail'[p], ops')
  <2>1. CASE tail'[p] = tail[p]
    BY <1>3, <2>1
  <2>2. CASE tail'[p] = <<>>
    BY <2>2
  <2>3. CASE tail[p] # <<>> /\ tail'[p] = Tail(tail[p])
    <3>1. /\ Len(tail[p]) \in Nat \ {0} /\ DOMAIN tail[p] = 1..Len(tail[p])
          /\ DOMAIN tail'[p] = 1..(Len(tail[p]) - 1)
          /\ \A i \in 1..(Len(tail[p]) - 1) : tail'[p][i] = tail[p][i + 1]
      BY <1>0, <2>3, NotEmpty
    <3>2. \A i \in DOMAIN tail'[p] : i \in Nat /\ i + 1 \in DOMAIN tail[p] /\ tail'[p][i] = tail[p][i + 1]
      BY <3>1
    <3>3. \A i, j \in DOMAIN tail'[p] : Key(tail'[p][i]) = Key(tail'[p][j]) => i = j
      <4> SUFFICES ASSUME NEW i \in DOMAIN tail'[p], NEW j \in DOMAIN tail'[p],
                          Key(tail'[p][i]) = Key(tail'[p][j])
                   PROVE  i = j
        OBVIOUS
      <4>1. i + 1 = j + 1
        BY <1>3, <3>2
      <4> QED
        BY <3>2, <4>1
    <3> QED
      BY <1>3, <3>2, <3>3
  <2>4. CASE Grows(p)
    <3>1. PICK work \in Works :
            /\ tail'[p] = Append(tail[p], work) /\ Key(work) \notin Scheduled(p)
            /\ work # Package => work.id.ordinal > 0 /\ ops'[work.id].status # "none"
      BY <2>4 DEF Grows
    <3>2. /\ Len(tail[p]) \in Nat /\ DOMAIN tail[p] = 1..Len(tail[p])
          /\ DOMAIN tail'[p] = 1..(Len(tail[p]) + 1)
          /\ \A i \in 1..Len(tail[p]) : tail'[p][i] = tail[p][i]
          /\ tail'[p][Len(tail[p]) + 1] = work
      BY <1>0, <3>1, Longer
    <3>3. \A i \in DOMAIN tail[p] : Key(tail[p][i]) # Key(work)
      BY <3>1 DEF Scheduled
    <3> QED
      BY <1>3, <3>1, <3>2, <3>3
  <2> QED
    BY <2>1, <2>2, <2>3, <2>4, MovedQueue
<1>5. run'[p].pc # "idle" => tail'[p] # <<>>
  <2>1. Idle.pc = "idle"
    BY DEF Idle, At
  <2>2. CASE run'[p] = run[p] /\ (Stays(p) \/ Grows(p))
    BY <2>2, GrownChain DEF Stays, ChainOK
  <2>3. CASE ~Stays(p) /\ ~Grows(p) /\ run'[p] = run[p]
    <3>1. CASE BeginPackage(p) \/ BeginRegeneration(p) \/ Crash(p) \/ Ends(p)
      BY <2>1, <2>3, <3>1 DEF BeginPackage, BeginRegeneration, Crash, Ends, Ended, Types
    <3>2. CASE Lists(p) \/ WorksOn(p) \/ Retries(p) \/ GoesOn(p)
      BY <2>3, <3>2 DEF Lists, RegisterOperations, WorksOn, Retries, GoesOn, Stays
    <3> QED
      BY <2>3, <3>1, <3>2 DEF QueueMoves
  <2> QED
    BY <2>1, <2>2, <2>3, MovedQueue
<1>6. run'[p].pc = "register" => Head(tail'[p]) = Package
  <2>1. CASE Stays(p) \/ Grows(p)
    BY <2>1, GrownChain DEF Stays, Grows, ChainOK, InPackage
  <2>2. CASE BeginPackage(p)
    BY <2>2 DEF BeginPackage
  <2>3. CASE Ends(p) \/ Crash(p)
    BY <2>3 DEF Ends, Ended, Crash, Types, Idle, At
  <2>4. CASE BeginRegeneration(p) \/ Lists(p)
    BY <2>4, Registration DEF BeginRegeneration, Lists, Types, Running, At
  <2>5. CASE Retries(p) \/ GoesOn(p)
    BY <2>5 DEF Retries, GoesOn, Running, At
  <2>6. CASE WorksOn(p)
    BY <2>6 DEF WorksOn, At
  <2> QED
    BY <2>1, <2>2, <2>3, <2>4, <2>5, <2>6 DEF QueueMoves
<1> QED
  BY <1>4, <1>5, <1>6 DEF ChainOK, InPackage

(* A registration leaves none of its operations out. *)
LEMMA ListedThere ==
    ASSUME Types, \A id \in Ids : RowOK(id), NEW i \in DOMAIN Kinds
    PROVE  Stored(Id(generation, Kinds[i], 0)).status # "none"
<1>1. Id(generation, Kinds[i], 0) \in Ids
  BY ActiveTyped, PlannedAre
<1> QED
  BY <1>1, QueuedTyped DEF Stored, RowOK

(* What a move of the queue makes of the operations to do. *)
LEMMA MovedTodo ==
    ASSUME Types, NEW p \in Processes, QueueMoves(p), TodoOK(p), ChainOK(p)
    PROVE  /\ Stays(p) \/ Grows(p) => run'[p] = run[p]
           /\ Ends(p) \/ Crash(p) \/ BeginPackage(p) => ~Engaged(p)' /\ ~AtWork(p)' /\ run'[p].todo = <<>>
           /\ BeginRegeneration(p) =>
                /\ run'[p].pc = "operation" /\ Head(tail'[p]) # Package /\ Head(tail[p]) \in Works
                /\ tail'[p] = tail[p] /\ tail[p] # <<>>
                /\ run'[p].todo = <<Item(Head(tail[p]).id, Head(tail[p]).view)>>
           /\ Lists(p) => /\ run'[p].pc = "operation" /\ run'[p].todo = Listed /\ Listed # <<>>
                          /\ tail'[p] = tail[p]
           /\ WorksOn(p) => /\ Engaged(p)' /\ Engaged(p) /\ run'[p].todo = run[p].todo
                            /\ tail'[p] = tail[p]
           /\ Retries(p) => /\ run'[p].pc = "operation" /\ Engaged(p) /\ tail'[p] = tail[p]
                            /\ run'[p].todo = [run[p].todo EXCEPT ![1] = Item(Current(p).id, "retry_scheduled")]
           /\ GoesOn(p) => /\ run'[p].pc = "operation" /\ run'[p].todo = Tail(run[p].todo)
                           /\ Engaged(p) /\ Tail(run[p].todo) # <<>> /\ tail'[p] = tail[p]
<1>1. Ends(p) \/ Crash(p) \/ BeginPackage(p) => run'[p].pc \in {"idle", "register"} /\ run'[p].todo = <<>>
  BY DEF Ends, Ended, Crash, BeginPackage, Types, Idle, At
<1>2. BeginRegeneration(p) =>
        /\ run'[p].pc = "operation" /\ Head(tail'[p]) # Package /\ Head(tail[p]) \in Works
        /\ tail'[p] = tail[p] /\ tail[p] # <<>>
        /\ run'[p].todo = <<Item(Head(tail[p]).id, Head(tail[p]).view)>>
  BY NotEmpty DEF BeginRegeneration, Types, Running, At
<1>3. Lists(p) => /\ run'[p].pc = "operation" /\ run'[p].todo = Listed /\ Listed # <<>>
                  /\ tail'[p] = tail[p]
  <2> SUFFICES ASSUME Lists(p)
               PROVE  /\ run'[p].pc = "operation" /\ run'[p].todo = Listed /\ Listed # <<>>
                      /\ tail'[p] = tail[p]
    OBVIOUS
  <2>1. run' = [run EXCEPT ![p] = Running(Listed)] /\ Listed \in Seq(Items) /\ Len(Listed) = Len(Kinds)
    BY Registration DEF Lists
  <2>2. Listed # <<>>
    BY <2>1, KindsAre, EmptySeq
  <2>3. tail' = tail
    BY DEF Lists, RegisterOperations
  <2> HIDE DEF Listed
  <2> QED
    BY <2>1, <2>2, <2>3 DEF Types, Running, At
<1>4. WorksOn(p) => run'[p].pc \in {"generate", "complete", "fail"} /\ run'[p].todo = run[p].todo
  BY DEF WorksOn, At
<1>5. Retries(p) => /\ run'[p].pc = "operation" /\ Engaged(p)
                    /\ run'[p].todo = [run[p].todo EXCEPT ![1] = Item(Current(p).id, "retry_scheduled")]
  BY DEF Retries, Running, At, Engaged, AtWork
<1>6. GoesOn(p) => /\ run'[p].pc = "operation" /\ run'[p].todo = Tail(run[p].todo)
                   /\ Engaged(p) /\ Tail(run[p].todo) # <<>>
  <2> SUFFICES ASSUME GoesOn(p)
               PROVE  /\ run'[p].pc = "operation" /\ run'[p].todo = Tail(run[p].todo)
                      /\ Engaged(p) /\ Tail(run[p].todo) # <<>>
    OBVIOUS
  <2>1. Engaged(p) /\ Len(run[p].todo) # 1 /\ run'[p] = Running(Tail(run[p].todo))
    BY DEF GoesOn
  <2>2. run[p].todo \in Seq(Items) /\ run[p].todo # <<>>
    BY <2>1, CurrentTyped
  <2>3. Tail(run[p].todo) # <<>>
    BY <2>1, <2>2, NotEmpty
  <2> QED
    BY <2>1, <2>3 DEF Running, At
<1> QED
  BY <1>1, <1>2, <1>3, <1>4, <1>5, <1>6 DEF Stays, Grows, Engaged, AtWork, WorksOn, Retries, GoesOn

(* The listed operations are still registered, and what was seen final is *)
(* final. *)
LEMMA TodoStep ==
    ASSUME Types, NEW p \in Processes, ChainOK(p), TodoOK(p), QueueMoves(p), RowsGrow,
           \A id \in Ids : RowOK(id)
    PROVE  TodoOK(p)'
<1> DEFINE Fine(todo) ==
      \A i \in DOMAIN todo :
         /\ ops'[todo[i].id].status # "none"
         /\ todo[i].view # "none"
         /\ todo[i].view \in Final => ops'[todo[i].id].status \in Final
<1>0. run[p].todo \in Seq(Items) /\ \A i \in DOMAIN run[p].todo : run[p].todo[i] \in Items
  <2>1. run[p].todo \in Seq(Items)
    BY DEF Types, Runs
  <2> QED
    BY <2>1, ElementOfSeq, LenProperties
<1>1. Fine(run[p].todo)
  BY <1>0 DEF TodoOK, RowsGrow, Items
<1>2. CASE Stays(p) \/ Grows(p) \/ WorksOn(p)
  <2>1. run'[p].todo = run[p].todo
    BY <1>2, MovedTodo
  <2>2. Engaged(p)' <=> Engaged(p)
    BY <1>2, MovedTodo DEF Engaged
  <2> QED
    BY <1>1, <2>1, <2>2 DEF TodoOK
<1>3. CASE Ends(p) \/ Crash(p) \/ BeginPackage(p)
  <2>1. ~Engaged(p)' /\ run'[p].todo = <<>>
    BY <1>3, MovedTodo
  <2>2. DOMAIN run'[p].todo = {}
    BY <2>1
  <2> QED
    BY <2>1, <2>2 DEF TodoOK
<1>4. CASE BeginRegeneration(p)
  <2> DEFINE item == Item(Head(tail[p]).id, Head(tail[p]).view)
  <2>1. run'[p].pc = "operation" /\ run'[p].todo = <<item>> /\ Head(tail[p]) \in Works
        /\ Head(tail[p]) # Package /\ tail[p] # <<>> /\ tail[p] \in Seq(Works)
    BY <1>4, MovedTodo DEF Types
  <2>2. Head(tail[p]) = tail[p][1] /\ 1 \in DOMAIN tail[p]
    BY <2>1, NotEmpty
  <2>3. ops[Head(tail[p]).id].status # "none" /\ Head(tail[p]).id \in Ids /\ Head(tail[p]).view \in Open
    BY <2>1, <2>2, KeysOf DEF ChainOK
  <2>4. ops'[item.id].status # "none" /\ item.view \in Open
    BY <2>3 DEF RowsGrow, Item
  <2> HIDE DEF item
  <2>5. Fine(<<item>>)
    <3> SUFFICES ASSUME NEW i \in DOMAIN <<item>>
                 PROVE  /\ ops'[<<item>>[i].id].status # "none" /\ <<item>>[i].view # "none"
                        /\ <<item>>[i].view \in Final => ops'[<<item>>[i].id].status \in Final
      OBVIOUS
    <3>1. <<item>>[i] = item
      OBVIOUS
    <3>2. item.view # "none" /\ item.view \notin Final
      BY <2>4, StatusesAre DEF Open, Final, Claimable
    <3> QED
      BY <2>4, <3>1, <3>2
  <2> QED
    BY <2>1, <2>5 DEF TodoOK, Engaged
<1>5. CASE Lists(p)
  <2>1. /\ DOMAIN Listed = DOMAIN Kinds /\ Listed # <<>>
        /\ \A i \in DOMAIN Kinds :
             Listed[i] = Item(Id(generation, Kinds[i], 0), ops'[Id(generation, Kinds[i], 0)].status)
        /\ \A i \in DOMAIN Kinds : Stored(Id(generation, Kinds[i], 0)) = ops'[Id(generation, Kinds[i], 0)]
    BY <1>5, Registration, MovedTodo DEF Lists
  <2>2. run'[p].pc = "operation" /\ run'[p].todo = Listed
    BY <1>5, MovedTodo
  <2>3. \A i \in DOMAIN Kinds : ops'[Id(generation, Kinds[i], 0)].status # "none"
    BY <2>1, ListedThere
  <2> QED
    BY <2>1, <2>2, <2>3 DEF TodoOK, Engaged, Item
<1>6. CASE Retries(p)
  <2> DEFINE item == Item(Current(p).id, "retry_scheduled")
  <2>1. Engaged(p) /\ run'[p].pc = "operation" /\ run'[p].todo = [run[p].todo EXCEPT ![1] = item]
        /\ ops'[Current(p).id].status = "retry_scheduled"
    BY <1>6, MovedTodo DEF Retries
  <2>2. run[p].todo # <<>> /\ item \in Items
    BY <2>1, CurrentTyped, StatusesAre DEF Item, Items
  <2>3. item.view = "retry_scheduled" /\ item.id = Current(p).id
    BY DEF Item
  <2> HIDE DEF item
  <2>4. /\ run'[p].todo # <<>> /\ DOMAIN run'[p].todo = DOMAIN run[p].todo /\ run'[p].todo[1] = item
        /\ \A i \in DOMAIN run[p].todo \ {1} : run'[p].todo[i] = run[p].todo[i]
    BY <1>0, <2>1, <2>2, Headed
  <2>5. Fine(run'[p].todo)
    BY <1>1, <2>1, <2>3, <2>4 DEF Final
  <2> QED
    BY <2>1, <2>4, <2>5 DEF TodoOK, Engaged
<1>7. CASE GoesOn(p)
  <2>1. /\ run'[p].pc = "operation" /\ run'[p].todo = Tail(run[p].todo) /\ run[p].todo # <<>>
        /\ Tail(run[p].todo) # <<>>
    BY <1>7, MovedTodo, CurrentTyped
  <2>2. \A i \in DOMAIN run'[p].todo : i + 1 \in DOMAIN run[p].todo /\ run'[p].todo[i] = run[p].todo[i + 1]
    BY <1>0, <2>1, NotEmpty
  <2>3. Fine(run'[p].todo)
    BY <1>1, <2>2
  <2> QED
    BY <2>1, <2>3 DEF TodoOK, Engaged
<1> QED
  BY <1>2, <1>3, <1>4, <1>5, <1>6, <1>7 DEF QueueMoves

(* The head of the chain of a process that goes on with its work. *)
LEMMA SameHead ==
    ASSUME Types, NEW p \in Processes, ChainOK(p), QueueMoves(p), TodoOK(p),
           Stays(p) \/ Grows(p) \/ WorksOn(p) \/ Retries(p) \/ GoesOn(p), Engaged(p)
    PROVE  InPackage(p)' <=> InPackage(p)
<1>1. tail[p] # <<>>
  BY DEF Engaged, ChainOK
<1>2. Head(tail'[p]) = Head(tail[p])
  BY <1>1, GrownChain DEF Stays, WorksOn, Retries, GoesOn
<1> QED
  BY <1>2 DEF InPackage

(* The rest of a package is still the end of its plan, with all before it *)
(* final. *)
LEMMA PackageStep ==
    ASSUME Types, NEW p \in Processes, ChainOK(p), TodoOK(p), PackageOK(p), ClaimOK(p),
           QueueMoves(p), RowsGrow, \A id \in Ids : RowOK(id), RowsInOrder'
    PROVE  PackageOK(p)'
<1> SUFFICES ASSUME Engaged(p)', InPackage(p)' PROVE PackageOK(p)'
  BY DEF PackageOK
<1>0. \A g \in Generations, i \in DOMAIN Kinds : Id(g, Kinds[i], 0) \in Ids
  BY PlannedAre
<1>1. CASE Stays(p) \/ Grows(p) \/ WorksOn(p)
  <2>1. run'[p].todo = run[p].todo /\ Engaged(p)
    BY <1>1, MovedTodo DEF Engaged
  <2>2. InPackage(p)
    BY <1>1, <2>1, SameHead
  <2>3. Current(p)' = Current(p) /\ \A i : Place(p, i)' = Place(p, i)
    BY <2>1 DEF Current, Place
  <2>4. Current(p).id.gen \in Generations
    BY <2>1, CurrentTyped
  <2>5. \A i \in DOMAIN Kinds : i < Place(p, 1) =>
          ops'[Id(Current(p).id.gen, Kinds[i], 0)].status \in Final
    BY <1>0, <2>1, <2>2, <2>4 DEF PackageOK, RowsGrow
  <2> QED
    BY <2>1, <2>2, <2>3, <2>5 DEF PackageOK
<1>2. CASE Ends(p) \/ Crash(p) \/ BeginPackage(p)
  BY <1>2, MovedTodo
<1>3. CASE BeginRegeneration(p)
  BY <1>3, MovedTodo DEF InPackage
<1>4. CASE Lists(p)
  <2>1. /\ DOMAIN Listed = DOMAIN Kinds /\ Len(Listed) = Len(Kinds) /\ run'[p].todo = Listed
        /\ Listed \in Seq(Items) /\ Listed # <<>>
        /\ \A i \in DOMAIN Kinds :
             Listed[i] = Item(Id(generation, Kinds[i], 0), ops'[Id(generation, Kinds[i], 0)].status)
        /\ \A i \in DOMAIN Kinds : ops'[Id(generation, Kinds[i], 0)] \in RowSet
    BY <1>0, <1>4, Registration, MovedTodo, ActiveTyped DEF Lists
  <2>2. \A i \in DOMAIN Kinds : ops'[Id(generation, Kinds[i], 0)].status # "none"
    BY <1>4, ListedThere, Registration DEF Lists
  <2>3. \A i \in DOMAIN Kinds : /\ Listed[i].id = Id(generation, Kinds[i], 0)
                                /\ Listed[i].view = ops'[Id(generation, Kinds[i], 0)].status
    BY <2>1 DEF Item
  <2>4. Len(Kinds) \in Nat \ {0} /\ 1 \in DOMAIN Kinds /\ DOMAIN Kinds = 1..Len(Kinds)
    BY KindsAre
  <2>5. Current(p)' = Listed[1] /\ Current(p)'.id.gen = generation
    <3>1. Current(p)' = Listed[1]
      BY <2>1, NotEmpty DEF Current
    <3>2. Listed[1].id = Id(generation, Kinds[1], 0)
      BY <2>3, <2>4
    <3>3. Listed[1].id.gen = generation
      BY <3>2 DEF Id
    <3> QED
      BY <3>1, <3>3
  <2>6. \A i \in DOMAIN Kinds : Place(p, i)' = i
    BY <2>1, <2>4 DEF Place
  <2>7. ASSUME NEW i \in DOMAIN Kinds, NEW j \in DOMAIN Kinds, i < j, Listed[i].view \in Claimable
        PROVE  Listed[j].view \in Claimable
    <3>1. ops'[Id(generation, Kinds[i], 0)].status \notin Final
      BY <2>3, <2>7, StatusesAre
    <3>2. ops'[Id(generation, Kinds[j], 0)].status \in {"none", "queued"}
      BY <2>7, <3>1, ActiveTyped DEF RowsInOrder
    <3> QED
      BY <2>2, <2>3, <3>2 DEF Claimable
  <2>8. \A i \in DOMAIN Kinds : ~(i < Place(p, 1)')
    BY <2>4, <2>6
  <2> HIDE DEF Listed
  <2> QED
    BY <2>1, <2>3, <2>4, <2>5, <2>6, <2>7, <2>8 DEF PackageOK
<1>5. CASE Retries(p)
  <2> DEFINE item == Item(Current(p).id, "retry_scheduled")
  <2>1. Engaged(p) /\ run'[p].todo = [run[p].todo EXCEPT ![1] = item]
    BY <1>5, MovedTodo
  <2>2. /\ run[p].todo # <<>> /\ item \in Items /\ run[p].todo \in Seq(Items)
        /\ Current(p) = run[p].todo[1] /\ Current(p).id.gen \in Generations
    BY <2>1, CurrentTyped, StatusesAre DEF Item, Items
  <2>3. item.view \in Claimable /\ item.id = Current(p).id
    BY DEF Item, Claimable
  <2> HIDE DEF item
  <2>4. /\ run'[p].todo # <<>> /\ DOMAIN run'[p].todo = DOMAIN run[p].todo /\ run'[p].todo[1] = item
        /\ Len(run'[p].todo) = Len(run[p].todo) /\ run'[p].todo \in Seq(Items)
        /\ \A i \in DOMAIN run[p].todo \ {1} : run'[p].todo[i] = run[p].todo[i]
        /\ 1 \in DOMAIN run[p].todo
    BY <2>1, <2>2, Headed, NotEmpty
  <2>5. InPackage(p) /\ Current(p).view \in Claimable
    BY <1>5, <2>1, SameHead DEF ClaimOK, Retries
  <2>6. Current(p)' = item /\ \A i : Place(p, i)' = Place(p, i)
    BY <2>4, NotEmpty DEF Current, Place
  <2>7. \A i \in DOMAIN run[p].todo : run'[p].todo[i].id = run[p].todo[i].id
    BY <2>2, <2>3, <2>4
  <2>8. ASSUME NEW i \in DOMAIN run[p].todo, NEW j \in DOMAIN run[p].todo, i < j,
               run'[p].todo[i].view \in Claimable
        PROVE  run'[p].todo[j].view \in Claimable
    <3>1. run[p].todo[i].view \in Claimable
      BY <2>2, <2>4, <2>5, <2>8
    <3>2. run[p].todo[j].view \in Claimable
      BY <2>1, <2>5, <2>8, <3>1 DEF PackageOK
    <3> QED
      BY <2>3, <2>4, <3>2
  <2>9. \A i \in DOMAIN Kinds : i < Place(p, 1) =>
          ops'[Id(Current(p).id.gen, Kinds[i], 0)].status \in Final
    BY <1>0, <2>1, <2>2, <2>5 DEF PackageOK, RowsGrow
  <2> QED
    BY <2>1, <2>3, <2>4, <2>5, <2>6, <2>7, <2>8, <2>9 DEF PackageOK
<1>6. CASE GoesOn(p)
  <2>1. Engaged(p) /\ run'[p].todo = Tail(run[p].todo) /\ Tail(run[p].todo) # <<>>
    BY <1>6, MovedTodo
  <2>2. InPackage(p)
    BY <1>6, <2>1, SameHead
  <2>3. /\ run[p].todo \in Seq(Items) /\ run[p].todo # <<>> /\ Len(run[p].todo) \in Nat \ {0}
        /\ DOMAIN run[p].todo = 1..Len(run[p].todo) /\ Current(p) = run[p].todo[1]
        /\ Current(p).id.gen \in Generations
    BY <2>1, CurrentTyped
  <2>4. /\ run'[p].todo \in Seq(Items) /\ Len(run'[p].todo) = Len(run[p].todo) - 1
        /\ \A i \in DOMAIN run'[p].todo : /\ i \in Nat /\ i + 1 \in DOMAIN run[p].todo
                                          /\ run'[p].todo[i] = run[p].todo[i + 1]
        /\ 1 \in DOMAIN run'[p].todo
    <3>1. /\ run'[p].todo \in Seq(Items) /\ Len(run'[p].todo) = Len(run[p].todo) - 1
          /\ DOMAIN run'[p].todo = 1..(Len(run[p].todo) - 1)
          /\ \A i \in 1..(Len(run[p].todo) - 1) : run'[p].todo[i] = run[p].todo[i + 1]
      BY <2>1, <2>3, NotEmpty
    <3>2. 1 \in DOMAIN run'[p].todo
      BY <2>1, <3>1, NotEmpty
    <3> QED
      BY <2>3, <3>1, <3>2
  <2>5. Len(Kinds) \in Nat \ {0}
    BY KindsAre
  <2>6. \A i \in DOMAIN run'[p].todo : Place(p, i)' = Place(p, i + 1)
    <3> SUFFICES ASSUME NEW i \in DOMAIN run'[p].todo
                 PROVE  Len(Kinds) - Len(run'[p].todo) + i = Len(Kinds) - Len(run[p].todo) + (i + 1)
      BY DEF Place
    <3>1. i \in Nat
      BY <2>4
    <3> QED
      BY <2>3, <2>4, <2>5, <3>1
  <2>7. \A i \in DOMAIN run'[p].todo :
          run'[p].todo[i].id = Id(Current(p).id.gen, Kinds[Place(p, i)'], 0)
    BY <2>1, <2>2, <2>4, <2>6 DEF PackageOK
  <2>8. Current(p)' = run'[p].todo[1] /\ Current(p)'.id.gen = Current(p).id.gen
    <3>1. Current(p)' = run'[p].todo[1]
      BY <2>1, <2>4, NotEmpty DEF Current
    <3>2. run'[p].todo[1].id = Id(Current(p).id.gen, Kinds[Place(p, 1)'], 0)
      BY <2>4, <2>7
    <3>3. run'[p].todo[1].id.gen = Current(p).id.gen
      BY <3>2 DEF Id
    <3> QED
      BY <3>1, <3>3
  <2>9. ASSUME NEW i \in DOMAIN run'[p].todo, NEW j \in DOMAIN run'[p].todo, i < j,
               run'[p].todo[i].view \in Claimable
        PROVE  run'[p].todo[j].view \in Claimable
    <3>1. i + 1 \in DOMAIN run[p].todo /\ j + 1 \in DOMAIN run[p].todo /\ i + 1 < j + 1
      BY <2>4, <2>9
    <3> QED
      BY <2>1, <2>2, <2>4, <2>9, <3>1 DEF PackageOK
  <2>10. ASSUME NEW i \in DOMAIN Kinds, i < Place(p, 1)'
         PROVE  ops'[Id(Current(p).id.gen, Kinds[i], 0)].status \in Final
    <3>1. Place(p, 1)' = Place(p, 1) + 1 /\ Place(p, 1) \in Int /\ i \in Int
      BY <2>3, <2>4, <2>5, <2>6, KindsAre DEF Place
    <3>2. CASE i = Place(p, 1)
      <4>1. Current(p).id = Id(Current(p).id.gen, Kinds[i], 0)
        BY <2>1, <2>2, <2>3, <3>2 DEF PackageOK
      <4> QED
        BY <1>6, <4>1 DEF GoesOn
    <3>3. CASE i < Place(p, 1)
      BY <1>0, <2>1, <2>2, <2>3, <3>3 DEF PackageOK, RowsGrow
    <3> QED
      BY <2>10, <3>1, <3>2, <3>3
  <2>11. Len(run'[p].todo) <= Len(Kinds)
    BY <2>1, <2>2, <2>3, <2>4, <2>5 DEF PackageOK
  <2> QED
    BY <2>7, <2>8, <2>9, <2>10, <2>11 DEF PackageOK
<1> QED
  BY <1>1, <1>2, <1>3, <1>4, <1>5, <1>6 DEF QueueMoves

(* A regeneration still has its one operation to do. *)
LEMMA RegenerationStep ==
    ASSUME Types, NEW p \in Processes, ChainOK(p), TodoOK(p), RegenerationOK(p), QueueMoves(p)
    PROVE  RegenerationOK(p)'
<1> SUFFICES ASSUME Engaged(p)', ~InPackage(p)'
             PROVE  Len(run'[p].todo) = 1 /\ Current(p)'.id = Head(tail'[p]).id
  BY DEF RegenerationOK
<1>1. CASE Stays(p) \/ Grows(p) \/ WorksOn(p)
  <2>1. run'[p].todo = run[p].todo /\ Engaged(p)
    BY <1>1, MovedTodo DEF Engaged
  <2>2. ~InPackage(p) /\ tail[p] # <<>>
    BY <1>1, <2>1, SameHead DEF ChainOK, Engaged
  <2>3. Head(tail'[p]) = Head(tail[p])
    BY <1>1, <2>2, GrownChain DEF Stays, WorksOn
  <2>4. Current(p)' = Current(p)
    BY <2>1 DEF Current
  <2> QED
    BY <2>1, <2>2, <2>3, <2>4 DEF RegenerationOK
<1>2. CASE Ends(p) \/ Crash(p) \/ BeginPackage(p)
  BY <1>2, MovedTodo
<1>3. CASE BeginRegeneration(p)
  <2> DEFINE item == Item(Head(tail[p]).id, Head(tail[p]).view)
  <2>1. run'[p].todo = <<item>> /\ tail'[p] = tail[p]
    BY <1>3, MovedTodo
  <2>2. Current(p)' = item
    BY <2>1 DEF Current
  <2> QED
    BY <2>1, <2>2 DEF Item
<1>4. CASE Lists(p)
  <2>1. tail'[p] = tail[p]
    BY <1>4, MovedTodo
  <2> QED
    BY <1>4, <2>1 DEF Lists, RegisterOperations, ChainOK, InPackage
<1>5. CASE Retries(p)
  <2> DEFINE item == Item(Current(p).id, "retry_scheduled")
  <2>1. Engaged(p) /\ run'[p].todo = [run[p].todo EXCEPT ![1] = item] /\ tail'[p] = tail[p]
    BY <1>5, MovedTodo
  <2>2. run[p].todo # <<>> /\ item \in Items /\ run[p].todo \in Seq(Items) /\ item.id = Current(p).id
    BY <2>1, CurrentTyped, StatusesAre DEF Item, Items
  <2> HIDE DEF item
  <2>3. /\ run'[p].todo # <<>> /\ run'[p].todo[1] = item /\ run'[p].todo \in Seq(Items)
        /\ Len(run'[p].todo) = Len(run[p].todo)
    BY <2>1, <2>2, Headed
  <2>4. Current(p)' = item
    BY <2>3, NotEmpty DEF Current
  <2> QED
    BY <1>5, <2>1, <2>2, <2>3, <2>4, SameHead DEF RegenerationOK
<1>6. CASE GoesOn(p)
  BY <1>6, MovedTodo, SameHead DEF RegenerationOK, GoesOn
<1> QED
  BY <1>1, <1>2, <1>3, <1>4, <1>5, <1>6 DEF QueueMoves

(* A process that is at work was so before, or has just claimed. *)
LEMMA AtWorkBefore ==
    ASSUME Types, NEW p \in Processes, ChainOK(p), TodoOK(p), QueueMoves(p), AtWork(p)'
    PROVE  /\ run'[p].todo = run[p].todo /\ Current(p)' = Current(p) /\ Engaged(p)
           /\ WorksOn(p) \/ (run'[p] = run[p] /\ AtWork(p))
           /\ AtWork(p) \/ (ops[Current(p).id].status \in Claimable /\ ~Stays(p))
<1>1. Stays(p) \/ Grows(p) \/ WorksOn(p)
  BY MovedTodo DEF QueueMoves, AtWork
<1>2. run'[p].todo = run[p].todo /\ Current(p)' = Current(p)
  BY <1>1, MovedTodo DEF Current
<1>3. CASE run'[p] = run[p]
  BY <1>1, <1>2, <1>3 DEF AtWork, Engaged
<1>4. CASE WorksOn(p)
  BY <1>2, <1>4 DEF WorksOn, Stays, AtWork
<1> QED
  BY <1>1, <1>2, <1>3, <1>4 DEF Stays, Grows

(* Nobody takes a claim away from a process that is at work. *)
LEMMA ClaimStays ==
    ASSUME Types, NEW p \in Processes, ClaimedByOne, ClaimOK(p), AtWork(p), AtWork(p)',
           Current(p).id \in Ids, RowMoves(Current(p).id)
    PROVE  ops'[Current(p).id] = ops[Current(p).id]
<1>1. ops[Current(p).id].status = "processing"
  BY DEF ClaimOK, Holds
<1>2. ~Inserts(Current(p).id) /\ ~Claims(Current(p).id)
  BY <1>1, StatusesAre DEF Inserts, Claims, ClaimGuard, Absent, Row
<1>3. ~Results(Current(p).id)
  BY DEF Results, ClaimedByOne
<1> QED
  BY <1>2, <1>3 DEF RowMoves

(* A process at work still holds the claim it works under. *)
LEMMA ClaimStep ==
    ASSUME Types, NEW p \in Processes, ChainOK(p), TodoOK(p), QueueMoves(p), ClaimedByOne, ClaimOK(p),
           \A id \in Ids : RowMoves(id)
    PROVE  ClaimOK(p)'
<1> SUFFICES ASSUME AtWork(p)'
             PROVE  /\ Current(p)'.view \in Claimable
                    /\ run'[p].attempt \in 1..MaxAttempts /\ Holds(Current(p).id, run[p].attempt)'
                    /\ run'[p].pc = "fail" => run'[p].failure \in Failures
  BY DEF ClaimOK
<1>1. /\ Current(p)' = Current(p) /\ Engaged(p) /\ Current(p).id \in Ids
      /\ WorksOn(p) \/ (run'[p] = run[p] /\ AtWork(p))
  BY AtWorkBefore, CurrentTyped
<1>2. CASE run'[p] = run[p] /\ AtWork(p)
  <2>1. ops'[Current(p).id] = ops[Current(p).id]
    BY <1>1, <1>2, ClaimStays
  <2> QED
    BY <1>1, <1>2, <2>1 DEF ClaimOK, Holds
<1>3. CASE WorksOn(p)
  <2>1. PICK pc \in {"generate", "complete", "fail"}, attempt \in 1..MaxAttempts,
             failure \in {None} \cup Failures :
          /\ run'[p] = At(pc, 0, run[p].todo, attempt, failure)
          /\ ops'[Current(p).id].status = "processing" /\ ops'[Current(p).id].attempts = attempt
          /\ pc = "fail" => failure \in Failures
    BY <1>3 DEF WorksOn
  <2>2. run'[p].pc = pc /\ run'[p].attempt = attempt /\ run'[p].failure = failure
    BY <2>1 DEF At
  <2> QED
    BY <1>1, <1>3, <2>1, <2>2 DEF WorksOn, Leads, Holds
<1> QED
  BY <1>1, <1>2, <1>3

(* The conditions on the processes are preserved. *)
LEMMA ProcessesStep ==
    ASSUME Types, ProcessesOK, RowsOK, [Next]_vars
    PROVE  ProcessesOK'
<1>0. /\ RowsGrow /\ RowsOK' /\ \A id \in Ids : RowMoves(id)
      /\ \A p \in Processes : /\ ChainOK(p) /\ TodoOK(p) /\ PackageOK(p) /\ RegenerationOK(p) /\ ClaimOK(p)
                              /\ QueueMoves(p)
      /\ ClaimedByOne /\ \A id \in Ids : RowOK(id)
  BY RowsGrowing, RowsStep, RowsWritten, QueuesMove DEF ProcessesOK, RowsOK
<1>1. ASSUME NEW p \in Processes
      PROVE  (ChainOK(p) /\ TodoOK(p) /\ PackageOK(p) /\ RegenerationOK(p) /\ ClaimOK(p))'
  BY <1>0, ChainStep, TodoStep, PackageStep, RegenerationStep, ClaimStep DEF RowsOK
<1>2. ClaimedByOne'
  <2> SUFFICES ASSUME NEW p \in Processes, NEW q \in Processes, AtWork(p)', AtWork(q)',
                      Current(p)'.id = Current(q)'.id
               PROVE  p = q
    BY DEF ClaimedByOne
  <2>1. /\ Current(p).id = Current(q).id
        /\ AtWork(p) \/ (ops[Current(p).id].status \in Claimable /\ ~Stays(p))
        /\ AtWork(q) \/ (ops[Current(q).id].status \in Claimable /\ ~Stays(q))
    BY <1>0, AtWorkBefore
  <2>2. CASE AtWork(p) /\ AtWork(q)
    BY <1>0, <2>1, <2>2 DEF ClaimedByOne
  <2>3. CASE (AtWork(p) /\ ~AtWork(q)) \/ (~AtWork(p) /\ AtWork(q))
    BY <1>0, <2>1, <2>3, StatusesAre DEF ClaimOK, Holds
  <2>4. CASE ~AtWork(p) /\ ~AtWork(q)
    <3>1. ~Stays(p) /\ ~Stays(q)
      BY <2>1, <2>4
    <3>2. ASSUME NEW r \in Processes, Moves(r) PROVE p = r /\ q = r
      BY <3>1, <3>2, OthersStay
    <3>3. ~ActivateGeneration /\ ~UNCHANGED vars
      BY <3>1 DEF ActivateGeneration, vars, queues, Stays
    <3> QED
      BY <3>2, <3>3, NextCases
  <2> QED
    BY <2>2, <2>3, <2>4
<1> QED
  BY <1>1, <1>2 DEF ProcessesOK

-----------------------------------------------------------------------------
(* The status of a chapter. *)
LEMMA ReadinessStep ==
    ASSUME Types, ProcessesOK, RowsOK, ArtifactsOK, ReadyAfterQuiz, [Next]_vars
    PROVE  ReadyAfterQuiz'
<1> SUFFICES ASSUME NEW g \in 1..generation', chapter'[g] = "ready", HasStored(g, "chapter_quiz")'
             PROVE  HasStored(g, "first_text_lesson")'
  BY DEF ReadyAfterQuiz
<1>0. /\ generation \in Nat \ {0} /\ generation \in Generations /\ \A a \in artifacts : a.id \in Ids
      /\ chapter \in [Generations -> {"pending", "generating", "ready"}]
  BY ActiveTyped DEF Types
<1>1. artifacts \subseteq artifacts'
  BY ArtifactsMove, CompletedStores
<1>2. HasStored(g, "first_text_lesson") => HasStored(g, "first_text_lesson")'
  BY <1>1 DEF HasStored
<1>3. CASE g \in 1..generation /\ chapter[g] = "ready" /\ HasStored(g, "chapter_quiz")
  BY <1>2, <1>3 DEF ReadyAfterQuiz
<1>4. ASSUME NEW p \in Processes, Moves(p), generation' = generation
      PROVE  HasStored(g, "first_text_lesson")'
  <2>1. CASE RegisterOperations(p)
    <3>1. artifacts' = artifacts /\ chapter[g] = "ready"
      <4>1. \/ chapter' = chapter /\ artifacts' = artifacts
            \/ /\ chapter' = [chapter EXCEPT ![generation] = IF @ = "pending" THEN "generating" ELSE @]
               /\ artifacts' = artifacts
        BY <2>1 DEF RegisterOperations, database
      <4>2. CASE chapter' = [chapter EXCEPT ![generation] = IF @ = "pending" THEN "generating" ELSE @]
        <5>1. chapter'[generation] \in {"generating", chapter[generation]}
          BY <1>0, <4>2
        <5>2. g # generation => chapter'[g] = chapter[g]
          BY <1>0, <4>2
        <5> QED
          BY <4>1, <5>1, <5>2
      <4> QED
        BY <4>1, <4>2
    <3> QED
      BY <1>3, <1>4, <3>1 DEF HasStored
  <2>2. CASE Completed(p)
    <3> DEFINE id == Current(p).id
    <3>1. /\ id \in Ids /\ id.gen = generation
          /\ artifacts' = artifacts \cup {[id |-> id, attempt |-> run[p].attempt]}
      BY <2>2, CompletedStores
    <3>2. CASE id.kind # "chapter_quiz"
      <4>1. chapter' = chapter
        BY <2>2, <3>2 DEF Completed, CompleteTextLesson, CompleteQuizBank
      <4>2. HasStored(g, "chapter_quiz")
        BY <3>1, <3>2 DEF HasStored
      <4> QED
        BY <1>3, <1>4, <4>1, <4>2
    <3>3. CASE id.kind = "chapter_quiz"
      <4>1. chapter' = [chapter EXCEPT ![id.gen] = ChapterStatus(id, ops')]
        BY <2>2, <3>3 DEF Completed, CompleteTextLesson, CompleteQuizBank, IsLesson
      <4>2. CASE g = generation
        <5>1. ChapterStatus(id, ops') = "ready"
          BY <1>0, <3>1, <4>1, <4>2
        <5>2. PICK o \in 0..MaxOrdinal : ops'[Id(id.gen, "first_text_lesson", o)].status = "succeeded"
          BY <5>1, ActivationAssumption DEF ChapterStatus
        <5>3. /\ Id(g, "first_text_lesson", o) \in Ids /\ Id(g, "first_text_lesson", o).gen = g
              /\ Id(g, "first_text_lesson", o).kind = "first_text_lesson"
          BY <1>0, <4>2, ActivationAssumption DEF Id, Ids
        <5>4. PICK a \in artifacts' : a.id = Id(g, "first_text_lesson", o)
          BY <3>1, <4>2, <5>2, <5>3, ArtifactsStep DEF ArtifactsOK
        <5> QED
          BY <5>3, <5>4 DEF HasStored
      <4>3. CASE g # generation
        <5>1. HasStored(g, "chapter_quiz") /\ chapter'[g] = chapter[g]
          BY <3>1, <4>1, <4>3, <1>0 DEF HasStored
        <5> QED
          BY <1>3, <1>4, <5>1
      <4> QED
        BY <4>2, <4>3
    <3> QED
      BY <3>2, <3>3
  <2>3. CASE ~RegisterOperations(p) /\ ~Completed(p)
    <3>1. chapter' = chapter /\ artifacts' = artifacts
      BY <1>4, <2>3 DEF Moves, BeginPackage, BeginRegeneration, SkipOperation, Claim,
         RecordFailure, Generates, Tried, CompleteRefused, Schedule, Reject, Crash, Registers,
         Regenerate, Replays, ReplayRegeneration, database
    <3> QED
      BY <1>3, <1>4, <3>1 DEF HasStored
  <2> QED
    BY <2>1, <2>2, <2>3
<1>5. ASSUME ActivateGeneration PROVE HasStored(g, "first_text_lesson")'
  <2>1. artifacts' = artifacts /\ generation' = generation + 1
    BY <1>5 DEF ActivateGeneration
  <2>2. PICK a \in artifacts : a.id.gen = g /\ a.id.kind = "chapter_quiz"
    BY <2>1 DEF HasStored
  <2>3. g <= generation
    BY <1>0, <2>2 DEF ArtifactsOK, RowsOK, RowOK
  <2>4. chapter'[g] = chapter[g]
    BY <1>0, <1>5, <2>1, <2>3 DEF ActivateGeneration
  <2> QED
    BY <1>0, <1>3, <2>1, <2>2, <2>3, <2>4 DEF HasStored
<1>6. CASE UNCHANGED vars
  BY <1>3, <1>6 DEF vars, database, HasStored
<1> QED
  BY <1>4, <1>5, <1>6, NextCases, GenerationMoves

-----------------------------------------------------------------------------
(* Nothing is dropped. *)

(* A move of the queue without a fault: what the process was to claim, it  *)
(* still is, unless it is past it or leaves it to a process at work.       *)
LEMMA LeadsOn ==
    ASSUME Types, ProcessesOK, NEW p \in Processes, QueueMoves(p), lost' = FALSE,
           Leads(p), Current(p).id.gen = generation
    PROVE  \/ Leads(p)' /\ Current(p)'.id = Current(p).id
              /\ (Stays(p) \/ Grows(p) \/ WorksOn(p) \/ Retries(p))
           \/ GoesOn(p)
           \/ Ends(p) /\ Len(run[p].todo) = 1 /\ ops'[Current(p).id].status \in Final
           \/ Ends(p) /\ Yields(p)
<1>0. Engaged(p) /\ ChainOK(p) /\ TodoOK(p)
  BY DEF Leads, ProcessesOK
<1>1. ~Crash(p) /\ ~BeginPackage(p) /\ ~BeginRegeneration(p) /\ ~Lists(p)
  BY <1>0 DEF Crash, BeginPackage, BeginRegeneration, Lists, RegisterOperations, Engaged
<1>2. CASE Stays(p) \/ Grows(p)
  BY <1>2, MovedTodo DEF Leads, Engaged, Current, Stays, Grows
<1>3. CASE WorksOn(p)
  BY <1>0, <1>3, MovedTodo DEF Leads, Current
<1>4. CASE Retries(p)
  <2> DEFINE item == Item(Current(p).id, "retry_scheduled")
  <2>1. run'[p].todo = [run[p].todo EXCEPT ![1] = item] /\ run'[p].pc = "operation"
    BY <1>0, <1>4, MovedTodo
  <2>2. /\ run[p].todo # <<>> /\ item \in Items /\ run[p].todo \in Seq(Items)
        /\ item.id = Current(p).id /\ item.view \in Claimable
    BY <1>0, CurrentTyped, StatusesAre DEF Item, Items, Claimable
  <2> HIDE DEF item
  <2>3. /\ run'[p].todo # <<>> /\ run'[p].todo[1] = item /\ run'[p].todo \in Seq(Items)
    BY <2>1, <2>2, Headed
  <2>4. Current(p)' = item
    BY <2>3, NotEmpty DEF Current
  <2> QED
    BY <1>4, <2>1, <2>2, <2>4 DEF Leads, Engaged
<1>5. CASE Ends(p)
  BY <1>5 DEF Ends, MayEnd
<1> QED
  BY <1>1, <1>2, <1>3, <1>4, <1>5 DEF QueueMoves

(* Two packages at the same operation have the same ones to do. *)
LEMMA SameTodo ==
    ASSUME Types, ProcessesOK, NEW p \in Processes, NEW q \in Processes,
           Engaged(p), Engaged(q), InPackage(p), Current(p).id = Current(q).id,
           NEW id, \E i \in DOMAIN run[p].todo : run[p].todo[i].id = id
    PROVE  InPackage(q) /\ \E i \in DOMAIN run[q].todo : run[q].todo[i].id = id
<1>0. /\ ChainOK(q) /\ TodoOK(p) /\ TodoOK(q) /\ PackageOK(p) /\ PackageOK(q) /\ RegenerationOK(q)
      /\ tail[q] # <<>> /\ tail[q] \in Seq(Works)
  BY ChainsHold DEF ProcessesOK, Engaged
<1>1. /\ Current(p) = run[p].todo[1] /\ Current(q) = run[q].todo[1] /\ Current(p).id.gen \in Generations
      /\ Len(run[p].todo) \in Nat \ {0} /\ DOMAIN run[p].todo = 1..Len(run[p].todo)
      /\ Len(run[q].todo) \in Nat \ {0} /\ DOMAIN run[q].todo = 1..Len(run[q].todo)
  BY <1>0, CurrentTyped
<1>2. Current(p).id = Id(Current(p).id.gen, Kinds[Place(p, 1)], 0)
  BY <1>0, <1>1 DEF PackageOK
<1>3. InPackage(q)
  <2>1. Current(p).id.ordinal = 0
    BY <1>2 DEF Id
  <2>2. Head(tail[q]) = tail[q][1] /\ 1 \in DOMAIN tail[q]
    BY <1>0, NotEmpty
  <2> QED
    BY <1>0, <2>1, <2>2 DEF ChainOK, RegenerationOK, InPackage
<1>4. Place(p, 1) = Place(q, 1)
  <2>1. Place(p, 1) \in DOMAIN Kinds /\ Place(q, 1) \in DOMAIN Kinds
    BY <1>0, <1>1, <1>3, KindsAre DEF Place, PackageOK
  <2>2. Kinds[Place(p, 1)] = Kinds[Place(q, 1)]
    <3>1. Current(q).id = Id(Current(q).id.gen, Kinds[Place(q, 1)], 0)
      BY <1>0, <1>1, <1>3 DEF PackageOK
    <3> QED
      BY <1>2, <3>1 DEF Id
  <2> QED
    BY <2>1, <2>2, KindsAre
<1>5. Len(run[p].todo) = Len(run[q].todo) /\ \A i : Place(p, i) = Place(q, i)
  <2>1. Len(run[p].todo) = Len(run[q].todo)
    <3>1. Len(run[p].todo) \in Int /\ Len(run[q].todo) \in Int /\ Len(Kinds) \in Int
      BY <1>1, KindsAre
    <3>2. Len(Kinds) - Len(run[p].todo) + 1 = Len(Kinds) - Len(run[q].todo) + 1
      BY <1>4 DEF Place
    <3>3. \A a, b, c \in Int : c - a + 1 = c - b + 1 => a = b
      OBVIOUS
    <3> QED
      BY ONLY <3>1, <3>2, <3>3, Zenon
  <2> QED
    BY <2>1 DEF Place
<1>6. PICK i \in DOMAIN run[p].todo : run[p].todo[i].id = id
  OBVIOUS
<1>7. run[q].todo[i].id = id
  BY <1>0, <1>1, <1>3, <1>5, <1>6 DEF PackageOK
<1> QED
  BY <1>1, <1>3, <1>5, <1>7

(* A process that yields leaves the operation to one that stays at work. *)
LEMMA YieldsTo ==
    ASSUME Types, ProcessesOK, Worked, NEW p \in Processes, Engaged(p), Yields(p),
           Current(p).id.gen = generation
    PROVE  \E q \in Processes : /\ Engaged(q) /\ Leads(q) /\ Leads(q)' /\ Current(q).id = Current(p).id
                                /\ Stays(q)
<1>1. Current(p).id \in Ids /\ ops[Current(p).id].status = "processing"
  BY CurrentTyped DEF Yields, ProcessesOK
<1>2. PICK q \in Processes : AtWork(q) /\ Current(q).id = Current(p).id
  BY <1>1 DEF Worked
<1>3. Stays(q)
  BY <1>2 DEF Yields, AtWork
<1>4. Engaged(q) /\ Leads(q)
  BY <1>2 DEF ProcessesOK, ClaimOK, AtWork, Leads, Engaged
<1>5. Leads(q)'
  BY <1>3, <1>4 DEF Stays, Leads, Engaged, Current
<1> QED
  BY <1>2, <1>3, <1>4, <1>5

(* An original that is open stays with a package that will claim it. *)
LEMMA CarriesStep ==
    ASSUME Types, ProcessesOK, Worked, lost' = FALSE, NEW p \in Processes, QueueMoves(p),
           NEW id \in Ids, id.gen = generation, ops'[id].status \in Open, Carries(p, id)
    PROVE  \E q \in Processes : Carries(q, id)'
<1>0. /\ Engaged(p) /\ Leads(p) /\ InPackage(p) /\ PackageOK(p) /\ TodoOK(p) /\ ChainOK(p)
      /\ run[p].todo \in Seq(Items) /\ run[p].todo # <<>>
  BY ChainsHold DEF Carries, Leads, ProcessesOK
<1>1. PICK i \in DOMAIN run[p].todo : run[p].todo[i].id = id
  BY DEF Carries
<1>2. /\ Current(p).id.gen = generation /\ Current(p) = run[p].todo[1]
      /\ DOMAIN run[p].todo = 1..Len(run[p].todo) /\ Len(run[p].todo) \in Nat
  <2>1. id = Id(Current(p).id.gen, Kinds[Place(p, i)], 0)
    BY <1>0, <1>1 DEF PackageOK
  <2>2. Current(p).id.gen = generation
    BY <2>1 DEF Id
  <2> QED
    BY <1>0, <2>2, CurrentTyped
<1>3. ops'[id].status \notin Final
  BY StatusesAre DEF Open
<1>4. CASE Leads(p)' /\ (Stays(p) \/ Grows(p) \/ WorksOn(p) \/ Retries(p))
  <2>1. InPackage(p)'
    BY <1>0, <1>4, SameHead
  <2>2. CASE Stays(p) \/ Grows(p) \/ WorksOn(p)
    <3>1. run'[p].todo = run[p].todo
      BY <1>0, <2>2, MovedTodo
    <3> QED
      BY <1>1, <1>4, <2>1, <3>1 DEF Carries
  <2>3. CASE Retries(p)
    <3> DEFINE item == Item(Current(p).id, "retry_scheduled")
    <3>1. run'[p].todo = [run[p].todo EXCEPT ![1] = item]
      BY <1>0, <2>3, MovedTodo
    <3>2. item \in Items /\ item.id = Current(p).id
      BY <1>0, CurrentTyped, StatusesAre DEF Item, Items
    <3> HIDE DEF item
    <3>3. /\ run'[p].todo[1] = item /\ DOMAIN run'[p].todo = DOMAIN run[p].todo
          /\ \A k \in DOMAIN run[p].todo \ {1} : run'[p].todo[k] = run[p].todo[k]
      BY <1>0, <3>1, <3>2, Headed
    <3>4. i \in DOMAIN run'[p].todo /\ run'[p].todo[i].id = id
      BY <1>1, <1>2, <3>2, <3>3
    <3> QED
      BY <1>4, <2>1, <3>4 DEF Carries
  <2> QED
    BY <1>4, <2>2, <2>3
<1>5. CASE GoesOn(p)
  <2>1. InPackage(p)' /\ run'[p].pc = "operation" /\ run'[p].todo = Tail(run[p].todo)
        /\ Tail(run[p].todo) # <<>>
    BY <1>0, <1>5, SameHead, MovedTodo
  <2>2. i # 1
    BY <1>1, <1>2, <1>3, <1>5 DEF GoesOn
  <2>3. i - 1 \in DOMAIN run'[p].todo /\ run'[p].todo[i - 1] = run[p].todo[i]
    <3>1. /\ DOMAIN Tail(run[p].todo) = 1..(Len(run[p].todo) - 1)
          /\ \A k \in 1..(Len(run[p].todo) - 1) : Tail(run[p].todo)[k] = run[p].todo[k + 1]
      BY <1>0, NotEmpty
    <3>2. i - 1 \in 1..(Len(run[p].todo) - 1) /\ (i - 1) + 1 = i
      BY <1>2, <2>2
    <3>3. Tail(run[p].todo)[i - 1] = run[p].todo[(i - 1) + 1]
      BY <3>1, <3>2
    <3> QED
      BY <2>1, <3>1, <3>2, <3>3
  <2>4. Current(p)' = run[p].todo[2] /\ 2 \in DOMAIN run[p].todo
    <3>1. /\ Len(run[p].todo) # 1
      BY <1>5 DEF GoesOn
    <3>2. Tail(run[p].todo) \in Seq(Items) /\ Tail(run[p].todo)[1] = run[p].todo[2] /\ 2 \in DOMAIN run[p].todo
      <4>1. /\ \A k \in 1..(Len(run[p].todo) - 1) : Tail(run[p].todo)[k] = run[p].todo[k + 1]
            /\ Tail(run[p].todo) \in Seq(Items) /\ Len(run[p].todo) # 0
        BY <1>0, NotEmpty
      <4>2. 1 \in 1..(Len(run[p].todo) - 1) /\ 2 \in 1..Len(run[p].todo)
        <5>1. \A n \in Nat : n # 0 /\ n # 1 => 1 \in 1..(n - 1) /\ 2 \in 1..n
          OBVIOUS
        <5> QED
          BY ONLY <1>2, <3>1, <4>1, <5>1, Zenon
      <4>3. Tail(run[p].todo)[1] = run[p].todo[1 + 1]
        BY <4>1, <4>2
      <4> QED
        BY <1>2, <4>1, <4>2, <4>3
    <3>3. Head(Tail(run[p].todo)) = Tail(run[p].todo)[1]
      BY <2>1, <3>2, NotEmpty
    <3> QED
      BY <2>1, <3>2, <3>3 DEF Current
  <2>5. run[p].todo[1].view \in Claimable /\ 1 \in DOMAIN run[p].todo
    BY <1>0, <1>2, <2>4 DEF Leads
  <2>6. run[p].todo[2].view \in Claimable
    BY <1>0, <2>4, <2>5 DEF PackageOK
  <2>7. Leads(p)'
    BY <2>1, <2>4, <2>6 DEF Leads, Engaged
  <2> QED
    BY <1>1, <2>1, <2>3, <2>7 DEF Carries
<1>6. CASE Len(run[p].todo) = 1 /\ ops'[Current(p).id].status \in Final
  BY <1>1, <1>2, <1>3, <1>6
<1>7. CASE Yields(p)
  <2>1. PICK q \in Processes : /\ Engaged(q) /\ Leads(q)' /\ Current(q).id = Current(p).id /\ Stays(q)
    BY <1>0, <1>2, <1>7, YieldsTo
  <2>2. InPackage(q) /\ \E k \in DOMAIN run[q].todo : run[q].todo[k].id = id
    <3>1. \E k \in DOMAIN run[p].todo : run[p].todo[k].id = id
      BY <1>1
    <3>2. Engaged(p) /\ Engaged(q) /\ InPackage(p) /\ Current(p).id = Current(q).id
      BY <1>0, <2>1
    <3> QED
      BY <3>1, <3>2, SameTodo
  <2>3. InPackage(q)' /\ run'[q].todo = run[q].todo
    BY <2>1, <2>2 DEF Stays, InPackage
  <2> QED
    BY <2>1, <2>2, <2>3 DEF Carries
<1> QED
  BY <1>0, <1>2, <1>4, <1>5, <1>6, <1>7, LeadsOn

(* A regeneration that is next, or waits, is next, or waits. *)
LEMMA NextStep ==
    ASSUME Types, ProcessesOK, Worked, lost' = FALSE, NEW p \in Processes, QueueMoves(p),
           NEW id \in Ids, id.gen = generation, ops'[id].status \in Open,
           Leads(p), Current(p).id = id
    PROVE  \E q \in Processes : Leads(q)' /\ Current(q)'.id = id
<1>0. Engaged(p) /\ ops'[id].status \notin Final
  BY StatusesAre DEF Leads, Open
<1>1. CASE Leads(p)' /\ Current(p)'.id = Current(p).id
  BY <1>1
<1>2. CASE Yields(p)
  <2>1. PICK q \in Processes : Leads(q)' /\ Current(q).id = Current(p).id /\ Stays(q)
    BY <1>0, <1>2, YieldsTo
  <2>2. Current(q)' = Current(q)
    BY <2>1 DEF Stays, Current
  <2> QED
    BY <2>1, <2>2
<1>3. CASE GoesOn(p)
  BY <1>0, <1>3 DEF GoesOn
<1> QED
  BY <1>0, <1>1, <1>2, <1>3, LeadsOn

(* A chained operation that waits keeps waiting or comes to the head. *)
LEMMA WaitsStep ==
    ASSUME Types, ProcessesOK, lost' = FALSE, NEW p \in Processes, QueueMoves(p),
           NEW id \in Ids, Waits(p, id)
    PROVE  (Leads(p)' /\ Current(p)'.id = id) \/ Waits(p, id)'
<1>0. /\ ChainOK(p) /\ TodoOK(p) /\ tail[p] \in Seq(Works) /\ DOMAIN tail[p] = 1..Len(tail[p])
      /\ Len(tail[p]) \in Nat
  BY LenProperties DEF ProcessesOK, Types
<1>1. PICK i \in DOMAIN tail[p] :
        /\ i > 1 \/ run[p].pc = "idle"
        /\ tail[p][i] # Package /\ tail[p][i].id = id /\ tail[p][i].view \in Claimable
  BY DEF Waits
<1>2. tail[p] # <<>> /\ Head(tail[p]) = tail[p][1]
  <2>1. tail[p] # <<>>
    BY <1>0, <1>1, Empty
  <2> QED
    BY <1>0, <2>1, NotEmpty
<1>3. CASE Stays(p)
  BY <1>1, <1>3 DEF Stays, Waits
<1>4. CASE Grows(p)
  <2>1. PICK work \in Works : tail'[p] = Append(tail[p], work)
    BY <1>4 DEF Grows
  <2>2. i \in DOMAIN tail'[p] /\ tail'[p][i] = tail[p][i]
    BY <1>0, <1>1, <2>1, Longer
  <2> QED
    BY <1>1, <1>4, <2>2 DEF Grows, Waits
<1>5. CASE Ends(p)
  <2>1. i > 1 /\ tail'[p] = Tail(tail[p]) /\ run'[p].pc = "idle"
    BY <1>1, <1>5 DEF Ends, Ended, Types, Idle, At
  <2>2. i - 1 \in DOMAIN tail'[p] /\ tail'[p][i - 1] = tail[p][i]
    <3>1. /\ DOMAIN Tail(tail[p]) = 1..(Len(tail[p]) - 1)
          /\ \A k \in 1..(Len(tail[p]) - 1) : Tail(tail[p])[k] = tail[p][k + 1]
      BY <1>0, <1>2, NotEmpty
    <3>2. i - 1 \in 1..(Len(tail[p]) - 1) /\ (i - 1) + 1 = i
      BY <1>0, <1>1, <2>1
    <3>3. Tail(tail[p])[i - 1] = tail[p][(i - 1) + 1]
      BY <3>1, <3>2
    <3> QED
      BY <2>1, <3>1, <3>2, <3>3
  <2> QED
    BY <1>1, <2>1, <2>2 DEF Waits
<1>6. CASE BeginPackage(p)
  <2>1. tail' = tail /\ i # 1
    BY <1>1, <1>2, <1>6 DEF BeginPackage
  <2> QED
    BY <1>0, <1>1, <2>1 DEF Waits
<1>7. CASE BeginRegeneration(p)
  <2>1. tail'[p] = tail[p] /\ run'[p].pc = "operation"
        /\ run'[p].todo = <<Item(Head(tail[p]).id, Head(tail[p]).view)>>
    BY <1>0, <1>7, MovedTodo
  <2>2. CASE i = 1
    <3>1. Current(p)' = Item(Head(tail[p]).id, Head(tail[p]).view)
      BY <2>1 DEF Current
    <3>2. Current(p)'.id = id /\ Current(p)'.view \in Claimable
      BY <1>1, <1>2, <2>2, <3>1 DEF Item
    <3> QED
      BY <2>1, <3>2 DEF Leads, Engaged
  <2>3. CASE i # 1
    BY <1>0, <1>1, <2>1, <2>3 DEF Waits
  <2> QED
    BY <2>2, <2>3
<1>8. CASE Lists(p) \/ WorksOn(p) \/ Retries(p) \/ GoesOn(p)
  <2>1. tail'[p] = tail[p] /\ run[p].pc # "idle"
    BY <1>0, <1>8, MovedTodo DEF Lists, RegisterOperations, Engaged
  <2> QED
    BY <1>1, <2>1 DEF Waits
<1>9. ~Crash(p)
  BY DEF Crash
<1> QED
  BY <1>3, <1>4, <1>5, <1>6, <1>7, <1>8, <1>9 DEF QueueMoves

(* Operations are inserted by a process that will come to them. *)
LEMMA InsertedCarried ==
    ASSUME Types, ProcessesOK, RowsOK, NEW id \in Ids, Inserts(id), InsertsOriginal(id)
    PROVE  \E q \in Processes : Carries(q, id)'
<1>1. PICK p \in Processes : Lists(p)
  BY DEF InsertsOriginal, Lists
<1>2. /\ run'[p].pc = "operation" /\ run'[p].todo = Listed /\ tail'[p] = tail[p] /\ Listed # <<>>
      /\ ChainOK(p) /\ run[p].pc = "register"
  BY <1>1, MovedTodo DEF ProcessesOK, QueueMoves, Lists, RegisterOperations
<1>3. /\ Listed \in Seq(Items) /\ DOMAIN Listed = DOMAIN Kinds
      /\ \A i \in DOMAIN Kinds :
           /\ Listed[i] = Item(Id(generation, Kinds[i], 0), ops'[Id(generation, Kinds[i], 0)].status)
           /\ ops'[Id(generation, Kinds[i], 0)] = Stored(Id(generation, Kinds[i], 0))
  BY <1>1, Registration DEF Lists
<1> HIDE DEF Listed
<1>4. Current(p)' = Listed[1] /\ 1 \in DOMAIN Kinds
  BY <1>2, <1>3, NotEmpty, KindsAre DEF Current
<1>5. PICK k \in DOMAIN Kinds : id = Id(generation, Kinds[k], 0)
  <2>1. PICK k \in DOMAIN Kinds : Kinds[k] = id.kind
    BY KindsAre DEF Ids
  <2> QED
    BY <2>1 DEF Inserts, InsertsOriginal, Id, Ids
<1>6. Listed[k].id = id
  BY <1>3, <1>5 DEF Item
<1>7. ops[Id(generation, Kinds[1], 0)] = Absent
  <2>1. ops[id].status = "none"
    BY DEF Inserts, Absent, Row
  <2>2. ops[Id(generation, Kinds[1], 0)].status = "none"
    BY <1>4, <1>5, <2>1, ActiveTyped DEF RowsOK, RegisteredTogether
  <2>3. Id(generation, Kinds[1], 0) \in Ids
    BY <1>4, ActiveTyped, PlannedAre
  <2> QED
    BY <2>2, <2>3 DEF RowsOK, RowOK
<1>8. Current(p)'.view \in Claimable
  <2>1. ops'[Id(generation, Kinds[1], 0)].status = "queued"
    BY <1>3, <1>4, <1>7, QueuedTyped DEF Stored
  <2> QED
    BY <1>3, <1>4, <2>1 DEF Item, Claimable
<1>9. InPackage(p)'
  BY <1>2 DEF ChainOK, InPackage
<1> QED
  BY <1>2, <1>3, <1>6, <1>8, <1>9 DEF Carries, Leads, Engaged

(* A regeneration that is inserted waits in the chain of the process that *)
(* inserted it. *)
LEMMA InsertedWaits ==
    ASSUME Types, ProcessesOK, NEW id \in Ids, Inserts(id), InsertsRegeneration(id)
    PROVE  \E q \in Processes : Waits(q, id)'
<1> DEFINE work == Regeneration(id, "queued")
<1>1. PICK p \in Processes : Chained(p, work) /\ run' = run
  BY DEF InsertsRegeneration
<1>2. /\ work \in Works /\ work # Package /\ work.id = id /\ work.view \in Claimable /\ Key(work) = id
  <2>1. work \in Works /\ work.id = id /\ work.view \in Claimable
    BY DEF Regeneration, Works, Open, Claimable
  <2>2. work # Package
    BY KeysApart
  <2> HIDE DEF work
  <2> QED
    BY <2>1, <2>2, KeysOf
<1> HIDE DEF work
<1>3. /\ ChainOK(p) /\ tail[p] \in Seq(Works) /\ \A i \in DOMAIN tail[p] : tail[p][i] \in Works
  BY ElementOfSeq, LenProperties DEF ProcessesOK, Types
<1>4. Key(work) \notin Scheduled(p)
  <2> SUFFICES ASSUME NEW i \in DOMAIN tail[p], Key(tail[p][i]) = id PROVE FALSE
    BY <1>2 DEF Scheduled
  <2>1. tail[p][i] # Package /\ tail[p][i].id = id
    BY <1>3, KeysOf, KeysApart
  <2>2. ops[id].status # "none"
    BY <1>3, <2>1 DEF ChainOK
  <2> QED
    BY <2>2 DEF Inserts, Absent, Row
<1>5. tail'[p] = Append(tail[p], work)
  BY <1>1, <1>4 DEF Chained, Types
<1>6. /\ Len(tail[p]) \in Nat /\ Len(tail[p]) + 1 \in DOMAIN tail'[p]
      /\ tail'[p][Len(tail[p]) + 1] = work
  BY <1>2, <1>3, <1>5, Longer
<1>7. Len(tail[p]) + 1 > 1 \/ run'[p].pc = "idle"
  <2>1. CASE tail[p] = <<>>
    BY <1>1, <1>3, <2>1 DEF ChainOK
  <2>2. CASE tail[p] # <<>>
    <3>1. Len(tail[p]) \in Nat \ {0}
      BY <1>3, <2>2, NotEmpty
    <3> QED
      BY <3>1
  <2> QED
    BY <2>1, <2>2
<1> QED
  BY <1>2, <1>6, <1>7 DEF Waits

(* What was lost stays lost, and a course that is built again has nothing open. *)
LEMMA LostStays == ASSUME Types, [Next]_vars, ~lost' PROVE ~lost /\ lost' = FALSE
<1>1. ASSUME NEW p \in Processes, Moves(p) PROVE lost' = lost \/ lost' = TRUE
  BY <1>1 DEF Moves, BeginPackage, BeginRegeneration, RegisterOperations, SkipOperation, Claim,
     RecordFailure, Generates, Tried, Completed, CompleteTextLesson, CompleteQuizBank,
     CompleteRefused, Schedule, Reject, Crash, Registers, Regenerate, Replays, ReplayRegeneration
<1>2. lost' = lost \/ lost' = TRUE
  BY <1>1, NextCases DEF ActivateGeneration, vars
<1>3. lost \in BOOLEAN
  BY DEF Types
<1>4. lost' = lost
  BY <1>2
<1> QED
  BY <1>3, <1>4, Zenon

(* A generation that becomes active has no rows yet. *)
LEMMA NewGenerationEmpty ==
    ASSUME Types, RowsOK, [Next]_vars, NEW id \in Ids, id.gen = generation',
           ops'[id].status # "none"
    PROVE  generation' = generation
<1>1. CASE ActivateGeneration
  <2>1. ops' = ops /\ generation' = generation + 1
    BY <1>1 DEF ActivateGeneration
  <2>2. id.gen <= generation
    BY <2>1 DEF RowsOK, RowOK
  <2> QED
    BY <2>1, <2>2, ActiveTyped
<1> QED
  BY <1>1, GenerationMoves

(* While nothing was lost, every open operation is worked on or carried by a *)
(* chain, and that is preserved. *)
LEMMA DroppedStep ==
    ASSUME Types, ProcessesOK, RowsOK, NothingDropped, [Next]_vars
    PROVE  NothingDropped'
<1> SUFFICES ASSUME ~lost' PROVE Worked' /\ Carried'
  BY DEF NothingDropped
<1>0. /\ Worked /\ Carried /\ lost' = FALSE /\ \A id \in Ids : RowMoves(id)
      /\ \A p \in Processes : QueueMoves(p)
      /\ \A p \in Processes : ChainOK(p) /\ TodoOK(p) /\ PackageOK(p) /\ ClaimOK(p)
      /\ RowsGrow
  BY LostStays, RowsWritten, QueuesMove, RowsGrowing DEF NothingDropped, ProcessesOK
<1>1. ASSUME NEW id \in Ids, id.gen = generation', ops'[id].status = "processing"
      PROVE  \E p \in Processes : AtWork(p)' /\ Current(p)'.id = id
  <2>1. generation' = generation
    BY <1>1, NewGenerationEmpty
  <2>2. CASE Claims(id)
    <3>1. PICK p \in Processes : Claim(p) /\ Current(p).id = id
      BY <2>2 DEF Claims
    <3>2. run'[p] = At("generate", 0, run[p].todo, ops[id].attempts + 1, None)
      BY <2>2, <3>1 DEF Claim, Claims, Types
    <3> QED
      BY <3>1, <3>2 DEF At, AtWork, Current
  <2>3. CASE ops'[id] = ops[id]
    <3>1. PICK p \in Processes : AtWork(p) /\ Current(p).id = id
      BY <1>0, <1>1, <2>1, <2>3 DEF Worked
    <3>2. Leads(p) /\ QueueMoves(p) /\ ~Yields(p)
      BY <1>0, <3>1 DEF ClaimOK, Leads, AtWork, Engaged, Yields
    <3>3. ~GoesOn(p) /\ ~(ops'[Current(p).id].status \in Final) /\ ~Retries(p)
      BY <1>1, <3>1, StatusesAre DEF GoesOn, Retries
    <3>4. Stays(p) \/ Grows(p) \/ WorksOn(p)
      BY <1>0, <1>1, <2>1, <3>1, <3>2, <3>3, LeadsOn
    <3>5. CASE Stays(p) \/ Grows(p)
      BY <3>1, <3>5 DEF Stays, Grows, AtWork, Current
    <3>6. CASE WorksOn(p)
      BY <3>1, <3>6 DEF WorksOn, At, AtWork, Current
    <3> QED
      BY <3>4, <3>5, <3>6
  <2>4. ~Inserts(id)
    BY <1>1, QueuedTyped, ActivationAssumption DEF Inserts, InsertsOriginal, InsertsRegeneration
  <2>5. ~Results(id)
    <3> SUFFICES ASSUME Results(id) PROVE FALSE
      OBVIOUS
    <3>1. PICK status \in {"succeeded", "retry_scheduled", "failed_permanent"},
               failure \in {None} \cup {f.class : f \in Failures} :
            ops'[id] = Row(status, ops[id].attempts, failure, ops[id].key)
      BY DEF Results
    <3> QED
      BY <1>1, <3>1 DEF Row
  <2> QED
    BY <1>0, <2>2, <2>3, <2>4, <2>5 DEF RowMoves
<1>2. ASSUME NEW id \in Ids, id.gen = generation', ops'[id].status \in Open
      PROVE  /\ id.ordinal = 0 => \E p \in Processes : Carries(p, id)'
             /\ id.ordinal # 0 => \E p \in Processes : (Leads(p)' /\ Current(p)'.id = id) \/ Waits(p, id)'
  <2>1. generation' = generation /\ id.gen = generation
    BY <1>2, NewGenerationEmpty, StatusesAre
  <2>2. CASE ops[id].status \in Open
    <3>1. CASE id.ordinal = 0
      <4>1. PICK p \in Processes : Carries(p, id)
        BY <1>0, <2>1, <2>2, <3>1 DEF Carried
      <4> QED
        BY <1>0, <1>2, <2>1, <3>1, <4>1, CarriesStep
    <3>2. CASE id.ordinal # 0
      <4>1. PICK p \in Processes : (Leads(p) /\ Current(p).id = id) \/ Waits(p, id)
        BY <1>0, <2>1, <2>2, <3>2 DEF Carried
      <4>2. CASE Leads(p) /\ Current(p).id = id
        BY <1>0, <1>2, <2>1, <3>2, <4>2, NextStep
      <4>3. CASE Waits(p, id)
        BY <1>0, <3>2, <4>3, WaitsStep
      <4> QED
        BY <4>1, <4>2, <4>3
    <3> QED
      BY <3>1, <3>2
  <2>3. CASE ops[id].status \notin Open
    <3>1. Inserts(id)
      BY <1>0, <1>2, <2>3, StatusesAre DEF RowMoves, Claims, ClaimGuard, Results, Open
    <3>2. CASE InsertsOriginal(id)
      BY <3>1, <3>2, InsertedCarried DEF InsertsOriginal
    <3>3. CASE InsertsRegeneration(id)
      <4>1. id.ordinal # 0
        BY <3>3 DEF InsertsRegeneration
      <4> QED
        BY <3>1, <3>3, <4>1, InsertedWaits
    <3> QED
      BY <3>1, <3>2, <3>3 DEF Inserts
  <2> QED
    BY <2>2, <2>3
<1>3. Worked'
  BY <1>1 DEF Worked
<1>4. Carried'
  BY <1>2 DEF Carried
<1> QED
  BY <1>3, <1>4

-----------------------------------------------------------------------------
(* The invariant, and what it says of the properties. *)
LEMMA InvariantStep == ActivationInv /\ [Next]_vars => ActivationInv'
  BY TypesStep, RowsStep, ArtifactsStep, ProcessesStep, ReadinessStep, DroppedStep
     DEF ActivationInv

(* The invariant implies the type invariant that TLC checks. *)
LEMMA TypesHold == ActivationInv => TypeOK
<1> SUFFICES ASSUME ActivationInv PROVE TypeOK
  OBVIOUS
<1>1. Types /\ ProcessesOK
  BY DEF ActivationInv
<1>2. ASSUME NEW p \in Processes
      PROVE  /\ \A i, j \in DOMAIN tail[p] : Key(tail[p][i]) = Key(tail[p][j]) => i = j
             /\ run[p].pc \in {"idle", "register", "operation", "generate", "complete", "fail"}
             /\ (run[p].pc \in {"operation", "generate", "complete", "fail"}) <=> (run[p].todo # <<>>)
             /\ run[p].pc # "idle" => tail[p] # <<>>
  <2>1. run[p] \in Runs /\ ChainOK(p) /\ TodoOK(p)
    BY <1>1 DEF Types, ProcessesOK
  <2>2. run[p].pc \in {"idle", "register", "operation", "generate", "complete", "fail"}
    BY <2>1 DEF Runs
  <2>3. (run[p].pc \in {"operation", "generate", "complete", "fail"}) <=> (run[p].todo # <<>>)
    BY <2>1 DEF TodoOK, Engaged
  <2> QED
    BY <2>1, <2>2, <2>3 DEF ChainOK
<1>3. ops \in [Ids -> [status : {"none"} \cup Open \cup Final, attempts : 0..MaxAttempts,
                       failure : {None} \cup {f.class : f \in Failures}, key : {None} \cup Keys]]
  BY <1>1 DEF Types, RowSet, Statuses
<1> QED
  BY <1>1, <1>2, <1>3 DEF TypeOK, Types

(* The invariant implies OneWorker. *)
LEMMA WorkersHold == ActivationInv => OneWorker
<1> SUFFICES ASSUME ActivationInv, NEW p \in Processes, NEW id \in Ids, Working(p, id)
             PROVE  /\ Holds(id, run[p].attempt)
                    /\ \A q \in Processes \ {p} : ~Working(q, id)
  BY DEF OneWorker
<1>1. AtWork(p) /\ Current(p).id = id /\ ClaimOK(p) /\ ClaimedByOne
  BY DEF Working, AtWork, ActivationInv, ProcessesOK
<1>2. \A q \in Processes : Working(q, id) => p = q
  BY <1>1 DEF Working, AtWork, ClaimedByOne
<1> QED
  BY <1>1, <1>2 DEF ClaimOK

(* The invariant implies OneArtifact. *)
LEMMA ArtifactsHold == ActivationInv => OneArtifact
<1> SUFFICES ASSUME ActivationInv PROVE OneArtifact
  OBVIOUS
<1>1. Types /\ RowsOK /\ ArtifactsOK
  BY DEF ActivationInv
<1>2. ASSUME NEW a \in artifacts, NEW b \in artifacts, a.id.gen = b.id.gen, a.id.kind = b.id.kind
      PROVE  a = b
  <2>1. /\ a \in [id : Ids, attempt : 1..MaxAttempts] /\ b \in [id : Ids, attempt : 1..MaxAttempts]
        /\ ops[a.id].status = "succeeded" /\ ops[b.id].status = "succeeded"
        /\ a.attempt = ops[a.id].attempts /\ b.attempt = ops[b.id].attempts
    BY <1>1 DEF Types, ArtifactsOK
  <2>2. a.id \in Ids /\ b.id \in Ids /\ a.id.ordinal \in Int /\ b.id.ordinal \in Int
    BY <2>1 DEF Ids
  <2>3. ~(a.id.ordinal < b.id.ordinal) /\ ~(b.id.ordinal < a.id.ordinal)
    BY <1>1, <1>2, <2>1, <2>2 DEF RowsOK, OldestFailed
  <2>4. a.id.ordinal = b.id.ordinal
    BY <2>2, <2>3
  <2>5. a.id = b.id
    BY <1>2, <2>2, <2>4 DEF Ids
  <2> QED
    BY <2>1, <2>5
<1>3. ASSUME NEW id \in Ids PROVE ops[id].status = "succeeded" <=> \E a \in artifacts : a.id = id
  BY <1>1 DEF ArtifactsOK
<1> QED
  BY <1>2, <1>3 DEF OneArtifact

(* The invariant implies Attended. *)
LEMMA AttendedHolds == ActivationInv => Attended
<1> SUFFICES ASSUME ActivationInv, ~lost, NEW id \in Ids, ops[id].status \in Open, id.gen = generation
             PROVE  \E p \in Processes : Attends(p, id)
  BY DEF Attended
<1>1. Carried /\ Types
  BY DEF ActivationInv, NothingDropped
<1>2. ASSUME NEW p \in Processes, Carries(p, id) PROVE Attends(p, id)
  BY <1>2 DEF Carries, Attends
<1>3. ASSUME NEW p \in Processes, Leads(p), Current(p).id = id PROVE Attends(p, id)
  <2>1. Engaged(p) /\ TodoOK(p)
    BY <1>3 DEF Leads, ActivationInv, ProcessesOK
  <2>2. Current(p) = run[p].todo[1] /\ 1 \in DOMAIN run[p].todo
    BY <1>1, <2>1, CurrentTyped
  <2> QED
    BY <1>3, <2>2 DEF Attends
<1>4. ASSUME NEW p \in Processes, Waits(p, id) PROVE Attends(p, id)
  <2>1. PICK i \in DOMAIN tail[p] :
          (i > 1 \/ run[p].pc = "idle") /\ tail[p][i] # Package /\ tail[p][i].id = id
    BY <1>4 DEF Waits
  <2>2. tail[p] \in Seq(Works) /\ tail[p][i] \in Works
    BY <1>1, ElementOfSeq, LenProperties DEF Types
  <2>3. Key(tail[p][i]) = id
    BY <2>1, <2>2, KeysOf
  <2> QED
    BY <2>1, <2>3 DEF Attends
<1> QED
  BY <1>1, <1>2, <1>3, <1>4 DEF Carried

(* The inductive invariant of the activation packages holds in every       *)
(* reachable state: what the rows, the chains and the lists of operations  *)
(* of all processes have to do with each other.                            *)
THEOREM ActivationInvariant == Spec => []ActivationInv
<1>1. Init => ActivationInv
  BY InitInvariant
<1>2. ActivationInv /\ [Next]_vars => ActivationInv'
  BY InvariantStep
<1> QED
  BY <1>1, <1>2, PTL DEF Spec

(* An artifact is generated by one process at a time and stored once, a    *)
(* chapter with a quiz is ready only with its lesson, and an open operation*)
(* stays with a process that will come to it as long as nothing was lost.  *)
THEOREM WorkIsKept == Spec => []WorkKept
<1>1. ActivationInv => WorkKept
  BY TypesHold, WorkersHold, ArtifactsHold, AttendedHolds DEF WorkKept, ActivationInv
<1> QED
  BY <1>1, ActivationInvariant, PTL

(* A package claims an original only after those before it are final. *)
LEMMA OvertakesNone ==
    ASSUME ActivationInv, NEW p \in Processes, Claim(p), InPackage(p), NEW id \in Ids,
           id.gen = Current(p).id.gen, id.ordinal = 0,
           Priority(id.kind) < Priority(Current(p).id.kind)
    PROVE  ops[id].status \in Final
<1>1. Engaged(p) /\ TodoOK(p) /\ PackageOK(p) /\ Types
  BY DEF Claim, Engaged, ActivationInv, ProcessesOK
<1>2. /\ Current(p) = run[p].todo[1] /\ Len(run[p].todo) \in Nat \ {0}
      /\ DOMAIN run[p].todo = 1..Len(run[p].todo) /\ Len(run[p].todo) <= Len(Kinds)
  BY <1>1, CurrentTyped DEF PackageOK
<1>3. Place(p, 1) \in DOMAIN Kinds
  BY <1>2, KindsAre DEF Place
<1>4. Current(p).id = Id(Current(p).id.gen, Kinds[Place(p, 1)], 0)
  BY <1>1, <1>2 DEF PackageOK
<1>5. \A i \in DOMAIN Kinds : Priority(Kinds[i]) = i
  <2> SUFFICES ASSUME NEW i \in DOMAIN Kinds PROVE Priority(Kinds[i]) = i
    OBVIOUS
  <2>1. \A j \in DOMAIN Kinds : Kinds[j] = Kinds[i] <=> j = i
    BY KindsAre
  <2> QED
    BY <2>1 DEF Priority
<1>6. Priority(Current(p).id.kind) = Place(p, 1)
  BY <1>3, <1>4, <1>5 DEF Id
<1>7. PICK k \in DOMAIN Kinds : Kinds[k] = id.kind
  BY KindsAre DEF Ids
<1>8. k < Place(p, 1)
  BY <1>5, <1>6, <1>7
<1>9. id = Id(Current(p).id.gen, Kinds[k], 0)
  BY <1>7 DEF Id, Ids
<1> QED
  BY <1>1, <1>8, <1>9 DEF PackageOK

(* A package claims an original when those before it are final, and what   *)
(* is stored belongs to the generation that is active at that moment.      *)
THEOREM ClaimedInOrder == Spec => InOrder
<1>1. ActivationInv /\ [Next]_vars =>
        [\A p \in Processes :
            Claim(p) /\ InPackage(p) /\ run'[p].pc = "generate" =>
                \A id \in Ids :
                    id.gen = Current(p).id.gen /\ id.ordinal = 0
                        /\ Priority(id.kind) < Priority(Current(p).id.kind)
                            => ops[id].status \in Final]_vars
  BY OvertakesNone
<1>2. ActivationInv /\ [Next]_vars => [\A a \in artifacts' \ artifacts : a.id.gen = generation]_vars
  BY ArtifactsMove, CompletedStores DEF ActivationInv
<1>3. Spec => NoOvertaking
  BY <1>1, ActivationInvariant, PTL DEF Spec, NoOvertaking
<1>4. Spec => StoredOfActive
  BY <1>2, ActivationInvariant, PTL DEF Spec, StoredOfActive
<1> QED
  BY <1>3, <1>4 DEF InOrder

-----------------------------------------------------------------------------
(* The progress stream.                                                    *)
(***************************************************************************)

Timers == {"connection", "fallback", "reconnect"}
Connections == {None, "connecting", "live", "offline", "idle"}
Pages == [connection : Connections, source : {None} \cup Channel!Sources, generation : Channel!Sources,
          live : BOOLEAN, polls : 0..MaxPolls, reconnects : 0..MaxReconnects,
          stopped : BOOLEAN, terminal : BOOLEAN]
Events == {Channel!Open, Channel!Failed} \cup {Channel!Activation(v) : v \in Channel!Versions}
StreamTypes ==
    /\ progress \in Channel!Versions /\ shown \in Channel!Versions
    /\ stream \in [Channel!Sources -> {None, Channel!Ended} \cup Channel!Versions]
    /\ wire \in [Channel!Sources -> Seq(Events)]
    /\ page \in Pages
    /\ timers \subseteq Timers
    /\ poll \in {None} \cup Channel!Versions /\ opened \subseteq Channel!Sources

(* The source that is read is the newest one; while it is, or while one is *)
(* to be opened, nothing is polled, and the generations leave room for     *)
(* those that may still be made.                                           *)
Reading == page.source # None
Reopening == "reconnect" \in timers
SourceOK ==
    /\ Reading => /\ page.source = page.generation
                  /\ page.generation <= 2 * page.reconnects + 1
                  /\ ~page.stopped /\ ~page.terminal
                  /\ ~Reopening
    /\ Reopening => /\ page.generation <= 2 * page.reconnects
                    /\ ~page.stopped /\ ~page.terminal
                    /\ "connection" \notin timers
    /\ page.generation <= 2 * MaxReconnects + 2 \/ page.stopped
TimersOK ==
    /\ "connection" \in timers => Reading
    /\ "fallback" \in timers => page.polls < MaxPolls /\ ~page.stopped /\ ~page.terminal
    /\ "fallback" \in timers \/ poll # None => ~Reading /\ ~Reopening
    /\ page.stopped => page.terminal /\ timers = {}

(* A source beyond the newest was never opened, and the newest one was     *)
(* only if it is the one that is read.                                     *)
WiresOK ==
    \A s \in Channel!Sources : stream[s] # None \/ wire[s] # <<>> =>
        /\ stream[s] # None
        /\ s <= page.generation
        /\ s = page.generation => page.source = s

HeldInv == StreamTypes /\ Channel!OneSource /\ Channel!QuietAtEnd /\ SourceOK /\ TimersOK /\ WiresOK

(* What a source has written and what is shown never go back.              *)
Below(q, v) == \A i \in DOMAIN q : q[i].event = "activation" => q[i].version <= v
Above(q, v) == \A i \in DOMAIN q : q[i].event = "activation" => q[i].version >= v
NotBack(q) ==
    \A i, j \in DOMAIN q :
        i < j /\ q[i].event = "activation" /\ q[j].event = "activation" =>
            q[i].version <= q[j].version
ShownInv ==
    /\ shown <= progress
    /\ poll # None => shown <= poll /\ poll <= progress
    /\ \A s \in Channel!Sources : NotBack(wire[s]) /\ Below(wire[s], progress)
    /\ Above(wire[page.generation], shown)
StreamInv == HeldInv /\ ShownInv

-----------------------------------------------------------------------------
(* The events that a step may write. *)
LEMMA EventTypes ==
    ASSUME NEW v \in Channel!Versions
    PROVE  /\ Channel!Activation(v) \in Events /\ Channel!Open \in Events /\ Channel!Failed \in Events
           /\ Channel!Activation(v).event = "activation" /\ Channel!Activation(v).version = v
           /\ Channel!Open.event = "open" /\ Channel!Failed.event = "error"
  BY DEF Events, Channel!Activation, Channel!Open, Channel!Failed

(* Only an activation event carries a version. *)
LEMMA EventKinds ==
    ASSUME NEW e \in Events
    PROVE  /\ e.event = "activation" => e.version \in Channel!Versions
           /\ e.event # "activation" => e.event \in {"open", "error"}
  BY DEF Events, Channel!Activation, Channel!Open, Channel!Failed

(* One more than what is below a bound. *)
LEMMA OneMore ==
    ASSUME NEW a \in Nat, NEW b \in Nat, ~(a >= b)
    PROVE  a + 1 \in 0..b
  BY SMT

(* The sets of numbers of the stream, and None outside them. *)
LEMMA ConstantTypes ==
    /\ Channel!Versions \subseteq Nat /\ Last \in Channel!Versions /\ 0 \in Channel!Versions
    /\ Channel!Ended \in Nat /\ Channel!Ended \notin Channel!Versions /\ None \notin Channel!Versions /\ None # Channel!Ended
    /\ Channel!Sources \subseteq Nat /\ 0 \in Channel!Sources /\ None \notin Channel!Sources
    /\ \A n \in Nat : n <= 2 * MaxReconnects + 3 => n \in Channel!Sources
    /\ MaxReconnects \in Nat /\ MaxPolls \in Nat /\ Last \in Nat
  BY ActivationBounds DEF Channel!Versions, Channel!Ended, Channel!Sources

(* The invariant holds when the page subscribes. *)
LEMMA HeldInit == ASSUME Channel!Init PROVE StreamInv
<1> USE ConstantTypes
<1>1. page \in Pages
  BY DEF Channel!Init, Pages, Connections
<1>2. wire \in [Channel!Sources -> Seq(Events)] /\ \A s \in Channel!Sources : wire[s] = <<>>
  BY DEF Channel!Init
<1>3. StreamTypes
  BY <1>1, <1>2 DEF Channel!Init, StreamTypes, Timers
<1>4. Channel!OneSource /\ Channel!QuietAtEnd
  BY DEF Channel!Init, Channel!OneSource, Channel!QuietAtEnd
<1>5. SourceOK /\ TimersOK
  BY DEF Channel!Init, SourceOK, TimersOK, Reading, Reopening
<1>6. WiresOK
  BY <1>2 DEF Channel!Init, WiresOK
<1>7. ShownInv
  <2>1. \A s \in Channel!Sources : DOMAIN wire[s] = {}
    BY <1>2
  <2>2. progress >= 0 /\ shown = 0 /\ poll = None /\ page.generation \in Channel!Sources
    BY <1>1 DEF Channel!Init, Pages, Channel!Versions
  <2> QED BY <2>1, <2>2 DEF ShownInv, NotBack, Below, Above
<1> QED BY <1>3, <1>4, <1>5, <1>6, <1>7 DEF StreamInv, HeldInv

(* What the server writes to the source that is read. *)
LEMMA WriteHeld ==
    ASSUME HeldInv, NEW s \in Channel!Sources, s \in opened, NEW events \in Seq(Events),
           Channel!Write(s, events), stream'[s] # None,
           stream' \in [Channel!Sources -> {None, Channel!Ended} \cup Channel!Versions],
           \A t \in Channel!Sources : t # s => stream'[t] = stream[t],
           UNCHANGED <<progress, Channel!controller, poll, visible, shown>>
    PROVE  HeldInv'
<1> USE ConstantTypes
<1>0. StreamTypes /\ Channel!OneSource /\ Channel!QuietAtEnd /\ SourceOK /\ TimersOK /\ WiresOK
  BY DEF HeldInv
<1>1. UNCHANGED <<progress, page, timers, opened, poll, visible, shown>>
  BY DEF Channel!controller
<1>2. wire' \in [Channel!Sources -> Seq(Events)] /\ \A t \in Channel!Sources : t # s => wire'[t] = wire[t]
  <2>1. wire[s] \o events \in Seq(Events)
    BY <1>0, ConcatProperties DEF StreamTypes
  <2> QED BY <1>0, <2>1 DEF StreamTypes, Channel!Write
<1>3. StreamTypes'
  BY <1>0, <1>1, <1>2 DEF StreamTypes
<1>4. Channel!OneSource' /\ Channel!QuietAtEnd' /\ SourceOK' /\ TimersOK'
  BY <1>0, <1>1 DEF Channel!OneSource, Channel!QuietAtEnd, SourceOK, TimersOK, Reading, Reopening
<1>5. page.source = s /\ page.generation = s
  BY <1>0 DEF Channel!OneSource, SourceOK, Reading
<1>a. page.generation \in Nat
  BY <1>0 DEF StreamTypes, Pages
<1>6. WiresOK'
  <2> SUFFICES ASSUME NEW t \in Channel!Sources, stream'[t] # None \/ wire'[t] # <<>>
               PROVE  /\ stream'[t] # None /\ t <= page.generation
                      /\ t = page.generation => page.source = t
    BY <1>1 DEF WiresOK
  <2>1. CASE t = s
    BY <1>5, <1>a, <2>1
  <2>2. CASE t # s
    BY <1>0, <1>2, <2>2 DEF WiresOK
  <2> QED BY <2>1, <2>2
<1> QED BY <1>3, <1>4, <1>6 DEF HeldInv

(* Nothing that is written is older than what was written before. *)
LEMMA WriteShown ==
    ASSUME StreamInv, HeldInv', NEW s \in Channel!Sources, NEW events \in Seq(Events),
           \A i \in DOMAIN events : events[i].event = "activation" => events[i].version = progress,
           Channel!Write(s, events), UNCHANGED <<progress, Channel!controller, poll, visible, shown>>
    PROVE  ShownInv'
<1> USE ConstantTypes
<1>0. StreamTypes /\ ShownInv
  BY DEF StreamInv, HeldInv
<1>1. UNCHANGED <<progress, page, poll, shown>>
  BY DEF Channel!controller
<1>2. page.generation \in Channel!Sources /\ shown \in Channel!Versions /\ progress \in Channel!Versions /\ wire[s] \in Seq(Events)
  BY <1>0 DEF StreamTypes, Pages
<1>3. \A t \in Channel!Sources : wire'[t] = IF t = s THEN wire[s] \o events ELSE wire[t]
  BY <1>0 DEF StreamTypes, Channel!Write
<1> DEFINE q == wire[s] n == Len(q) w == q \o events
<1>4. n \in Nat /\ Len(events) \in Nat /\ DOMAIN w = 1..(n + Len(events)) /\ DOMAIN q = 1..n /\ DOMAIN events = 1..Len(events)
  BY <1>2, ConcatProperties
<1>5. \A i \in DOMAIN w : w[i] = IF i <= n THEN q[i] ELSE events[i - n]
  BY <1>2, ConcatProperties
<1>6. \A i \in DOMAIN w : IF i <= n THEN i \in DOMAIN q ELSE i - n \in DOMAIN events
  BY <1>4
<1>7. \A i \in DOMAIN w : w[i] \in Events /\ (w[i].event = "activation" => w[i].version \in Channel!Versions)
  <2>1. \A i \in DOMAIN q : q[i] \in Events
    BY <1>2
  <2>2. \A i \in DOMAIN events : events[i] \in Events
    OBVIOUS
  <2> QED BY <1>5, <1>6, <2>1, <2>2, EventKinds
<1> HIDE DEF n, w, q
<1>8. NotBack(q) /\ Below(q, progress)
  BY <1>0 DEF ShownInv, q
<1>9. Below(w, progress)
  BY <1>2, <1>5, <1>6, <1>7, <1>8 DEF Below
<1>10. NotBack(w)
  <2> SUFFICES ASSUME NEW i \in DOMAIN w, NEW j \in DOMAIN w, i < j, w[i].event = "activation",
                      w[j].event = "activation"
               PROVE  w[i].version <= w[j].version
    BY DEF NotBack
  <2>1. CASE j <= n
    <3>1. i <= n
      BY <1>4, <2>1
    <3> QED BY <1>5, <1>6, <1>8, <2>1, <3>1 DEF NotBack
  <2>2. CASE ~(j <= n)
    <3>1. w[j].version = progress
      BY <1>5, <1>6, <2>2
    <3> QED BY <3>1, <1>9 DEF Below
  <2> QED BY <2>1, <2>2
<1>11. s = page.generation => Above(w, shown)
  <2> SUFFICES ASSUME s = page.generation, NEW i \in DOMAIN w, w[i].event = "activation"
               PROVE  w[i].version >= shown
    BY DEF Above
  <2>1. CASE i <= n
    BY <2>1, <1>0, <1>5, <1>6 DEF ShownInv, Above, q
  <2>2. CASE ~(i <= n)
    BY <2>2, <1>0, <1>2, <1>5, <1>6 DEF ShownInv
  <2> QED BY <2>1, <2>2
<1>12. \A t \in Channel!Sources : NotBack(wire'[t]) /\ Below(wire'[t], progress)
  BY <1>0, <1>3, <1>9, <1>10 DEF ShownInv, w, q
<1>13. Above(wire'[page.generation], shown)
  BY <1>0, <1>2, <1>3, <1>11 DEF ShownInv, w, q
<1> QED BY <1>0, <1>1, <1>12, <1>13 DEF ShownInv

(* The server's steps: the begin of a response, a turn of its loop, its    *)
(* end.                                                                    *)
LEMMA ServerStep ==
    ASSUME StreamInv, NEW s \in Channel!Sources, Channel!StreamBegin(s) \/ Channel!StreamPoll(s) \/ Channel!StreamEnds(s)
    PROVE  StreamInv'
<1> USE ConstantTypes
<1>0. HeldInv /\ StreamTypes /\ progress \in Channel!Versions /\ stream \in [Channel!Sources -> {None, Channel!Ended} \cup Channel!Versions]
  BY DEF StreamInv, HeldInv, StreamTypes
<1>1. /\ s \in opened /\ UNCHANGED <<progress, Channel!controller, poll, visible, shown>>
      /\ stream' \in [Channel!Sources -> {None, Channel!Ended} \cup Channel!Versions] /\ stream'[s] # None
      /\ \A t \in Channel!Sources : t # s => stream'[t] = stream[t]
  BY <1>0 DEF Channel!StreamBegin, Channel!StreamPoll, Channel!StreamEnds, Channel!End
<1>2. PICK events \in Seq(Events) :
        /\ Channel!Write(s, events)
        /\ \A i \in DOMAIN events : events[i].event = "activation" => events[i].version = progress
  <2> DEFINE a == Channel!Activation(progress)
  <2>1. /\ a \in Events /\ Channel!Open \in Events /\ Channel!Failed \in Events
        /\ a.version = progress /\ Channel!Open.event = "open" /\ Channel!Failed.event = "error"
    BY <1>0, EventTypes
  <2>2. \/ Channel!Write(s, <<Channel!Open, a, Channel!Failed>>) \/ Channel!Write(s, <<Channel!Open, a>>) \/ Channel!Write(s, <<a, Channel!Failed>>)
        \/ Channel!Write(s, <<a>>) \/ Channel!Write(s, <<Channel!Failed>>)
    BY DEF Channel!StreamBegin, Channel!StreamPoll, Channel!StreamEnds
  <2> HIDE DEF a
  <2> DEFINE Told(e) == \A i \in DOMAIN e : e[i].event = "activation" => e[i].version = progress
  <2>3. CASE Channel!Write(s, <<Channel!Open, a, Channel!Failed>>)
    <3>1. <<Channel!Open, a, Channel!Failed>> \in Seq(Events)
      BY <2>1
    <3>2. Told(<<Channel!Open, a, Channel!Failed>>)
      BY <2>1
    <3> HIDE DEF Told
    <3>3. \E e \in Seq(Events) : Channel!Write(s, e) /\ Told(e)
      BY <2>3, <3>1, <3>2
    <3> QED BY <3>3 DEF Told
  <2>4. CASE Channel!Write(s, <<Channel!Open, a>>)
    <3>1. <<Channel!Open, a>> \in Seq(Events)
      BY <2>1
    <3>2. Told(<<Channel!Open, a>>)
      BY <2>1
    <3> HIDE DEF Told
    <3>3. \E e \in Seq(Events) : Channel!Write(s, e) /\ Told(e)
      BY <2>4, <3>1, <3>2
    <3> QED BY <3>3 DEF Told
  <2>5. CASE Channel!Write(s, <<a, Channel!Failed>>)
    <3>1. <<a, Channel!Failed>> \in Seq(Events)
      BY <2>1
    <3>2. Told(<<a, Channel!Failed>>)
      BY <2>1
    <3> HIDE DEF Told
    <3>3. \E e \in Seq(Events) : Channel!Write(s, e) /\ Told(e)
      BY <2>5, <3>1, <3>2
    <3> QED BY <3>3 DEF Told
  <2>6. CASE Channel!Write(s, <<a>>)
    <3>1. <<a>> \in Seq(Events)
      BY <2>1
    <3>2. Told(<<a>>)
      BY <2>1
    <3> HIDE DEF Told
    <3>3. \E e \in Seq(Events) : Channel!Write(s, e) /\ Told(e)
      BY <2>6, <3>1, <3>2
    <3> QED BY <3>3 DEF Told
  <2>7. CASE Channel!Write(s, <<Channel!Failed>>)
    <3>1. <<Channel!Failed>> \in Seq(Events)
      BY <2>1
    <3>2. Told(<<Channel!Failed>>)
      BY <2>1
    <3> HIDE DEF Told
    <3>3. \E e \in Seq(Events) : Channel!Write(s, e) /\ Told(e)
      BY <2>7, <3>1, <3>2
    <3> QED BY <3>3 DEF Told
  <2> QED BY <2>2, <2>3, <2>4, <2>5, <2>6, <2>7
<1>3. HeldInv'
  BY <1>0, <1>1, <1>2, WriteHeld
<1> QED BY <1>0, <1>1, <1>2, <1>3, WriteShown DEF StreamInv

(* What the controller does to the events: one may have been dispatched. *)
Taken == \A t \in Channel!Sources : wire'[t] = wire[t] \/ (wire[t] # <<>> /\ wire'[t] = Tail(wire[t]))

(* Dispatching an event takes the first one that is queued. *)
LEMMA DispatchTakes ==
    ASSUME StreamTypes, NEW s \in Channel!Sources, wire[s] # <<>>, Channel!Dispatched(s)
    PROVE  /\ Taken /\ wire' \in [Channel!Sources -> Seq(Events)]
           /\ wire'[s] = Tail(wire[s]) /\ \A t \in Channel!Sources : t # s => wire'[t] = wire[t]
           /\ Head(wire[s]) \in Events /\ 1 \in DOMAIN wire[s] /\ Head(wire[s]) = wire[s][1]
<1>1. wire[s] \in Seq(Events) /\ wire \in [Channel!Sources -> Seq(Events)]
  BY DEF StreamTypes
<1>2. Tail(wire[s]) \in Seq(Events) /\ Head(wire[s]) \in Events /\ 1 \in DOMAIN wire[s] /\ Head(wire[s]) = wire[s][1]
  BY <1>1
<1>3. wire'[s] = Tail(wire[s]) /\ \A t \in Channel!Sources : t # s => wire'[t] = wire[t]
  BY <1>1 DEF Channel!Dispatched
<1>4. wire' \in [Channel!Sources -> Seq(Events)]
  BY <1>1, <1>2 DEF Channel!Dispatched
<1>5. Taken
  BY <1>3 DEF Taken
<1> QED BY <1>2, <1>3, <1>4, <1>5

(* A generation that is given up or new was never written to beyond its    *)
(* end.                                                                    *)
LEMMA TakenWires ==
    ASSUME HeldInv, page' \in Pages, Taken, UNCHANGED stream,
           \/ page'.generation = page.generation /\ page'.source = page.source
           \/ page'.generation = page.generation + 1
    PROVE  WiresOK'
<1> USE ConstantTypes
<1>1. page.generation \in Nat /\ page'.generation \in Nat /\ WiresOK
  BY DEF HeldInv, StreamTypes, Pages
<1>2. \A t \in Channel!Sources : wire'[t] # <<>> => wire[t] # <<>>
  BY DEF Taken
<1>3. ASSUME NEW t \in Channel!Sources, stream'[t] # None \/ wire'[t] # <<>>
      PROVE  /\ stream'[t] # None /\ t <= page'.generation
             /\ t = page'.generation => page'.source = t
  <2>1. /\ stream[t] # None /\ t <= page.generation /\ t \in Nat
        /\ t = page.generation => page.source = t
    BY <1>1, <1>2, <1>3 DEF WiresOK
  <2>2. CASE page'.generation = page.generation /\ page'.source = page.source
    BY <1>3, <2>1, <2>2
  <2>3. CASE page'.generation = page.generation + 1
    BY <1>1, <1>3, <2>1, <2>3
  <2> QED BY <2>2, <2>3
<1> QED BY <1>3 DEF WiresOK

(* The sources of the events that are left are none newer than before. *)
LEMMA TakenShown ==
    ASSUME StreamInv, page' \in Pages, Taken, UNCHANGED <<stream, progress>>,
           \/ page'.generation = page.generation /\ page'.source = page.source
           \/ page'.generation = page.generation + 1,
           NEW v \in Channel!Versions, v <= progress,
           \/ v = shown \/ ~Reading
           \/ /\ wire[page.generation] # <<>> /\ Head(wire[page.generation]).event = "activation"
              /\ v = Head(wire[page.generation]).version
              /\ wire'[page.generation] = Tail(wire[page.generation]),
           shown' = v, poll' = None \/ (v <= poll' /\ poll' <= progress)
    PROVE  ShownInv'
<1> USE ConstantTypes
<1>0. HeldInv /\ StreamTypes /\ ShownInv /\ WiresOK /\ SourceOK
  BY DEF StreamInv, HeldInv
<1>1. /\ page.generation \in Channel!Sources /\ page'.generation \in Channel!Sources /\ page.generation \in Nat
      /\ wire \in [Channel!Sources -> Seq(Events)] /\ progress \in Nat /\ shown \in Nat /\ v \in Nat
  BY <1>0 DEF StreamTypes, Pages
<1>2. \A t \in Channel!Sources :
        /\ wire[t] # <<>> => /\ DOMAIN Tail(wire[t]) \in SUBSET Nat
                             /\ \A i \in DOMAIN Tail(wire[t]) : /\ i + 1 \in DOMAIN wire[t]
                                                                /\ Tail(wire[t])[i] = wire[t][i + 1]
        /\ DOMAIN wire[t] \subseteq Nat
  BY <1>1
<1>3. \A t \in Channel!Sources : NotBack(wire'[t]) /\ Below(wire'[t], progress')
  <2> SUFFICES ASSUME NEW t \in Channel!Sources PROVE NotBack(wire'[t]) /\ Below(wire'[t], progress)
    OBVIOUS
  <2>1. NotBack(wire[t]) /\ Below(wire[t], progress)
    BY <1>0 DEF ShownInv
  <2>2. CASE wire'[t] = wire[t]
    BY <2>1, <2>2
  <2>3. CASE wire[t] # <<>> /\ wire'[t] = Tail(wire[t])
    <3>1. Below(wire'[t], progress)
      BY <1>2, <2>1, <2>3 DEF Below
    <3>2. NotBack(wire'[t])
      <4>1. NotBack(Tail(wire[t]))
        <5> SUFFICES ASSUME NEW i \in DOMAIN Tail(wire[t]), NEW j \in DOMAIN Tail(wire[t]), i < j,
                            Tail(wire[t])[i].event = "activation", Tail(wire[t])[j].event = "activation"
                     PROVE  Tail(wire[t])[i].version <= Tail(wire[t])[j].version
          BY DEF NotBack
        <5>1. i + 1 \in DOMAIN wire[t] /\ j + 1 \in DOMAIN wire[t] /\ i + 1 < j + 1
          BY <1>2, <2>3
        <5>2. Tail(wire[t])[i] = wire[t][i + 1] /\ Tail(wire[t])[j] = wire[t][j + 1]
          BY <1>2, <2>3
        <5> QED BY <2>1, <5>1, <5>2 DEF NotBack
      <4> QED BY <2>3, <4>1
    <3> QED BY <3>1, <3>2
  <2> QED BY <2>2, <2>3 DEF Taken
<1>4. Above(wire'[page'.generation], v)
  <2> DEFINE g == page.generation
  <2>1. CASE page'.generation = g + 1
    <3>1. wire[page'.generation] = <<>>
      BY <1>0, <1>1, <2>1 DEF WiresOK
    <3>2. wire'[page'.generation] = <<>>
      BY <1>1, <3>1 DEF Taken
    <3> QED BY <3>2 DEF Above
  <2>2. CASE page'.generation = g
    <3>1. Above(wire[g], shown)
      BY <1>0 DEF ShownInv
    <3>2. CASE wire'[g] = wire[g] /\ v = shown
      BY <2>2, <3>1, <3>2
    <3>3. CASE wire[g] # <<>> /\ wire'[g] = Tail(wire[g]) /\ v = shown
      BY <1>1, <1>2, <2>2, <3>1, <3>3 DEF Above
    <3>4. CASE ~Reading
      <4>1. wire[g] = <<>>
        BY <1>0, <1>1, <3>4 DEF WiresOK, Reading
      <4>2. wire'[g] = <<>>
        BY <1>1, <4>1 DEF Taken
      <4> QED BY <2>2, <4>2 DEF Above
    <3>5. CASE /\ wire[g] # <<>> /\ Head(wire[g]).event = "activation"
               /\ v = Head(wire[g]).version /\ wire'[g] = Tail(wire[g])
      <4>1. 1 \in DOMAIN wire[g] /\ Head(wire[g]) = wire[g][1] /\ NotBack(wire[g])
        BY <1>0, <1>1, <3>5 DEF ShownInv
      <4>2. \A i \in DOMAIN Tail(wire[g]) : i \in Nat /\ 1 < i + 1
        BY <1>1, <3>5
      <4>3. \A i \in DOMAIN Tail(wire[g]) :
                Tail(wire[g])[i].event = "activation" => v <= Tail(wire[g])[i].version
        BY <1>1, <1>2, <3>5, <4>1, <4>2 DEF NotBack
      <4>4. \A i \in DOMAIN Tail(wire[g]) :
                Tail(wire[g])[i].event = "activation" => Tail(wire[g])[i].version \in Nat
        <5>1. \A i \in DOMAIN Tail(wire[g]) : Tail(wire[g])[i] \in Events
          BY <1>1, <3>5
        <5> QED BY <5>1, EventKinds
      <4> QED BY <1>1, <2>2, <3>5, <4>3, <4>4 DEF Above
    <3> QED BY <1>1, <3>2, <3>3, <3>4, <3>5 DEF Taken
  <2> QED BY <2>1, <2>2
<1> QED BY <1>0, <1>3, <1>4 DEF ShownInv

(* The fields of the controller's closure. *)
LEMMA PageTypes ==
    ASSUME page \in Pages
    PROVE  /\ page.connection \in Connections /\ page.source \in {None} \cup Channel!Sources
           /\ page.generation \in Nat /\ page.live \in BOOLEAN
           /\ page.polls \in Nat /\ page.polls <= MaxPolls
           /\ page.reconnects \in Nat /\ page.reconnects <= MaxReconnects
           /\ page.stopped \in BOOLEAN /\ page.terminal \in BOOLEAN
<1>1. /\ page.connection \in Connections /\ page.source \in {None} \cup Channel!Sources
      /\ page.generation \in Channel!Sources /\ page.live \in BOOLEAN
      /\ page.polls \in 0..MaxPolls /\ page.reconnects \in 0..MaxReconnects
      /\ page.stopped \in BOOLEAN /\ page.terminal \in BOOLEAN
  BY DEF Pages
<1>2. page.polls \in Nat /\ page.polls <= MaxPolls
  BY <1>1, ConstantTypes
<1>3. page.reconnects \in Nat /\ page.reconnects <= MaxReconnects
  BY <1>1, ConstantTypes
<1>4. page.generation \in Nat
  BY <1>1, ConstantTypes
<1> QED BY <1>1, <1>2, <1>3, <1>4

(* closeSource, while there is room for another generation. *)
LEMMA ClosedTypes ==
    ASSUME NEW p \in Pages, p.generation + 1 \in Channel!Sources
    PROVE  /\ Channel!Closed(p) \in Pages
           /\ Channel!Closed(p).generation = p.generation + 1 /\ Channel!Closed(p).source = None
           /\ \A f \in {"connection", "live", "polls", "reconnects", "stopped", "terminal"} :
                  Channel!Closed(p)[f] = p[f]
  BY DEF Channel!Closed, Pages

(* scheduleFallback sets one timer, and only while polls are left. *)
LEMMA FallbackTypes ==
    ASSUME NEW p \in Pages
    PROVE  /\ Channel!Fallback(p) \subseteq {"fallback"}
           /\ "fallback" \in Channel!Fallback(p) => ~p.stopped /\ p.polls < MaxPolls
  BY ConstantTypes DEF Channel!Fallback, Pages

(* moveOffline: no source is read and none will be opened. *)
LEMMA OfflineHeld ==
    ASSUME HeldInv, NEW p \in Pages, Channel!Offline(p), ~p.stopped, ~p.terminal,
           p.source = None, p.generation <= 2 * MaxReconnects + 2,
           \/ p.generation = page.generation /\ page.source = None
           \/ p.generation = page.generation + 1,
           opened' = {}, Taken, wire' \in [Channel!Sources -> Seq(Events)],
           UNCHANGED <<progress, stream, poll, visible, shown>>,
           p.polls = page.polls
    PROVE  /\ HeldInv' /\ page' \in Pages /\ ~page'.terminal
           /\ page'.generation = p.generation /\ page'.source = None
<1> USE ConstantTypes
<1>0. /\ StreamTypes /\ WiresOK /\ TimersOK /\ Channel!OneSource
      /\ p.generation \in Nat
  BY DEF HeldInv, StreamTypes, Pages
<1>1. /\ page' \in Pages
      /\ page'.source = None /\ page'.generation = p.generation /\ ~page'.stopped /\ ~page'.terminal
      /\ page'.polls = p.polls
  BY DEF Channel!Offline, Pages, Connections
<1> DEFINE q == [p EXCEPT !.live = FALSE]
<1>2. q \in Pages /\ q.polls = p.polls
  BY DEF Pages
<1>3. timers' = (timers \ {"connection", "reconnect"}) \cup Channel!Fallback(q)
  BY DEF Channel!Offline
<1> HIDE DEF q
<1>4. Channel!Fallback(q) \subseteq {"fallback"} /\ ("fallback" \in Channel!Fallback(q) => p.polls < MaxPolls)
  BY <1>2, FallbackTypes
<1>5. timers' \subseteq {"fallback"}
  BY <1>0, <1>3, <1>4 DEF StreamTypes, Timers
<1>6. StreamTypes'
  BY <1>0, <1>1, <1>5 DEF StreamTypes, Timers
<1>7. Channel!OneSource' /\ Channel!QuietAtEnd' /\ SourceOK'
  BY <1>1, <1>5 DEF Channel!OneSource, Channel!QuietAtEnd, SourceOK, Reading, Reopening
<1>8. TimersOK'
  <2>1. "fallback" \in timers' => page'.polls < MaxPolls
    <3>1. CASE "fallback" \in Channel!Fallback(q)
      BY <1>1, <1>4, <3>1
    <3>2. CASE "fallback" \in timers
      BY <1>0, <1>1, <3>2 DEF TimersOK
    <3> QED BY <1>3, <3>1, <3>2
  <2> QED BY <1>1, <1>5, <2>1 DEF TimersOK, Reading, Reopening
<1>9. WiresOK'
  BY <1>0, <1>1, TakenWires
<1> QED BY <1>1, <1>6, <1>7, <1>8, <1>9 DEF HeldInv

(* Each reconnection costs two generations. *)
LEMMA GenerationRoom ==
    ASSUME NEW g \in Nat, NEW r \in Nat, NEW m \in Nat, g <= 2 * r + 1, r <= m
    PROVE  g + 1 <= 2 * m + 2 /\ g + 1 <= 2 * (r + 1) /\ g + 1 <= 2 * m + 3 /\ g <= 2 * m + 2
  OBVIOUS

(* A generation below the bound names a source. *)
LEMMA SourceRoom ==
    ASSUME NEW n \in Nat, n + 1 <= 2 * MaxReconnects + 3
    PROVE  n + 1 \in Channel!Sources
  BY ConstantTypes DEF Channel!Sources

(* retryConnection, of a source that is read. *)
LEMMA RetryHeld ==
    ASSUME HeldInv, Channel!Retry, Reading, Taken, wire' \in [Channel!Sources -> Seq(Events)],
           UNCHANGED <<progress, stream, poll, visible, shown>>
    PROVE  HeldInv' /\ page' \in Pages /\ page'.generation = page.generation + 1
<1> USE ConstantTypes
<1>0. /\ StreamTypes /\ WiresOK /\ TimersOK /\ Channel!OneSource /\ SourceOK /\ page \in Pages
  BY DEF HeldInv, StreamTypes
<1>1. /\ page.generation \in Nat /\ page.generation <= 2 * page.reconnects + 1
      /\ page.reconnects \in Nat /\ page.reconnects <= MaxReconnects /\ page.polls \in Nat
      /\ ~page.stopped /\ ~page.terminal /\ page.source = page.generation
      /\ opened = {page.source} /\ ~Reopening /\ "fallback" \notin timers /\ poll = None
  BY <1>0, PageTypes DEF SourceOK, Channel!OneSource, Reading, TimersOK
<1>b. /\ page.generation + 1 <= 2 * MaxReconnects + 2
      /\ page.generation + 1 <= 2 * (page.reconnects + 1)
      /\ page.generation + 1 <= 2 * MaxReconnects + 3
  BY <1>1, GenerationRoom
<1>a. page.generation + 1 \in Channel!Sources
  BY <1>1, <1>b, SourceRoom
<1> DEFINE p == Channel!Closed(page)
<1>2. /\ p \in Pages /\ p.generation = page.generation + 1 /\ p.source = None
      /\ p.reconnects = page.reconnects /\ p.polls = page.polls /\ ~p.stopped /\ ~p.terminal
  BY <1>0, <1>1, <1>a, ClosedTypes
<1>3. opened' = {}
  BY <1>1 DEF Channel!Retry
<1>4. CASE p.reconnects >= MaxReconnects
  <2>1. Channel!Offline(p)
    BY <1>4 DEF Channel!Retry
  <2>2. p.generation <= 2 * MaxReconnects + 2
    BY <1>b, <1>2
  <2> HIDE DEF p
  <2> QED BY <1>2, <1>3, <2>1, <2>2, OfflineHeld
<1>5. CASE ~(p.reconnects >= MaxReconnects)
  <2>1. /\ page' = [p EXCEPT !.live = FALSE, !.reconnects = p.reconnects + 1, !.connection = "connecting"]
        /\ timers' = (timers \ {"connection"}) \cup {"reconnect"}
    BY <1>5 DEF Channel!Retry
  <2> HIDE DEF p
  <2>2. /\ page' \in Pages /\ page'.source = None /\ page'.generation = page.generation + 1
        /\ page'.reconnects = page.reconnects + 1 /\ page'.polls = page.polls
        /\ ~page'.stopped /\ ~page'.terminal
    <3>1. p.reconnects + 1 \in 0..MaxReconnects
      BY <1>1, <1>2, <1>5, OneMore
    <3> QED BY <1>2, <2>1, <3>1 DEF Pages, Connections
  <2>3. timers' \subseteq {"reconnect"}
    BY <1>0, <1>1, <2>1 DEF StreamTypes, Timers, Reopening
  <2>4. StreamTypes'
    BY <1>0, <1>3, <2>2, <2>3 DEF StreamTypes, Timers
  <2>5. Channel!OneSource' /\ Channel!QuietAtEnd'
    BY <1>3, <2>2 DEF Channel!OneSource, Channel!QuietAtEnd
  <2>6. SourceOK'
    <3>1. page'.generation <= 2 * page'.reconnects
      BY <1>b, <2>2
    <3>2. page'.generation <= 2 * MaxReconnects + 2
      BY <1>b, <2>2
    <3> QED BY <2>2, <2>3, <3>1, <3>2 DEF SourceOK, Reading, Reopening
  <2>7. TimersOK'
    BY <1>1, <2>2, <2>3 DEF TimersOK, Reading, Reopening
  <2>8. WiresOK'
    BY <1>0, <2>2, TakenWires
  <2> QED BY <2>2, <2>4, <2>5, <2>6, <2>7, <2>8 DEF HeldInv
<1> QED BY <1>4, <1>5

(* A step of the controller that shows nothing new. *)
LEMMA SameShown ==
    ASSUME StreamInv, page' \in Pages, Taken, UNCHANGED <<stream, progress, shown>>,
           \/ page'.generation = page.generation /\ page'.source = page.source
           \/ page'.generation = page.generation + 1,
           poll' \in {poll, None}
    PROVE  ShownInv'
<1>1. shown \in Channel!Versions /\ shown <= progress /\ (poll' = None \/ (shown <= poll' /\ poll' <= progress))
  BY DEF StreamInv, HeldInv, StreamTypes, ShownInv
<1> QED BY <1>1, TakenShown

(* The preparation moves on: what was written and shown stays behind it. *)
LEMMA ProgressHeld == ASSUME StreamInv, Channel!Progress PROVE StreamInv'
<1> USE ConstantTypes
<1>0. HeldInv /\ ShownInv /\ StreamTypes /\ UNCHANGED <<stream, wire, page, timers, opened, poll, visible, shown>>
  BY DEF StreamInv, HeldInv, Channel!Progress, Channel!controller
<1>1. progress \in Nat /\ progress' \in Channel!Versions /\ progress' = progress + 1 /\ shown \in Nat
  BY <1>0 DEF Channel!Progress, StreamTypes, Channel!Versions
<1>2. HeldInv'
  BY <1>0, <1>1 DEF HeldInv, StreamTypes, Channel!OneSource, Channel!QuietAtEnd, SourceOK,
     TimersOK, WiresOK, Reading, Reopening
<1>3. \A s \in Channel!Sources : Below(wire'[s], progress')
  <2> SUFFICES ASSUME NEW s \in Channel!Sources, NEW i \in DOMAIN wire[s], wire[s][i].event = "activation"
               PROVE  wire[s][i].version <= progress + 1
    BY <1>0, <1>1 DEF Below
  <2>1. wire[s][i] \in Events
    BY <1>0 DEF StreamTypes
  <2>2. wire[s][i].version \in Nat
    BY <2>1, EventKinds
  <2>3. wire[s][i].version <= progress
    BY <1>0 DEF ShownInv, Below
  <2> QED BY <1>1, <2>2, <2>3
<1>4. poll' # None => shown' <= poll' /\ poll' <= progress'
  BY <1>0, <1>1 DEF ShownInv, StreamTypes
<1>5. shown' <= progress'
  BY <1>0, <1>1 DEF ShownInv
<1> QED BY <1>0, <1>2, <1>3, <1>4, <1>5 DEF StreamInv, ShownInv

(* connect: hidden, refused by the browser, or a new source. *)
LEMMA ConnectHeld == ASSUME StreamInv, Channel!Connect PROVE StreamInv'
<1> USE ConstantTypes
<1>0. /\ HeldInv /\ ShownInv /\ StreamTypes /\ WiresOK /\ TimersOK /\ Channel!OneSource /\ SourceOK /\ page \in Pages
      /\ UNCHANGED <<progress, stream, wire, poll, visible, shown>>
  BY DEF StreamInv, HeldInv, StreamTypes, Channel!Connect
<1>1. /\ page.generation \in Nat /\ page.generation <= 2 * page.reconnects
      /\ page.reconnects \in Nat /\ page.reconnects <= MaxReconnects /\ page.polls \in Nat
      /\ ~page.stopped /\ ~page.terminal /\ page.source = None /\ opened = {}
      /\ timers = {"reconnect"} /\ poll = None
  <2>1. Reopening
    BY DEF Channel!Connect, Reopening
  <2>2. page.source = None /\ opened = {} /\ "fallback" \notin timers /\ poll = None /\ "connection" \notin timers
    BY <1>0, <2>1 DEF SourceOK, TimersOK, Reading, Channel!OneSource
  <2>3. timers = {"reconnect"}
    BY <1>0, <2>1, <2>2 DEF StreamTypes, Timers, Reopening
  <2> QED BY <1>0, <2>1, <2>2, <2>3, PageTypes DEF SourceOK
<1>2. Taken /\ wire' \in [Channel!Sources -> Seq(Events)]
  BY <1>0 DEF Taken, StreamTypes
<1> DEFINE p == Channel!Closed(page)
<1>3. /\ p \in Pages /\ p.generation = page.generation + 1 /\ p.source = None
      /\ p.reconnects = page.reconnects /\ p.polls = page.polls /\ ~p.stopped /\ ~p.terminal
  BY <1>0, <1>1, ClosedTypes
<1>4. CASE Channel!Offline(page) /\ UNCHANGED opened
  <2>1. HeldInv' /\ page' \in Pages /\ page'.generation = page.generation /\ page'.source = page.source
    <3>1. page.generation <= 2 * MaxReconnects + 2
      BY <1>1
    <3> QED BY <1>0, <1>1, <1>2, <1>4, <3>1, OfflineHeld
  <2> QED BY <1>0, <1>2, <2>1, SameShown DEF StreamInv
<1>5. CASE Channel!Offline(p) /\ UNCHANGED opened
  <2>1. p.generation <= 2 * MaxReconnects + 2
    BY <1>1, <1>3
  <2> HIDE DEF p
  <2>2. HeldInv' /\ page' \in Pages /\ page'.generation = p.generation
    BY <1>0, <1>1, <1>2, <1>3, <1>5, <2>1, OfflineHeld
  <2>3. page'.generation = page.generation + 1
    BY <1>3, <2>2
  <2> QED BY <1>0, <1>2, <2>2, <2>3, SameShown DEF StreamInv
<1>6. CASE /\ page' = [p EXCEPT !.reconnects = p.reconnects + 1, !.connection = "connecting"]
           /\ UNCHANGED <<timers, opened>> /\ ~(p.reconnects >= MaxReconnects)
  <2> HIDE DEF p
  <2>1. p.reconnects + 1 \in 0..MaxReconnects
    BY <1>1, <1>3, <1>6
  <2>2. /\ page' \in Pages /\ page'.source = None /\ page'.generation = page.generation + 1
        /\ page'.reconnects = page.reconnects + 1 /\ page'.polls = page.polls
        /\ ~page'.stopped /\ ~page'.terminal
    BY <1>3, <1>6, <2>1 DEF Pages, Connections
  <2>3. StreamTypes' /\ Channel!OneSource' /\ Channel!QuietAtEnd'
    BY <1>0, <1>1, <1>6, <2>2 DEF StreamTypes, Channel!OneSource, Channel!QuietAtEnd
  <2>4. SourceOK' /\ TimersOK'
    BY <1>0, <1>1, <1>6, <2>2 DEF SourceOK, TimersOK, Reading, Reopening
  <2>5. WiresOK'
    BY <1>0, <1>2, <2>2, TakenWires
  <2>6. ShownInv'
    BY <1>0, <1>2, <2>2, SameShown
  <2> QED BY <2>3, <2>4, <2>5, <2>6 DEF HeldInv, StreamInv
<1>7. CASE LET s == page.generation + 1 IN
             /\ page' = [page EXCEPT !.connection = "connecting", !.source = s, !.generation = s]
             /\ opened' = opened \cup {s}
             /\ timers' = (timers \ {"reconnect"}) \cup {"connection"}
  <2>1. page.generation + 1 \in Channel!Sources
    BY <1>1
  <2>2. /\ page' \in Pages /\ page'.source = page.generation + 1 /\ page'.generation = page.generation + 1
        /\ page'.reconnects = page.reconnects /\ page'.polls = page.polls
        /\ ~page'.stopped /\ ~page'.terminal
    BY <1>0, <1>1, <1>7, <2>1 DEF Pages, Connections
  <2>3. timers' = {"connection"} /\ opened' = {page'.source} /\ page'.source # None
    BY <1>1, <1>7, <2>1, <2>2
  <2>4. StreamTypes' /\ Channel!OneSource' /\ Channel!QuietAtEnd'
    BY <1>0, <1>1, <2>1, <2>2, <2>3 DEF StreamTypes, Channel!OneSource, Channel!QuietAtEnd, Timers
  <2>5. SourceOK' /\ TimersOK'
    BY <1>0, <1>1, <2>2, <2>3 DEF SourceOK, TimersOK, Reading, Reopening
  <2>6. WiresOK'
    BY <1>0, <1>2, <2>2, TakenWires
  <2>7. ShownInv'
    BY <1>0, <1>2, <2>2, SameShown
  <2> QED BY <2>4, <2>5, <2>6, <2>7 DEF HeldInv, StreamInv
<1> QED BY <1>1, <1>4, <1>5, <1>6, <1>7 DEF Channel!Connect

(* The events of the source that is read, and of no other, have effects. *)
LEMMA CurrentIsRead ==
    ASSUME HeldInv, NEW s \in Channel!Sources, Channel!Current(s), wire[s] # <<>>
    PROVE  /\ Reading /\ s = page.generation /\ page.source = s
           /\ ~page.stopped /\ ~page.terminal /\ poll = None /\ ~Reopening /\ "fallback" \notin timers
  BY ConstantTypes DEF HeldInv, Channel!Current, WiresOK, SourceOK, TimersOK, Reading, Reopening

(* onopen makes the connection live if the source is still read. *)
LEMMA OpenHeld == ASSUME StreamInv, NEW s \in Channel!Sources, Channel!OnOpen(s) PROVE StreamInv'
<1> USE ConstantTypes
<1>0. /\ HeldInv /\ StreamTypes /\ WiresOK /\ TimersOK /\ Channel!OneSource /\ SourceOK /\ Channel!QuietAtEnd /\ page \in Pages
      /\ UNCHANGED <<progress, stream, opened, poll, visible, shown>>
      /\ wire[s] # <<>> /\ Channel!Dispatched(s)
  BY DEF StreamInv, HeldInv, StreamTypes, Channel!OnOpen
<1>1. Taken /\ wire' \in [Channel!Sources -> Seq(Events)]
  BY <1>0, DispatchTakes
<1>2. /\ page' \in Pages /\ page'.source = page.source /\ page'.generation = page.generation
      /\ page'.reconnects = page.reconnects /\ page'.polls = page.polls
      /\ page'.stopped = page.stopped /\ page'.terminal = page.terminal
      /\ page'.connection = page.connection \/ Reading
      /\ timers' \subseteq timers
      /\ page.terminal \/ page.stopped => timers' = timers
  <2>1. CASE Channel!Current(s)
    <3>1. Reading /\ ~page.terminal /\ ~page.stopped
      BY <1>0, <2>1, CurrentIsRead
    <3> QED BY <1>0, <2>1, <3>1 DEF Channel!OnOpen, Pages, Connections
  <2>2. CASE ~Channel!Current(s)
    BY <1>0, <2>2 DEF Channel!OnOpen
  <2> QED BY <2>1, <2>2
<1>3. StreamTypes' /\ Channel!OneSource'
  BY <1>0, <1>1, <1>2 DEF StreamTypes, Channel!OneSource
<1>4. Channel!QuietAtEnd'
  BY <1>0, <1>2 DEF Channel!QuietAtEnd, SourceOK, Reading
<1>5. SourceOK'
  BY <1>0, <1>2 DEF SourceOK, Reading, Reopening
<1>6. TimersOK'
  BY <1>0, <1>2 DEF TimersOK, Reading, Reopening
<1>7. WiresOK'
  BY <1>0, <1>1, <1>2, TakenWires
<1>8. ShownInv'
  BY <1>0, <1>1, <1>2, SameShown
<1> QED BY <1>3, <1>4, <1>5, <1>6, <1>7, <1>8 DEF HeldInv, StreamInv

(* accept: the version that is shown was written by the source that is     *)
(* read, after what is shown.                                              *)
LEMMA ActivationHeld == ASSUME StreamInv, NEW s \in Channel!Sources, Channel!OnActivation(s) PROVE StreamInv' /\ shown' >= shown
<1> USE ConstantTypes
<1>0. /\ HeldInv /\ ShownInv /\ StreamTypes /\ WiresOK /\ TimersOK /\ Channel!OneSource /\ SourceOK /\ Channel!QuietAtEnd
      /\ page \in Pages
      /\ UNCHANGED <<progress, stream, poll, visible>>
      /\ wire[s] # <<>> /\ Channel!Dispatched(s) /\ shown \in Nat /\ shown \in Channel!Versions
  BY DEF StreamInv, HeldInv, StreamTypes, Channel!OnActivation
<1>1. /\ Taken /\ wire' \in [Channel!Sources -> Seq(Events)] /\ wire'[s] = Tail(wire[s])
      /\ Head(wire[s]) \in Events /\ 1 \in DOMAIN wire[s] /\ Head(wire[s]) = wire[s][1]
  BY <1>0, DispatchTakes
<1> DEFINE v == Head(wire[s]).version
<1>2. v \in Channel!Versions /\ v \in Nat /\ Head(wire[s]).event = "activation"
  BY <1>1, EventKinds DEF Channel!OnActivation
<1>3. CASE ~Channel!Current(s)
  <2>1. UNCHANGED <<page, timers, opened, shown>>
    BY <1>3 DEF Channel!OnActivation, Channel!Accepts, Channel!controller
  <2>2. HeldInv'
    <3>1. StreamTypes' /\ Channel!OneSource' /\ Channel!QuietAtEnd' /\ SourceOK' /\ TimersOK'
      BY <1>0, <1>1, <2>1 DEF StreamTypes, Channel!OneSource, Channel!QuietAtEnd, SourceOK,
         TimersOK, Reading, Reopening
    <3>2. WiresOK'
      BY <1>0, <1>1, <2>1, TakenWires
    <3> QED BY <3>1, <3>2 DEF HeldInv
  <2>3. ShownInv'
    BY <1>0, <1>1, <2>1, SameShown
  <2> QED BY <1>0, <2>1, <2>2, <2>3 DEF StreamInv
<1>4. CASE Channel!Current(s)
  <2>1. /\ Reading /\ s = page.generation /\ page.source = s
        /\ ~page.stopped /\ ~page.terminal /\ poll = None /\ ~Reopening /\ "fallback" \notin timers
    BY <1>0, <1>4, CurrentIsRead
  <2>2. shown' = v
    BY <1>4 DEF Channel!OnActivation, Channel!Accepts
  <2>3. v >= shown /\ v <= progress
    BY <1>0, <1>1, <1>2, <2>1 DEF ShownInv, Above, Below
  <2>4. /\ page.generation \in Nat /\ page.generation <= 2 * page.reconnects + 1
        /\ page.reconnects \in Nat /\ page.reconnects <= MaxReconnects
        /\ opened = {page.source}
    BY <1>0, <2>1, PageTypes DEF SourceOK, Channel!OneSource, Reading
  <2>5. page.generation + 1 <= 2 * MaxReconnects + 2 /\ page.generation + 1 \in Channel!Sources
    <3>1. page.generation + 1 <= 2 * MaxReconnects + 2 /\ page.generation + 1 <= 2 * MaxReconnects + 3
      BY <2>4, GenerationRoom
    <3> QED BY <2>4, <3>1, SourceRoom
  <2>6. CASE Channel!Terminal(v)
    <3> DEFINE p == [page EXCEPT !.terminal = TRUE, !.live = FALSE, !.connection = "idle"]
    <3>1. /\ p \in Pages /\ p.generation = page.generation /\ p.connection = "idle" /\ p.terminal /\ ~p.stopped
          /\ p.polls = page.polls /\ p.reconnects = page.reconnects
      BY <1>0, <2>1 DEF Pages, Connections
    <3>2. page' = Channel!Closed(p) /\ timers' = timers \ {"connection", "fallback", "reconnect"}
          /\ opened' = opened \ {page.source}
      BY <1>4, <2>6 DEF Channel!OnActivation, Channel!Accepts
    <3> HIDE DEF p
    <3>3. /\ page' \in Pages /\ page'.generation = page.generation + 1 /\ page'.source = None
          /\ page'.connection = "idle" /\ page'.terminal /\ ~page'.stopped
      BY <2>5, <3>1, <3>2, ClosedTypes
    <3>4. timers' = {} /\ opened' = {}
      BY <1>0, <2>4, <3>2 DEF StreamTypes, Timers
    <3>5. shown' = Last
      BY <2>2, <2>6 DEF Channel!Terminal
    <3>6. StreamTypes' /\ Channel!OneSource' /\ Channel!QuietAtEnd'
      BY <1>0, <1>1, <2>1, <3>3, <3>4, <3>5 DEF StreamTypes, Channel!OneSource, Channel!QuietAtEnd
    <3>7. SourceOK' /\ TimersOK'
      BY <1>0, <2>1, <2>5, <3>3, <3>4 DEF SourceOK, TimersOK, Reading, Reopening
    <3>8. WiresOK'
      BY <1>0, <1>1, <3>3, TakenWires
    <3>9. ShownInv'
      BY <1>0, <1>1, <1>2, <2>1, <2>2, <2>3, <3>3, TakenShown
    <3> QED BY <2>2, <2>3, <3>6, <3>7, <3>8, <3>9 DEF HeldInv, StreamInv
  <2>7. CASE ~Channel!Terminal(v)
    <3>1. /\ page' = [page EXCEPT !.live = TRUE, !.connection = "live"]
          /\ timers' = timers \ {"fallback"} /\ UNCHANGED opened
      BY <1>4, <2>7 DEF Channel!OnActivation, Channel!Accepts
    <3>2. /\ page' \in Pages /\ page'.source = page.source /\ page'.generation = page.generation
          /\ page'.reconnects = page.reconnects /\ page'.polls = page.polls
          /\ ~page'.stopped /\ ~page'.terminal
      BY <1>0, <2>1, <3>1 DEF Pages, Connections
    <3>3. StreamTypes' /\ Channel!OneSource' /\ Channel!QuietAtEnd'
      BY <1>0, <1>1, <1>2, <2>2, <3>1, <3>2 DEF StreamTypes, Channel!OneSource, Channel!QuietAtEnd
    <3>4. SourceOK' /\ TimersOK'
      BY <1>0, <2>1, <3>1, <3>2 DEF SourceOK, TimersOK, Reading, Reopening
    <3>5. WiresOK'
      BY <1>0, <1>1, <3>2, TakenWires
    <3>6. ShownInv'
      BY <1>0, <1>1, <1>2, <2>1, <2>2, <2>3, <3>2, TakenShown
    <3> QED BY <2>2, <2>3, <3>3, <3>4, <3>5, <3>6 DEF HeldInv, StreamInv
  <2> QED BY <2>6, <2>7
<1> QED BY <1>3, <1>4

(* onerror reconnects if the source is still read. *)
LEMMA ErrorHeld == ASSUME StreamInv, NEW s \in Channel!Sources, Channel!OnError(s) PROVE StreamInv'
<1> USE ConstantTypes
<1>0. /\ HeldInv /\ StreamTypes /\ Channel!OneSource /\ Channel!QuietAtEnd /\ SourceOK /\ TimersOK /\ page \in Pages
      /\ UNCHANGED <<progress, stream, poll, visible, shown>>
      /\ wire[s] # <<>> /\ Channel!Dispatched(s)
  BY DEF StreamInv, HeldInv, StreamTypes, Channel!OnError
<1>1. Taken /\ wire' \in [Channel!Sources -> Seq(Events)]
  BY <1>0, DispatchTakes
<1>2. CASE Channel!Current(s)
  <2>1. Reading /\ Channel!Retry
    BY <1>0, <1>2, CurrentIsRead DEF Channel!OnError
  <2>2. HeldInv' /\ page' \in Pages /\ page'.generation = page.generation + 1
    BY <1>0, <1>1, <2>1, RetryHeld
  <2> QED BY <1>0, <1>1, <2>2, SameShown DEF StreamInv
<1>3. CASE ~Channel!Current(s)
  <2>1. UNCHANGED <<page, timers, opened>>
    BY <1>3 DEF Channel!OnError, Channel!controller
  <2>2. StreamTypes' /\ Channel!OneSource' /\ Channel!QuietAtEnd' /\ SourceOK' /\ TimersOK'
    BY <1>0, <1>1, <2>1 DEF StreamTypes, Channel!OneSource, Channel!QuietAtEnd, SourceOK,
       TimersOK, Reading, Reopening
  <2>3. WiresOK'
    BY <1>0, <1>1, <2>1, TakenWires
  <2>4. ShownInv'
    BY <1>0, <1>1, <2>1, SameShown
  <2> QED BY <2>2, <2>3, <2>4 DEF HeldInv, StreamInv
<1> QED BY <1>2, <1>3

(* The connection timer gives up the source it was set for. *)
LEMMA TimeoutHeld == ASSUME StreamInv, Channel!ConnectionTimeout PROVE StreamInv'
<1>0. /\ HeldInv /\ StreamTypes /\ TimersOK
      /\ UNCHANGED <<progress, stream, wire, poll, visible, shown>> /\ Channel!Retry
  BY DEF StreamInv, HeldInv, Channel!ConnectionTimeout
<1>1. Taken /\ wire' \in [Channel!Sources -> Seq(Events)] /\ Reading
  BY <1>0 DEF Taken, StreamTypes, TimersOK, Channel!ConnectionTimeout
<1>2. HeldInv' /\ page' \in Pages /\ page'.generation = page.generation + 1
  BY <1>0, <1>1, RetryHeld
<1> QED BY <1>0, <1>1, <1>2, SameShown DEF StreamInv

(* stop, which leaves no timer and no source. *)
LEMMA StoppedHeld ==
    ASSUME HeldInv, Channel!Stopped, UNCHANGED <<progress, stream, wire>>,
           shown' \in Channel!Versions, poll' \in {None} \cup Channel!Versions
    PROVE  /\ HeldInv' /\ page' \in Pages
           /\ \/ page'.generation = page.generation /\ page'.source = page.source
              \/ page'.generation = page.generation + 1
<1> USE ConstantTypes
<1>0. /\ StreamTypes /\ WiresOK /\ TimersOK /\ Channel!OneSource /\ SourceOK /\ page \in Pages
  BY DEF HeldInv, StreamTypes
<1>1. Taken /\ wire' \in [Channel!Sources -> Seq(Events)]
  BY <1>0 DEF Taken, StreamTypes
<1>2. timers' = {} /\ opened' = {}
  BY <1>0 DEF Channel!Stopped, Channel!OneSource
<1>3. /\ page' \in Pages /\ page'.source = None /\ page'.stopped /\ page'.terminal
      /\ \/ page'.generation = page.generation /\ page'.source = page.source
         \/ page'.generation = page.generation + 1
  <2>1. CASE page.stopped
    BY <1>0, <2>1 DEF Channel!Stopped, SourceOK, TimersOK, Reading
  <2>2. CASE ~page.stopped
    <3> DEFINE p == [page EXCEPT !.stopped = TRUE, !.terminal = TRUE]
    <3>1. p \in Pages /\ p.generation = page.generation /\ p.stopped /\ p.terminal
      BY <1>0 DEF Pages
    <3>2. page' = Channel!Closed(p)
      BY <2>2 DEF Channel!Stopped
    <3> HIDE DEF p
    <3>3. page.generation \in Nat /\ page.generation <= 2 * MaxReconnects + 2
      BY <1>0, <2>2, PageTypes DEF SourceOK
    <3>4. p.generation + 1 \in Channel!Sources
      BY <3>1, <3>3, SourceRoom
    <3> QED BY <3>1, <3>2, <3>4, ClosedTypes
  <2> QED BY <2>1, <2>2
<1>4. StreamTypes' /\ Channel!OneSource' /\ Channel!QuietAtEnd'
  BY <1>0, <1>1, <1>2, <1>3 DEF StreamTypes, Channel!OneSource, Channel!QuietAtEnd
<1>5. SourceOK' /\ TimersOK'
  BY <1>2, <1>3 DEF SourceOK, TimersOK, Reading, Reopening
<1>6. WiresOK'
  BY <1>0, <1>1, <1>3, TakenWires
<1> QED BY <1>3, <1>4, <1>5, <1>6 DEF HeldInv

(* The page's effect is cleaned up. *)
LEMMA StopHeld == ASSUME StreamInv, Channel!Stop PROVE StreamInv'
<1>0. /\ HeldInv /\ StreamTypes /\ UNCHANGED <<progress, stream, wire, poll, visible, shown>> /\ Channel!Stopped
  BY DEF StreamInv, HeldInv, Channel!Stop
<1>1. Taken /\ shown' \in Channel!Versions /\ poll' \in {None} \cup Channel!Versions
  BY <1>0 DEF Taken, StreamTypes
<1>2. /\ HeldInv' /\ page' \in Pages
      /\ \/ page'.generation = page.generation /\ page'.source = page.source
         \/ page'.generation = page.generation + 1
  BY <1>0, <1>1, StoppedHeld
<1> QED BY <1>0, <1>1, <1>2, SameShown DEF StreamInv

(* A step that asks, or sets the timer that will: nothing is read and      *)
(* nothing will be.                                                        *)
LEMMA WaitingHeld ==
    ASSUME HeldInv, "fallback" \in timers \/ poll # None, NEW set \in SUBSET {"fallback"},
           NEW kept \in SUBSET timers, timers' = kept \cup set, page' \in Pages,
           page'.polls <= MaxPolls, set # {} => page'.polls < MaxPolls /\ ~page'.stopped,
           "fallback" \in kept => page'.polls = page.polls,
           \A f \in {"connection", "source", "generation", "reconnects", "stopped", "terminal"} :
               page'[f] = page[f],
           UNCHANGED <<progress, stream, wire, opened>>,
           shown' \in Channel!Versions, poll' \in {None} \cup Channel!Versions,
           ~page.terminal \/ (shown' = shown /\ poll' = None /\ timers' = {}) \/ page.stopped
    PROVE  HeldInv'
<1> USE ConstantTypes
<1>0. /\ StreamTypes /\ WiresOK /\ TimersOK /\ Channel!OneSource /\ SourceOK /\ Channel!QuietAtEnd /\ page \in Pages
      /\ page.source = None /\ ~Reopening
  BY DEF HeldInv, StreamTypes, TimersOK, Reading
<1>1. /\ page'.connection = page.connection /\ page'.source = page.source
      /\ page'.generation = page.generation /\ page'.reconnects = page.reconnects
      /\ page'.stopped = page.stopped /\ page'.terminal = page.terminal
  OBVIOUS
<1>2. Taken
  BY DEF Taken
<1>3. timers' \subseteq Timers
  BY <1>0 DEF StreamTypes, Timers
<1>4. StreamTypes' /\ Channel!OneSource'
  BY <1>0, <1>1, <1>3 DEF StreamTypes, Channel!OneSource
<1>5. Channel!QuietAtEnd'
  BY <1>0, <1>1 DEF Channel!QuietAtEnd
<1>6. SourceOK'
  BY <1>0, <1>1 DEF SourceOK, Reading, Reopening
<1>7. TimersOK'
  BY <1>0, <1>1 DEF TimersOK, Reading, Reopening, Channel!QuietAtEnd
<1>8. WiresOK'
  BY <1>1, <1>2, TakenWires
<1> QED BY <1>4, <1>5, <1>6, <1>7, <1>8 DEF HeldInv

(* The fallback timer: a poll, or another wait of a hidden page. *)
LEMMA FallbackHeld == ASSUME StreamInv, Channel!FallbackTimer PROVE StreamInv'
<1> USE ConstantTypes
<1>0. /\ HeldInv /\ StreamTypes /\ TimersOK /\ ShownInv /\ page \in Pages
      /\ UNCHANGED <<progress, stream, wire, opened, visible, shown>>
      /\ "fallback" \in timers /\ ~page.stopped /\ ~page.terminal /\ page.polls < MaxPolls
      /\ page.polls \in Nat /\ shown \in Channel!Versions /\ progress \in Channel!Versions
      /\ poll \in {None} \cup Channel!Versions
  BY PageTypes DEF StreamInv, HeldInv, StreamTypes, TimersOK, Channel!FallbackTimer
<1>1. Taken
  BY <1>0 DEF Taken
<1>2. CASE ~visible
  <2>1. timers' = (timers \ {"fallback"}) \cup Channel!Fallback(page) /\ UNCHANGED <<page, poll>>
    BY <1>2 DEF Channel!FallbackTimer
  <2>2. Channel!Fallback(page) \subseteq {"fallback"}
    BY <1>0, FallbackTypes
  <2>3. HeldInv'
    <3> DEFINE kept == timers \ {"fallback"} set == Channel!Fallback(page)
    <3>1. set \in SUBSET {"fallback"} /\ kept \in SUBSET timers /\ timers' = kept \cup set /\ "fallback" \notin kept
      BY <2>1, <2>2
    <3> HIDE DEF kept, set
    <3>2. /\ page' \in Pages /\ page'.polls < MaxPolls /\ page'.polls <= MaxPolls /\ ~page'.stopped
          /\ shown' \in Channel!Versions /\ poll' \in {None} \cup Channel!Versions
          /\ \A f \in {"connection", "source", "generation", "reconnects", "stopped", "terminal"} :
                 page'[f] = page[f]
      BY <1>0, <2>1
    <3> QED BY <1>0, <3>1, <3>2, WaitingHeld
  <2>4. ShownInv'
    BY <1>0, <1>1, <2>1, SameShown
  <2> QED BY <2>3, <2>4 DEF StreamInv
<1>3. CASE visible
  <2>1. /\ timers' = timers \ {"fallback"} /\ page' = [page EXCEPT !.polls = page.polls + 1]
        /\ poll' = progress
    BY <1>0, <1>3 DEF Channel!FallbackTimer
  <2>2. /\ page' \in Pages /\ page'.polls <= MaxPolls
        /\ \A f \in {"connection", "source", "generation", "reconnects", "stopped", "terminal"} :
               page'[f] = page[f]
        /\ page'.source = page.source /\ page'.generation = page.generation
    <3>1. page.polls + 1 \in 0..MaxPolls
      BY <1>0
    <3> QED BY <1>0, <2>1, <3>1 DEF Pages
  <2>3. HeldInv'
    <3>1. timers' = (timers \ {"fallback"}) \cup {} /\ "fallback" \notin timers \ {"fallback"}
          /\ poll' \in {None} \cup Channel!Versions /\ shown' \in Channel!Versions
      BY <1>0, <2>1
    <3> QED BY <1>0, <2>2, <3>1, WaitingHeld
  <2>4. ShownInv'
    <3>1. shown <= progress /\ progress <= progress
      BY <1>0 DEF ShownInv
    <3> QED BY <1>0, <1>1, <2>1, <2>2, <3>1, TakenShown
  <2> QED BY <2>3, <2>4 DEF StreamInv
<1> QED BY <1>2, <1>3

(* The answer of a poll is not older than what is shown. *)
LEMMA PollHeld == ASSUME StreamInv, Channel!PollAnswer \/ Channel!PollFails PROVE StreamInv' /\ shown' >= shown
<1> USE ConstantTypes
<1>0. /\ HeldInv /\ StreamTypes /\ TimersOK /\ Channel!QuietAtEnd /\ ShownInv /\ page \in Pages
      /\ UNCHANGED <<progress, stream, wire, visible>>
      /\ poll # None /\ poll' = None /\ poll \in Channel!Versions /\ shown \in Channel!Versions /\ shown \in Nat
      /\ page.polls \in Nat /\ page.polls <= MaxPolls /\ shown <= poll /\ poll <= progress
      /\ ~Reading
  BY PageTypes DEF StreamInv, HeldInv, StreamTypes, TimersOK, ShownInv, Channel!PollAnswer,
     Channel!PollFails
<1>1. Taken
  BY <1>0 DEF Taken
<1>2. shown' \in {shown, poll} /\ shown' \in Channel!Versions /\ shown' >= shown /\ shown' <= progress
  BY <1>0 DEF Channel!PollAnswer, Channel!PollFails, ShownInv
<1>3. CASE Channel!Stopped
  <2>1. /\ HeldInv' /\ page' \in Pages
        /\ \/ page'.generation = page.generation /\ page'.source = page.source
           \/ page'.generation = page.generation + 1
    BY <1>0, <1>2, <1>3, StoppedHeld
  <2>2. ShownInv'
    BY <1>0, <1>1, <1>2, <2>1, TakenShown
  <2> QED BY <1>2, <2>1, <2>2 DEF StreamInv
<1>4. CASE timers' = timers \cup Channel!Fallback(page) /\ UNCHANGED <<page, opened>>
  <2>1. Channel!Fallback(page) \subseteq {"fallback"} /\ ("fallback" \in Channel!Fallback(page) => ~page.stopped /\ page.polls < MaxPolls)
    BY <1>0, FallbackTypes
  <2>2. ~page.terminal \/ page.stopped
    BY <1>0 DEF Channel!QuietAtEnd
  <2>3. HeldInv'
    BY <1>0, <1>2, <1>4, <2>1, <2>2, WaitingHeld
  <2>4. ShownInv'
    BY <1>0, <1>1, <1>2, <1>4, TakenShown
  <2> QED BY <1>2, <2>3, <2>4 DEF StreamInv
<1> QED BY <1>3, <1>4 DEF Channel!PollAnswer, Channel!PollFails

(* A step that leaves the stream alone. *)
LEMMA StreamStays ==
    ASSUME StreamInv, UNCHANGED <<progress, stream, wire, page, timers, poll, shown, opened>>
    PROVE  StreamInv'
  BY DEF StreamInv, HeldInv, StreamTypes, Channel!OneSource, Channel!QuietAtEnd, SourceOK,
     TimersOK, WiresOK,
         Reading, Reopening, ShownInv

(* A step of the stream or of the page keeps the invariant and does not go *)
(* back.                                                                   *)
LEMMA StreamStep == ASSUME StreamInv, [Channel!Next]_(Channel!vars) PROVE StreamInv' /\ (shown' >= shown \/ shown' = shown)
<1>1. CASE Channel!Progress
  BY <1>1, ProgressHeld DEF Channel!Progress
<1>2. CASE Channel!Connect
  BY <1>2, ConnectHeld DEF Channel!Connect
<1>3. CASE Channel!ConnectionTimeout
  BY <1>3, TimeoutHeld DEF Channel!ConnectionTimeout
<1>4. CASE Channel!FallbackTimer
  BY <1>4, FallbackHeld DEF Channel!FallbackTimer
<1>5. CASE Channel!PollAnswer \/ Channel!PollFails
  BY <1>5, PollHeld
<1>6. CASE Channel!Stop
  BY <1>6, StopHeld DEF Channel!Stop
<1>7. CASE Channel!ChangeVisibility
  <2>1. UNCHANGED <<progress, stream, wire, page, timers, poll, shown, opened>>
    BY <1>7 DEF Channel!ChangeVisibility, Channel!controller
  <2> QED BY <2>1, StreamStays
<1>8. CASE \E s \in Channel!Sources : Channel!OnOpen(s) \/ Channel!OnActivation(s) \/ Channel!OnError(s)
  <2>1. PICK s \in Channel!Sources : Channel!OnOpen(s) \/ Channel!OnActivation(s) \/ Channel!OnError(s)
    BY <1>8
  <2>2. CASE Channel!OnOpen(s)
    BY <2>2, OpenHeld DEF Channel!OnOpen
  <2>3. CASE Channel!OnActivation(s)
    BY <2>3, ActivationHeld
  <2>4. CASE Channel!OnError(s)
    BY <2>4, ErrorHeld DEF Channel!OnError
  <2> QED BY <2>1, <2>2, <2>3, <2>4
<1>9. CASE \E s \in Channel!Sources : Channel!StreamBegin(s) \/ Channel!StreamPoll(s) \/ Channel!StreamEnds(s)
  <2>1. PICK s \in Channel!Sources : Channel!StreamBegin(s) \/ Channel!StreamPoll(s) \/ Channel!StreamEnds(s)
    BY <1>9
  <2>2. shown' = shown
    BY <2>1 DEF Channel!StreamBegin, Channel!StreamPoll, Channel!StreamEnds
  <2> QED BY <2>1, <2>2, ServerStep
<1>10. CASE UNCHANGED Channel!vars
  <2>1. UNCHANGED <<progress, stream, wire, page, timers, poll, shown, opened>>
    BY <1>10 DEF Channel!vars, Channel!controller
  <2> QED BY <2>1, StreamStays
<1> QED BY <1>1, <1>2, <1>3, <1>4, <1>5, <1>6, <1>7, <1>8, <1>9, <1>10 DEF Channel!Next,
           Channel!Browser

(* The invariant is what the run checks and more. *)
LEMMA StreamInvGives == ASSUME StreamInv PROVE Channel!SourceHeld
<1>1. StreamTypes /\ page \in Pages /\ Channel!OneSource /\ Channel!QuietAtEnd
  BY DEF StreamInv, HeldInv, StreamTypes
<1>2. Channel!TypeOK
  BY <1>1 DEF StreamTypes, Channel!TypeOK, Pages, Connections, Timers
<1> QED BY <1>1, <1>2 DEF Channel!SourceHeld

(* Checked beside the preparation, the channel keeps its invariant: it is  *)
(* at rest, or it takes the step.                                          *)
LEMMA ChannelRests == ASSUME ChannelAtRest PROVE StreamInv
<1> USE ConstantTypes
<1>1. page \in Pages /\ page.source = None /\ page.stopped /\ page.terminal /\ timers = {} /\ opened = {}
  BY DEF ChannelAtRest, Pages, Connections
<1>2. wire \in [Channel!Sources -> Seq(Events)] /\ \A s \in Channel!Sources : wire[s] = <<>>
  BY DEF ChannelAtRest
<1>3. StreamTypes /\ Channel!OneSource /\ Channel!QuietAtEnd
  BY <1>1, <1>2 DEF ChannelAtRest, StreamTypes, Channel!OneSource, Channel!QuietAtEnd
<1>4. SourceOK /\ TimersOK
  BY <1>1 DEF ChannelAtRest, SourceOK, TimersOK, Reading, Reopening
<1>5. WiresOK
  BY <1>2 DEF ChannelAtRest, WiresOK
<1>6. ShownInv
  <2>1. \A s \in Channel!Sources : DOMAIN wire[s] = {}
    BY <1>2
  <2>2. progress >= progress /\ shown = progress /\ poll = None /\ page.generation \in Channel!Sources
        /\ progress \in Nat
    BY <1>1 DEF ChannelAtRest, Pages
  <2> QED BY <2>1, <2>2 DEF ShownInv, NotBack, Below, Above
<1> QED BY <1>3, <1>4, <1>5, <1>6 DEF StreamInv, HeldInv

(* The invariant holds at first, in either part. *)
LEMMA ChannelInit == MCInit => StreamInv
  BY ChannelRests, HeldInit DEF MCInit

(* A step of either part keeps the invariant and does not go back. *)
LEMMA ChannelStep ==
    ASSUME StreamInv, [MCNext]_<<part, vars, streamVars>>
    PROVE  StreamInv' /\ (shown' >= shown \/ shown' = shown)
<1>1. [Channel!Next]_(Channel!vars)
  BY DEF MCNext, streamVars, Channel!vars, Channel!controller
<1> QED BY <1>1, StreamStep

(* createActivationProgressController: whatever the server writes, the     *)
(* browser queues and the timers do, the page holds one source, the newest *)
(* one, and once the terminal snapshot is shown no source, timer or poll   *)
(* is left to call the connection lost.                                    *)
THEOREM SourceIsHeld == MCSpec => []SourceHeld
<1>1. StreamInv => SourceHeld
  BY StreamInvGives DEF SourceHeld
<1>2. StreamInv /\ [MCNext]_<<part, vars, streamVars>> => StreamInv'
  BY ChannelStep
<1> QED BY <1>1, <1>2, ChannelInit, PTL DEF MCSpec

(* The page never shows an older snapshot after a newer one: neither a     *)
(* queued event of a source that was replaced nor the answer of a poll     *)
(* takes it back.                                                          *)
THEOREM PageNeverGoesBack == MCSpec => Channel!NeverOlder
<1>1. StreamInv /\ [MCNext]_<<part, vars, streamVars>> => StreamInv' /\ [shown' >= shown]_shown
  BY ChannelStep
<1> QED BY <1>1, ChannelInit, PTL DEF MCSpec, Channel!NeverOlder

=============================================================================

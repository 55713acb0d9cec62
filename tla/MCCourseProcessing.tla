------------------------- MODULE MCCourseProcessing ------------------------
(***************************************************************************)
(* Making a course of an upload: a process and its replacement take the    *)
(* upload through ingestion and generation (CourseProcessing); what the    *)
(* generation does is a build of the curriculum (CurriculumBuild), which   *)
(* cuts the document into segments (CurriculumPartition) and composes what *)
(* they come to (CurriculumComposition).  The claim of the course does not *)
(* keep builds apart, a lease may lapse under it, so that builds are       *)
(* checked by themselves, overlapping at will: a behaviour is one of one   *)
(* of the four, the others are at rest.                                    *)
(***************************************************************************)
EXTENDS CourseProcessing

CONSTANTS p1, p2
CONSTANTS Documents, Size, MaxConcurrency, MaxAttempts, MaxCalls, MaxFaults
CONSTANTS Sections, MaxTokens, MaxSpans, MaxLength, MaxSize
CONSTANTS Titles, Keys, Names, MaxConcepts

ASSUME BuildAssumption ==
    {Size, MaxConcurrency, MaxAttempts, MaxCalls, MaxFaults} \subseteq Nat

TwoProcesses == {p1, p2}

VARIABLES open, embedding, current, vectors, segment, curriculum, active, build, task, calls,
          faults
VARIABLES spans, groups, taken, refused
VARIABLES results, ordinal, place, local, chapters
VARIABLE part  \* the part whose behaviour this is

buildVars ==
    <<open, embedding, current, vectors, segment, curriculum, active, build, task, calls, faults>>
partitionVars == <<spans, groups, taken, refused>>
compositionVars == <<results, ordinal, place, local, chapters>>

B == INSTANCE CurriculumBuild WITH Builders <- Processes
Partition == INSTANCE CurriculumPartition
Composition == INSTANCE CurriculumComposition

(* The owner's membership was revoked before the upload was looked at. *)
CourseAtRest ==
    /\ ing = Fresh /\ gen = Fresh
    /\ ingLog = [n \in 1..MaxIngest |-> "none"]
    /\ genLog = [n \in 1..MaxGenerate |-> "none"]
    /\ result = "none" /\ source = "quarantined" /\ course = "generating"
    /\ overdue = {} /\ allowed = FALSE /\ activated = FALSE
    /\ pc = [p \in Processes |-> "idle"]
    /\ round = [p \in Processes |-> 1]
    /\ proposed = [p \in Processes |-> "none"]

PartitionAtRest ==
    /\ spans = <<CHOOSE span \in Partition!Span : TRUE>> /\ groups = <<>> /\ taken = 0
    /\ refused = FALSE

CompositionAtRest ==
    /\ results = [i \in 1..Size |-> <<>>] /\ ordinal = 1 /\ place = 0 /\ chapters = <<>>
    /\ local = [k \in Keys |-> Composition!Nowhere]

MCInit ==
    /\ part \in {"course", "build", "partition", "composition"}
    /\ IF part = "course" THEN Init ELSE CourseAtRest
    /\ B!Init
    /\ IF part = "partition" THEN Partition!Init ELSE PartitionAtRest
    /\ IF part = "composition" THEN Composition!Init ELSE CompositionAtRest

MCNext ==
    /\ UNCHANGED part
    /\ \/ /\ part = "course" /\ Next
          /\ UNCHANGED <<buildVars, partitionVars, compositionVars>>
       \/ /\ part = "build" /\ B!Next
          /\ UNCHANGED <<vars, partitionVars, compositionVars>>
       \/ /\ part = "partition" /\ Partition!Next
          /\ UNCHANGED <<vars, buildVars, compositionVars>>
       \/ /\ part = "composition" /\ Composition!Next
          /\ UNCHANGED <<vars, buildVars, partitionVars>>

MCSpec ==
    /\ MCInit /\ [][MCNext]_<<part, vars, buildVars, partitionVars, compositionVars>>
    /\ Fairness

(* Bounds: of a fault and the loss of the authorization, a build sees one; *)
(* and the first to build is p1, builders being interchangeable.           *)
OneTrouble == (open \/ faults = 0) /\ build[p2].call # 1

(* CurriculumBuild: what is active is one, and complete. *)
CurriculumSound == B!CurriculumSound

(* CurriculumBuild: what is settled stands, what is retired stays so. *)
CurriculumStands == B!CurriculumStands

(* The segments are a partition of the document (CurriculumPartition), and *)
(* the curriculum is what they came to, in its order                       *)
(* (CurriculumComposition).                                                *)
SegmentsSound == Partition!PartitionSound /\ Composition!CompositionSound
=============================================================================

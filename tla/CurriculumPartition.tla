------------------------ MODULE CurriculumPartition ------------------------
(***************************************************************************)
(* Cutting a document into the segments of its curriculum                  *)
(* (partitionCurriculumSource of packages/retrieval/src/curriculum.ts).    *)
(* Spans are taken in their order; each joins the segment at the end, or   *)
(* opens one.  A step is one turn of the loop.                             *)
(***************************************************************************)
EXTENDS Naturals, Sequences

CONSTANTS
    Sections,   \* section paths; a span outside of all sections has the empty one
    MaxTokens,  \* CURRICULUM_SEGMENT_MAX_SOURCE_TOKENS
    MaxSpans,   \* CURRICULUM_SEGMENT_MAX_SPANS
    MaxLength,  \* bound: spans of a document
    MaxSize     \* bound: tokens of a span

VARIABLES
    spans,    \* the document: the section and the tokens of each span
    groups,   \* the segments: first and last span, section, tokens
    taken,    \* spans taken so far
    refused   \* a span is larger than a segment may be

vars == <<spans, groups, taken, refused>>

Span == [section : Sections, tokens : 1..MaxSize]

Init ==
    /\ \E n \in 1..MaxLength : spans \in [1..n -> Span]
    /\ groups = <<>> /\ taken = 0 /\ refused = FALSE

(* Mutant: the ceiling is checked before the span is added. *)
FitsBefore(group, span) ==
    /\ group.section = span.section
    /\ group.last - group.first + 1 < MaxSpans /\ group.tokens < MaxTokens

(* The same section path, and within both ceilings with the span. *)
Fits(group, span) ==
    /\ group.section = span.section
    /\ group.last - group.first + 1 < MaxSpans
    /\ group.tokens + span.tokens <= MaxTokens

TakeSpan ==
    LET n == taken + 1
        end == Len(groups) IN
    /\ ~refused /\ taken < Len(spans) /\ spans[n].tokens <= MaxTokens
    /\ taken' = n
    /\ groups' =
         IF end > 0 /\ Fits(groups[end], spans[n])
           THEN [groups EXCEPT ![end] = [first |-> @.first, last |-> n, section |-> @.section,
                                         tokens |-> @.tokens + spans[n].tokens]]
           ELSE Append(groups, [first |-> n, last |-> n, section |-> spans[n].section,
                                tokens |-> spans[n].tokens])
    /\ UNCHANGED <<spans, refused>>

RefuseSpan ==
    /\ ~refused /\ taken < Len(spans) /\ spans[taken + 1].tokens > MaxTokens
    /\ refused' = TRUE /\ UNCHANGED <<spans, groups, taken>>

Next == TakeSpan \/ RefuseSpan

Spec == Init /\ [][Next]_vars

(***************************************************************************)
(* Properties.                                                             *)
(***************************************************************************)
TypeOK ==
    /\ spans \in Seq(Span) /\ taken \in 0..Len(spans) /\ refused \in BOOLEAN
    /\ groups \in Seq([first : Nat \ {0}, last : Nat \ {0}, section : Sections, tokens : Nat])

(* Every span that was taken is in one segment, in the document's order. *)
Covers ==
    /\ taken = IF groups = <<>> THEN 0 ELSE groups[Len(groups)].last
    /\ \A k \in DOMAIN groups :
         /\ groups[k].first = (IF k = 1 THEN 0 ELSE groups[k - 1].last) + 1
         /\ groups[k].first <= groups[k].last

(* A segment is of one section, and within the ceilings. *)
WithinCeilings ==
    \A k \in DOMAIN groups :
       /\ groups[k].tokens <= MaxTokens /\ groups[k].last - groups[k].first < MaxSpans
       /\ \A n \in groups[k].first..groups[k].last :
            spans[n].section = groups[k].section /\ spans[n].tokens <= groups[k].tokens

(* A segment ends only where it must. *)
CutsAreNeeded ==
    \A k \in DOMAIN groups : k > 1 => ~Fits(groups[k - 1], spans[groups[k].first])

(* The segments are a partition of the document, within the ceilings of a  *)
(* call and no finer than they must be.                                    *)
PartitionSound == TypeOK /\ Covers /\ WithinCeilings /\ CutsAreNeeded
=============================================================================

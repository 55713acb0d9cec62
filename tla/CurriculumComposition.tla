----------------------- MODULE CurriculumComposition -----------------------
(***************************************************************************)
(* Composing a curriculum from the results of its segments                 *)
(* (composeCurriculum of packages/retrieval/src/curriculum.ts).  The local *)
(* concepts are taken in the order of the manifest, and of each result; a  *)
(* step is one turn of the innermost loop.  A chapter goes on as long as   *)
(* the titles do; in it a concept of one key and one name is one concept.  *)
(*                                                                         *)
(* A result is the sequence of its concepts with the titles of their       *)
(* chapters, nothing if the segment teaches nothing.  The spans a concept  *)
(* cites are named by the segment and the place it has there.              *)
(***************************************************************************)
EXTENDS Naturals, Sequences, FiniteSets, SequencesExt

CONSTANTS
    Titles, Keys, Names,  \* after normalize
    Size,                 \* segments
    MaxConcepts           \* bound: concepts of a result

VARIABLES
    results,   \* the results of the segments
    ordinal,   \* the segment that is being composed
    place,     \* the concepts taken of it
    local,     \* localConcepts: where the concepts of this segment are, by key
    chapters   \* the chapters so far, with their concepts

vars == <<results, ordinal, place, local, chapters>>

Segments == 1..Size
Concept == [title : Titles, key : Keys, name : Names, prerequisites : SUBSET Keys]

(* validateChildResult: keys are unique, prerequisites come before. *)
Valid(result) ==
    \A j \in DOMAIN result :
       /\ \A i \in 1..(j - 1) : result[i].key # result[j].key
       /\ \A k \in result[j].prerequisites : \E i \in 1..(j - 1) : result[i].key = k

LocalResults == {result \in UNION {[1..n -> Concept] : n \in 0..MaxConcepts} : Valid(result)}

Nowhere == <<0, 0>>

Init ==
    /\ results \in [Segments -> LocalResults]
    /\ ordinal = 1 /\ place = 0 /\ local = [k \in Keys |-> Nowhere] /\ chapters = <<>>

(* Mutant: the chapter of this title is looked for among all of them. *)
ChapterOfAnywhere(title) ==
    LET same == {c \in DOMAIN chapters : chapters[c].title = title} IN
    IF same = {} THEN Len(chapters) + 1 ELSE CHOOSE c \in same : \A d \in same : c <= d

(* The last chapter, if it has the title, or a new one. *)
ChapterOf(title) ==
    IF chapters # <<>> /\ Last(chapters).title = title THEN Len(chapters) ELSE Len(chapters) + 1

(* The concept of this key and name in a chapter, or the next in it. *)
PlaceIn(concepts, entry) ==
    LET same == {i \in DOMAIN concepts :
                   concepts[i].key = entry.key /\ concepts[i].name = entry.name} IN
    IF same = {} THEN Len(concepts) + 1 ELSE CHOOSE i \in same : \A j \in same : i <= j

ComposeConcept ==
    /\ ordinal <= Size /\ place < Len(results[ordinal])
    /\ LET entry == results[ordinal][place + 1]
           c == ChapterOf(entry.title)
           opened == IF c \in DOMAIN chapters THEN chapters
                     ELSE Append(chapters, [title |-> entry.title, concepts |-> <<>>])
           concepts == opened[c].concepts
           i == PlaceIn(concepts, entry)
           known == IF i \in DOMAIN concepts THEN concepts
                    ELSE Append(concepts, [key |-> entry.key, name |-> entry.name,
                                           from |-> {}, prerequisites |-> {}])
           needed == {local[k] : k \in entry.prerequisites} IN
       /\ chapters' = [opened EXCEPT ![c].concepts =
                         [known EXCEPT ![i].from = @ \cup {<<ordinal, place + 1>>},
                                       ![i].prerequisites = @ \cup needed]]
       /\ local' = [local EXCEPT ![entry.key] = <<c, i>>]
    /\ place' = place + 1 /\ UNCHANGED <<results, ordinal>>

NextSegment ==
    /\ ordinal <= Size /\ place = Len(results[ordinal])
    /\ ordinal' = ordinal + 1 /\ place' = 0 /\ local' = [k \in Keys |-> Nowhere]
    /\ UNCHANGED <<results, chapters>>

Next == ComposeConcept \/ NextSegment

Spec == Init /\ [][Next]_vars

(***************************************************************************)
(* Properties.                                                             *)
(***************************************************************************)
Taken == {l \in Segments \X (1..MaxConcepts) :
            /\ l[2] <= Len(results[l[1]])
            /\ l[1] < ordinal \/ (l[1] = ordinal /\ l[2] <= place)}

Composed == UNION {{<<c, i>> : i \in DOMAIN chapters[c].concepts} : c \in DOMAIN chapters}
At(p) == chapters[p[1]].concepts[p[2]]
Of(l) == results[l[1]][l[2]]
Before(p, q) == p[1] < q[1] \/ (p[1] = q[1] /\ p[2] < q[2])
First(p) == CHOOSE l \in At(p).from : \A m \in At(p).from : m = l \/ Before(l, m)

(* Every concept of a result is in one composed concept, which is of its   *)
(* key, its name and a chapter of its title.                               *)
EveryConceptOnce ==
    /\ UNION {At(p).from : p \in Composed} = Taken
    /\ \A p, q \in Composed : p # q => At(p).from \cap At(q).from = {}
    /\ \A p \in Composed :
         /\ At(p).from # {}
         /\ \A l \in At(p).from :
              /\ Of(l).key = At(p).key /\ Of(l).name = At(p).name
              /\ Of(l).title = chapters[p[1]].title

(* The order of the document is kept. *)
OrderKept == \A p, q \in Composed : Before(p, q) => Before(First(p), First(q))

(* A composed concept needs what a concept in it needed of its segment,    *)
(* and nothing else.                                                       *)
EdgesKept ==
    \A p \in Composed :
       At(p).prerequisites =
         {q \in Composed : \E l \in At(p).from, m \in At(q).from :
                             l[1] = m[1] /\ Of(m).key \in Of(l).prerequisites}

(* The needs of one result are no circle, so that of a circle of composed  *)
(* concepts one at least was put together of several: ADR 0036 has the     *)
(* composition reject "missing or cyclic edges", but it looks for none.    *)
CirclesAreMerged ==
    \A circle \in (SUBSET Composed) \ {{}} :
       \/ \E p \in circle : At(p).prerequisites \cap circle = {}
       \/ \E p \in circle : Cardinality(At(p).from) > 1

(* The composed curriculum is what the segments said, in their order. *)
CompositionSound == EveryConceptOnce /\ OrderKept /\ EdgesKept /\ CirclesAreMerged
=============================================================================

--------------------------- MODULE ReviewSchedule ---------------------------
(***************************************************************************)
(* What a learner knows of one concept and when it is reviewed next:       *)
(* PostgresKnowledgeRepository (packages/db) over the pure replays of      *)
(* packages/knowledge-model.  Concepts share no row, so one is enough.     *)
(*                                                                         *)
(* recordEvidenceAndReplay is one transaction, but not one step: it locks  *)
(* knowledge_state, reads the ledger of evidence, later reads the delivery *)
(* overrides, and only its last statement locks review_schedule.  The      *)
(* override operations lock review_schedule alone, and the transactions    *)
(* that commit attempts lock neither.  Isolation is READ COMMITTED.        *)
(***************************************************************************)
EXTENDS DeliveryTime, Sequences, SequencesExt

CONSTANTS
    Workers,      \* calls of recordEvidenceAndReplay under way at a time
    Attempts,     \* attempts on the concept, in the order of created_at
    ReviewedAt,   \* ReviewedAt[a]: created_at of the attempt
    MaxLedger,    \* MAX_REPLAY_EVIDENCE_PER_CONCEPT
    Judgments,    \* the marks an attempt may get
    Preferences,  \* delivery preferences [zone, hour] the learner may have
    Overrides,    \* identities of delivery overrides
    NotBefore,    \* NotBefore[o]: deliver_not_before_at
    None

Eligible == {"wrong", "partial", "right"}
Marks == Eligible \cup {"ineligible"}

VARIABLES
    mark,       \* mark[a]: the judgment on the attempt, "none" before it exists
    stored,     \* attempts with a row in attempt_concept_evidence
    knowledge,  \* knowledge_state: what it was replayed from, alpha and beta
    schedule,   \* review_schedule: card, due, base and next delivery
    override,   \* override[o]: "absent", "active" or "cancelled"
    prefers,    \* delivery_preference
    recorded,   \* attempts a call has recorded successfully
    outdated,   \* history: an override was appended or cancelled between its
                \* read and the write of the schedule that is stored
    holder,     \* the call that holds the lock of knowledge_state
    phase, job, pref, ledger, floor  \* the calls: where, for which attempt, with
                                     \* which preference, ledger and overrides

rowVars == <<mark, stored, knowledge, schedule, override, prefers, recorded, outdated>>
callVars == <<holder, phase, job, pref, ledger, floor>>
vars == <<rowVars, callVars>>

(* scoreFor and ratingFor, in half points. *)
Score(m) == CASE m = "right" -> 2 [] m = "partial" -> 1 [] OTHER -> 0
Rating(m) == IF m = "right" THEN 3 ELSE 1

(* replayKnowledgeState: sums, so the order does not matter. *)
Mastery(S) ==
    [alpha |-> MapThenSumSet(LAMBDA a : Score(mark[a]), S),
     beta |-> MapThenSumSet(LAMBDA a : 2 - Score(mark[a]), S)]

(* Mutant of Card: the evidence is replayed latest first. *)
CardReversed(S) == Reverse([n \in 1..Cardinality(S) |-> Rating(mark[SetToSortSeq(S, <)[n]])])

(* replayFsrsSchedule: the ratings in the canonical order, created_at.     *)
Card(S) == [n \in 1..Cardinality(S) |-> Rating(mark[SetToSortSeq(S, <)[n]])]

(* ts-fsrs: a card and the time of its last review decide the due instant; *)
(* a success of a longer history is due later, a failure soon.             *)
DueAt(card, last) == last + IF Last(card) = 3 THEN 5 + 7 * Len(card) ELSE 5

NoSchedule == [card |-> <<>>, due |-> 0, pref |-> None, base |-> 0, next |-> 0]

Init ==
    /\ mark = [a \in Attempts |-> "none"]
    /\ stored = {} /\ recorded = {}
    /\ knowledge = [seen |-> {}, mastery |-> [alpha |-> 0, beta |-> 0]]
    /\ schedule = NoSchedule
    /\ override = [o \in Overrides |-> "absent"]
    /\ prefers \in Preferences
    /\ outdated = FALSE
    /\ holder = None
    /\ phase = [w \in Workers |-> "idle"]
    /\ job = [w \in Workers |-> 0]
    /\ pref = [w \in Workers |-> None]
    /\ ledger = [w \in Workers |-> {}]
    /\ floor = [w \in Workers |-> 0]

-----------------------------------------------------------------------------
(* An attempt is committed: by the grading, with its evidence rows, or by  *)
(* an answered delivery, whose evidence recordEvidenceAndReplay inserts.   *)
CommitAttempt(a, m, rows) ==
    /\ mark[a] = "none" /\ mark' = [mark EXCEPT ![a] = m]
    /\ stored' = IF rows THEN stored \cup {a} ELSE stored
    /\ UNCHANGED <<knowledge, schedule, override, prefers, recorded, outdated, callVars>>

(* savePreference. *)
ChangePreference(p) ==
    /\ prefers # p /\ prefers' = p
    /\ UNCHANGED <<mark, stored, knowledge, schedule, override, recorded, outdated, callVars>>

(* A caller loads the preference and calls recordEvidenceAndReplay. *)
Start(w, a) ==
    /\ phase[w] = "idle" /\ mark[a] # "none"
    /\ phase' = [phase EXCEPT ![w] = "started"]
    /\ job' = [job EXCEPT ![w] = a]
    /\ pref' = [pref EXCEPT ![w] = prefers]
    /\ UNCHANGED <<rowVars, holder, ledger, floor>>

(* The transaction is over, committed or rolled back. *)
Ended(w) ==
    /\ phase' = [phase EXCEPT ![w] = "idle"]
    /\ job' = [job EXCEPT ![w] = 0]
    /\ pref' = [pref EXCEPT ![w] = None]
    /\ ledger' = [ledger EXCEPT ![w] = {}]
    /\ floor' = [floor EXCEPT ![w] = 0]
    /\ holder' = IF holder = w THEN None ELSE holder

(* The eligible evidence a transaction sees that inserted its own row. *)
Visible(a) == {b \in stored \cup {a} : mark[b] \in Eligible}

(* Mutant of LockAndRead: the row of knowledge_state is not locked. *)
ReadUnlocked(w) ==
    /\ phase[w] = "started"
    /\ holder' = w
    /\ ledger' = [ledger EXCEPT ![w] = Visible(job[w])]
    /\ phase' = [phase EXCEPT ![w] = "locked"]
    /\ UNCHANGED <<rowVars, job, pref, floor>>

(* recordEvidenceAndReplay: SELECT ... FOR UPDATE on knowledge_state, the  *)
(* evidence row inserted or found the same, and the ledger read.           *)
LockAndRead(w) ==
    /\ phase[w] = "started" /\ holder = None
    /\ holder' = w
    /\ ledger' = [ledger EXCEPT ![w] = Visible(job[w])]
    /\ phase' = [phase EXCEPT ![w] = "locked"]
    /\ UNCHANGED <<rowVars, job, pref, floor>>

(* Mutant of WithinLimit: the ledger is cut at the limit, not refused. *)
AnyLength(S) == TRUE

(* replayFsrsSchedule: replay_limit_exceeded otherwise. *)
WithinLimit(S) == Cardinality(S) <= MaxLedger

(* The latest instant that the active ones of the overrides ov ask for. *)
Floor(ov) == Max({0} \cup {NotBefore[o] : o \in {p \in Overrides : ov[p] = "active"}})

(* persistScheduleReplay: the payloads are stored under their digests, and *)
(* the active overrides are read; review_schedule is not locked yet.       *)
ReadOverrides(w) ==
    /\ phase[w] = "locked" /\ WithinLimit(ledger[w])
    /\ floor' = [floor EXCEPT ![w] = Floor(override)]
    /\ phase' = [phase EXCEPT ![w] = "replayed"]
    /\ UNCHANGED <<rowVars, holder, job, pref, ledger>>

(* The transaction fails or is refused: nothing of it remains. *)
RollBack(w) ==
    /\ phase[w] # "idle"
    /\ Ended(w)
    /\ UNCHANGED rowVars

Larger(x, y) == IF x > y THEN x ELSE y

(* The row persistScheduleReplay writes for a ledger. *)
Replayed(S, p, f) ==
    LET due == DueAt(Card(S), ReviewedAt[Max(S)])
        base == ResolveNextDeliveryAt(due, p.zone, p.hour)
    IN  [card |-> Card(S), due |-> due, pref |-> p, base |-> base, next |-> Larger(base, f)]

(* Both projections are written, and the transaction commits. *)
Commit(w) ==
    /\ phase[w] = "replayed"
    /\ stored' = stored \cup {job[w]}
    /\ recorded' = recorded \cup {job[w]}
    /\ knowledge' = [seen |-> ledger[w], mastery |-> Mastery(ledger[w])]
    /\ IF ledger[w] = {} THEN UNCHANGED <<schedule, outdated>>
       ELSE /\ schedule' = Replayed(ledger[w], pref[w], floor[w])
            /\ outdated' = (floor[w] # Floor(override))
    /\ Ended(w)
    /\ UNCHANGED <<mark, override, prefers>>

-----------------------------------------------------------------------------
(* Mutant of Recomputed: the base resolution is left out of the maximum. *)
RecomputedFromOverrides(ov) == [schedule EXCEPT !.next = Floor(ov)]

(* recomputeNextDeliveryAt, with the given overrides. *)
Recomputed(ov) == [schedule EXCEPT !.next = Larger(schedule.base, Floor(ov))]

(* appendDeliveryOverride; lockSchedule refuses a concept without schedule. *)
AppendOverride(o) ==
    /\ schedule # NoSchedule /\ override[o] = "absent"
    /\ override' = [override EXCEPT ![o] = "active"]
    /\ schedule' = Recomputed(override') /\ outdated' = FALSE
    /\ UNCHANGED <<mark, stored, knowledge, prefers, recorded, callVars>>

(* cancelDeliveryOverride. *)
CancelOverride(o) ==
    /\ override[o] = "active"
    /\ override' = [override EXCEPT ![o] = "cancelled"]
    /\ schedule' = Recomputed(override') /\ outdated' = FALSE
    /\ UNCHANGED <<mark, stored, knowledge, prefers, recorded, callVars>>

Record(w) == (\E a \in Attempts : Start(w, a)) \/ LockAndRead(w) \/ ReadOverrides(w)
               \/ Commit(w) \/ RollBack(w)

Next ==
    \/ \E w \in Workers : Record(w)
    \/ \E a \in Attempts, m \in Judgments, rows \in BOOLEAN : CommitAttempt(a, m, rows)
    \/ \E p \in Preferences : ChangePreference(p)
    \/ \E o \in Overrides : AppendOverride(o) \/ CancelOverride(o)

Spec == Init /\ [][Next]_vars

-----------------------------------------------------------------------------
(* The rows and the calls are what they may be. *)
TypeOK ==
    /\ mark \in [Attempts -> Marks \cup {"none"}]
    /\ stored \subseteq Attempts /\ recorded \subseteq Attempts
    /\ knowledge.seen \subseteq Attempts
    /\ schedule.card \in Seq({1, 3}) /\ Len(schedule.card) <= MaxLedger
    /\ override \in [Overrides -> {"absent", "active", "cancelled"}]
    /\ prefers \in Preferences /\ outdated \in BOOLEAN
    /\ holder \in Workers \cup {None}
    /\ phase \in [Workers -> {"idle", "started", "locked", "replayed"}]

(* No recorded evidence is lost: whatever order the attempts arrive in and *)
(* however their calls overlap, the knowledge state holds every eligible   *)
(* attempt that a call has recorded.                                       *)
RecordedIsSeen ==
    \A a \in recorded : mark[a] \in Eligible => a \in knowledge.seen

(* Arrival order never changes state: mastery and card are those of the    *)
(* same evidence, replayed in the order of created_at.                     *)
ReplayedInOrder ==
    /\ knowledge.mastery.alpha + knowledge.mastery.beta = 2 * Cardinality(knowledge.seen)
    /\ Len(schedule.card) = Cardinality(knowledge.seen)
    /\ \A a \in knowledge.seen :
         schedule.card[Cardinality({b \in knowledge.seen : b <= a})] = Rating(mark[a])

(* A review is delivered the first time the learner's clock strikes the    *)
(* chosen hour after it is due, across folds and gaps of the zone.         *)
AtChosenTime ==
    schedule # NoSchedule => 
        IsNextStrike(schedule.due, schedule.pref.zone, schedule.pref.hour, schedule.base)

(* "The effective next_delivery_at is the maximum of the base delivery       *)
(* resolution and every active override's deliver_not_before_at" (ADR        *)
(* 0033:193), however replays and overrides overlap, with one exception: an  *)
(* override appended or cancelled after a replay has read them is not in     *)
(* what it writes, until the next replay or the next override.  Even then a  *)
(* delivery is put off by an override alone, and never before the base.      *)
MaximumOfOverrides ==
    /\ ~outdated => schedule.next = Larger(schedule.base, Floor(override))
    /\ schedule.next >= schedule.base
    /\ schedule.next # schedule.base =>
         \E o \in Overrides : override[o] # "absent" /\ schedule.next = NotBefore[o]

(* Mastery, card and delivery time are those of the evidence and of the    *)
(* learner's clock, whatever order the calls took.                         *)
ScheduleFollows == TypeOK /\ ReplayedInOrder /\ AtChosenTime /\ MaximumOfOverrides
=============================================================================

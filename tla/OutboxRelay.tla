----------------------------- MODULE OutboxRelay -----------------------------
(***************************************************************************)
(* The transactional outbox relay: apps/api/src/outbox-relay.ts over the   *)
(* SQL functions of migration 20260730000100.  A relay process repeatedly  *)
(* claims a batch of unpublished outbox rows under a database lease, sends *)
(* every row of the batch concurrently to the broker, and then marks a row *)
(* published (the broker acknowledged) or releases it (the send failed).   *)
(*                                                                         *)
(* Time is not a counter.  What the code can observe of it is whether a    *)
(* lease has expired and whether a deadline has passed; ClaimLapse and     *)
(* DeadlinePass make those observations become true, at any moment.        *)
(***************************************************************************)
EXTENDS Naturals, FiniteSets

CONSTANTS
    Messages,    \* outbox rows of command media.audio.generate
    Relays,      \* relay processes, a replacement overlapping its
                 \* predecessor being a process of its own
    LeaseOwner,  \* the configured REFLO_OUTBOX_RELAY_LEASE_OWNER of each
    Unowned,     \* SQL NULL in relay_lease_owner
    Rank,        \* the order (priority, created_at, message_id)
    BatchSize,   \* REFLO_OUTBOX_RELAY_BATCH_SIZE
    Refused,     \* messages the broker refuses every time
    MaxFaults    \* bound: failed sends, crashes and overrun leases

ASSUME RelayAssumption ==
    /\ Rank \in [Messages -> Nat]
    /\ \A m, n \in Messages : Rank[m] = Rank[n] => m = n
    /\ \A r \in Relays : LeaseOwner[r] # Unowned
    /\ IsFiniteSet(Relays)
    /\ BatchSize \in Nat \ {0}
    /\ Refused \subseteq Messages
    /\ MaxFaults \in Nat

VARIABLES
    row,      \* row[m]: not inserted yet, published_at NULL, or published
    rowOwner,    \* rowOwner[m]: relay_lease_owner
    rowLease,    \* rowLease[m]: relay_lease_expires_at, as it compares with now
    overdue,  \* messages whose deadline_at has passed
    flight,   \* flight[r][m]: where runOnce of r stands with m
    copies,   \* copies[m]: how often the broker accepted m
    stale,    \* history: stale[m] are the relays whose claim of m lapsed
    faults    \* environment faults so far

relayVars == <<row, rowOwner, rowLease, overdue, flight, copies, stale, faults>>

RowStates == {"absent", "pending", "published"}
LeaseStates == {"none", "live", "lapsed"}
Flights == {"idle", "sending", "acked", "failed"}
Owners == {LeaseOwner[r] : r \in Relays}

RelayInit ==
    /\ row = [m \in Messages |-> "absent"]
    /\ rowOwner = [m \in Messages |-> Unowned]
    /\ rowLease = [m \in Messages |-> "none"]
    /\ overdue = {}
    /\ flight = [r \in Relays |-> [m \in Messages |-> "idle"]]
    /\ copies = [m \in Messages |-> 0]
    /\ stale = [m \in Messages |-> {}]
    /\ faults = 0

Fault ==
    /\ faults < MaxFaults
    /\ faults' = faults + 1

-----------------------------------------------------------------------------
(* The producer commits the row together with the operation it commands. *)
Enqueue(m) ==
    /\ row[m] = "absent"
    /\ row' = [row EXCEPT ![m] = "pending"]
    /\ UNCHANGED <<rowOwner, rowLease, overdue, flight, copies, stale, faults>>

(* Mutants of Claimable: the lease is not looked at, or never expires. *)
ClaimableIgnoringLease ==
    {m \in Messages : row[m] = "pending" /\ m \notin overdue}
ClaimableUnleased ==
    {m \in Messages : row[m] = "pending" /\ m \notin overdue /\ rowLease[m] = "none"}

(* WHERE clause of reflo_claim_outbox_messages. *)
Claimable ==
    {m \in Messages : row[m] = "pending" /\ m \notin overdue /\ rowLease[m] # "live"}

(* Rows a concurrent release has locked, which SKIP LOCKED passes over. *)
Locked(r) ==
    {m \in Messages : \E q \in Relays \ {r} :
        flight[q][m] = "failed" /\ rowOwner[m] = LeaseOwner[q]}

(* ORDER BY ... LIMIT: the first BatchSize rows of S. *)
Batch(S) == {m \in S : Cardinality({n \in S : Rank[n] < Rank[m]}) < BatchSize}

(* runOnce starts when the previous one has settled every message.  An     *)
(* empty claim changes nothing and is left out.                            *)
Claim(r) ==
    /\ \A m \in Messages : flight[r][m] = "idle"
    /\ \E skipped \in SUBSET (Locked(r) \cap Claimable) :
         LET batch == Batch(Claimable \ skipped)
         IN /\ batch # {}
            /\ rowOwner' = [m \in Messages |->
                           IF m \in batch THEN LeaseOwner[r] ELSE rowOwner[m]]
            /\ rowLease' = [m \in Messages |->
                           IF m \in batch THEN "live" ELSE rowLease[m]]
            /\ flight' = [flight EXCEPT ![r] =
                 [m \in Messages |-> IF m \in batch THEN "sending" ELSE "idle"]]
            /\ stale' = [m \in Messages |->
                           IF m \in batch THEN stale[m] \ {r} ELSE stale[m]]
    /\ UNCHANGED <<row, overdue, copies, faults>>

(* send() returned a structurally valid receipt. *)
SendAccepted(r, m) ==
    /\ flight[r][m] = "sending" /\ m \notin Refused
    /\ flight' = [flight EXCEPT ![r][m] = "acked"]
    /\ copies' = [copies EXCEPT ![m] = @ + 1]
    /\ UNCHANGED <<row, rowOwner, rowLease, overdue, stale, faults>>

(* send() failed or its receipt is invalid, yet the broker has the message. *)
SendAmbiguous(r, m) ==
    /\ flight[r][m] = "sending" /\ m \notin Refused
    /\ Fault
    /\ flight' = [flight EXCEPT ![r][m] = "failed"]
    /\ copies' = [copies EXCEPT ![m] = @ + 1]
    /\ UNCHANGED <<row, rowOwner, rowLease, overdue, stale>>

(* Mutant of SendRejected: a failed send is taken for a receipt. *)
SendRejectedUnseen(r, m) ==
    /\ flight[r][m] = "sending"
    /\ flight' = [flight EXCEPT ![r][m] = "acked"]
    /\ UNCHANGED <<row, rowOwner, rowLease, overdue, copies, stale, faults>>

(* send() failed and the broker does not have the message. *)
SendRejected(r, m) ==
    /\ flight[r][m] = "sending"
    /\ IF m \in Refused THEN UNCHANGED faults ELSE Fault
    /\ flight' = [flight EXCEPT ![r][m] = "failed"]
    /\ UNCHANGED <<row, rowOwner, rowLease, overdue, copies, stale>>

(* reflo_mark_outbox_published: fenced by the owner and by a live lease; a *)
(* refused mark counts as ambiguous and the message is left to its lease.  *)
Marks(r, m) == row[m] = "pending" /\ rowOwner[m] = LeaseOwner[r] /\ rowLease[m] = "live"

(* Mutant of Mark: the published row keeps its lease. *)
MarkKeepingLease(r, m) ==
    /\ flight[r][m] = "acked"
    /\ flight' = [flight EXCEPT ![r][m] = "idle"]
    /\ row' = IF Marks(r, m) THEN [row EXCEPT ![m] = "published"] ELSE row
    /\ UNCHANGED <<rowOwner, rowLease, overdue, copies, stale, faults>>

Mark(r, m) ==
    /\ flight[r][m] = "acked"
    /\ flight' = [flight EXCEPT ![r][m] = "idle"]
    /\ IF Marks(r, m)
         THEN /\ row' = [row EXCEPT ![m] = "published"]
              /\ rowOwner' = [rowOwner EXCEPT ![m] = Unowned]
              /\ rowLease' = [rowLease EXCEPT ![m] = "none"]
         ELSE UNCHANGED <<row, rowOwner, rowLease>>
    /\ UNCHANGED <<overdue, copies, stale, faults>>

(* reflo_release_outbox_message: fenced by the owner alone. *)
Releases(r, m) == row[m] = "pending" /\ rowOwner[m] = LeaseOwner[r]

Release(r, m) ==
    /\ flight[r][m] = "failed"
    /\ flight' = [flight EXCEPT ![r][m] = "idle"]
    /\ IF Releases(r, m)
         THEN /\ rowOwner' = [rowOwner EXCEPT ![m] = Unowned]
              /\ rowLease' = [rowLease EXCEPT ![m] = "none"]
         ELSE UNCHANGED <<rowOwner, rowLease>>
    /\ UNCHANGED <<row, overdue, copies, stale, faults>>

(* The process ends (a signal, or a database error that runOnce rejects    *)
(* with) and is started again.  The broker may have any of its unanswered  *)
(* sends.                                                                  *)
Crash(r) ==
    /\ \E m \in Messages : flight[r][m] # "idle"
    /\ Fault
    /\ \E got \in SUBSET {m \in Messages \ Refused : flight[r][m] = "sending"} :
         copies' = [m \in Messages |-> IF m \in got THEN copies[m] + 1 ELSE copies[m]]
    /\ flight' = [flight EXCEPT ![r] = [m \in Messages |-> "idle"]]
    /\ UNCHANGED <<row, rowOwner, rowLease, overdue, stale>>

(* Relays still working on m. *)
Holders(m) == {r \in Relays : flight[r][m] # "idle"}

(* The lease of m expires, its claimant gone or still at work. *)
ClaimLapse(m) ==
    /\ rowLease[m] = "live"
    /\ IF Holders(m) \subseteq stale[m] THEN UNCHANGED faults ELSE Fault
    /\ rowLease' = [rowLease EXCEPT ![m] = "lapsed"]
    /\ stale' = [stale EXCEPT ![m] = @ \cup Holders(m)]
    /\ UNCHANGED <<row, rowOwner, overdue, flight, copies>>

DeadlinePass(m) ==
    /\ row[m] = "pending" /\ m \notin overdue
    /\ overdue' = overdue \cup {m}
    /\ UNCHANGED <<row, rowOwner, rowLease, flight, copies, stale, faults>>

-----------------------------------------------------------------------------
Settle(r, m) == SendAccepted(r, m) \/ SendRejected(r, m) \/ Mark(r, m) \/ Release(r, m)

RelayNext ==
    \/ \E m \in Messages : Enqueue(m) \/ ClaimLapse(m) \/ DeadlinePass(m)
    \/ \E r \in Relays : Claim(r) \/ Crash(r)
    \/ \E r \in Relays, m \in Messages : Settle(r, m) \/ SendAmbiguous(r, m)

(* A running relay polls again within pollIntervalMs, its sends are bounded *)
(* by the request timeout, its database calls return or end the process,   *)
(* and a lease nobody works under does expire.                             *)
RelayFairness ==
    /\ \A r \in Relays : WF_relayVars(Claim(r))
    /\ \A r \in Relays, m \in Messages : WF_relayVars(Settle(r, m))
    /\ \A m \in Messages : WF_relayVars(Holders(m) \subseteq stale[m] /\ ClaimLapse(m))

RelaySpec == RelayInit /\ [][RelayNext]_relayVars /\ RelayFairness

-----------------------------------------------------------------------------
(* The values of every variable, with the CHECK constraints of the table:  *)
(* owner and expiry are NULL together, and a published row has no lease.   *)
RelayTypes ==
    /\ row \in [Messages -> RowStates]
    /\ rowOwner \in [Messages -> Owners \cup {Unowned}]
    /\ rowLease \in [Messages -> LeaseStates]
    /\ overdue \subseteq Messages
    /\ flight \in [Relays -> [Messages -> Flights]]
    /\ copies \in [Messages -> Nat]
    /\ stale \in [Messages -> SUBSET Relays]
    /\ faults \in 0..MaxFaults
    /\ \A m \in Messages :
         /\ (rowOwner[m] = Unowned) <=> (rowLease[m] = "none")
         /\ row[m] # "pending" => rowLease[m] = "none"

(* No command is lost: a row leaves the outbox only when the broker has    *)
(* accepted the message, whatever crashed, lapsed or overlapped meanwhile. *)
PublishedWasAccepted == \A m \in Messages : row[m] = "published" => copies[m] > 0

(* Duplicates are paid for: the broker has at most one copy of a message   *)
(* for every failed send, crash or overrun lease, and one more.  Without   *)
(* failures a command is published exactly once.                           *)
DuplicatesExplained == \A m \in Messages : copies[m] <= 1 + faults

(* A whole batch of refused messages, none past its deadline, goes before  *)
(* m: they fail, are released and are claimed again without a pause.       *)
Crowded(m) ==
    BatchSize <= Cardinality({n \in Refused :
        row[n] = "pending" /\ n \notin overdue /\ Rank[n] < Rank[m]})

(* A committed command reaches the broker or its deadline, and waits for   *)
(* longer only behind a batch the broker refuses.  It is not stranded by a *)
(* crashed relay's lease, nor by fewer refused messages than fill a batch, *)
(* nor by more once their deadlines leave too few.                         *)
NeverStranded ==
    \A m \in Messages \ Refused :
        row[m] = "pending" ~> (row[m] = "published" \/ m \in overdue \/ Crowded(m))

(* Claims, leases, failed sends, crashes and overlapping processes refine  *)
(* to committing, accepting and retiring: see DurablePublication.          *)
Publication == INSTANCE DurablePublication
RefinesPublication == Publication!Spec


(* Whatever overlaps, fails or lapses: a row leaves the outbox only after  *)
(* the broker took its message, and what the broker took twice, it took    *)
(* because of a fault.                                                     *)
PublicationSound == RelayTypes /\ PublishedWasAccepted /\ DuplicatesExplained
=============================================================================

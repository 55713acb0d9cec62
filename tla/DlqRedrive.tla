----------------------------- MODULE DlqRedrive -----------------------------
(***************************************************************************)
(* The operator's dead-letter redrive of one audio command:                *)
(* RocketMqDlqRedrive.run (apps/api/src/dlq-redrive.ts) over the           *)
(* reflo_*_audio_redrive functions of migration 20260730000100.  A run     *)
(* receives a batch of dead-letter records and, record by record, rejects  *)
(* it, or claims the redrive, publishes the command again, records that    *)
(* and acknowledges the record.                                            *)
(*                                                                         *)
(* The command lives in copies, from the relay or from a redrive; each is  *)
(* worked on and acknowledged or dead-lettered by the consumer of module   *)
(* AudioOperation, of which only the operation's state is kept here.       *)
(***************************************************************************)
EXTENDS Naturals, FiniteSets

CONSTANTS
    Copies,      \* bound: copies of the command ever published
    NoCopy,
    Operators,   \* redrive commands that can run at a time
    LeaseOwner,  \* REFLO_REDRIVE_LEASE_OWNER of each
    NoOwner,     \* SQL NULL in lease_owner
    Requests,    \* [key, reason]: the arguments operators use
    BatchSize    \* records received at once

Reasons == {"configuration_repaired", "provider_recovered", "transient_dependency_recovered"}

ASSUME RedriveAssumption ==
    /\ IsFiniteSet(Copies) /\ NoCopy \notin Copies /\ IsFiniteSet(Operators)
    /\ \A o \in Operators : LeaseOwner[o] # NoOwner
    /\ \A q \in Requests : q.reason \in Reasons
    /\ BatchSize \in Nat \ {0}

VARIABLES
    op,          \* async_operation.state, with the retryable failure class
    standing,    \* deadline_at is ahead, and course, source, scope and
                 \* membership allow the work
    outbox,      \* the command's outbox row: pending or published
    copy,        \* copy[c]: where the copy, or its dead-letter record, is
    deliveries,  \* deliveries[c]: receipts of its dead-letter record
    shape,       \* shape[c]: what EventBridge's wrapper holds
    redriven,    \* copies published by a redrive
    request,     \* the row of rocketmq_redrive_request
    audit,       \* rows of rocketmq_redrive_audit
    pc,          \* pc[o]: the call run is at
    run,         \* run[o]: its arguments
    todo,        \* todo[o]: records of its batch still ahead
    current      \* current[o]: the record it is at

opVars == <<op, standing, outbox>>
dbVars == <<request, audit>>
queueVars == <<copy, deliveries, shape, redriven>>
runVars == <<pc, run, todo, current>>
vars == <<opVars, queueVars, dbVars, runVars>>

Keys == {q.key : q \in Requests}

(* retry_infra is retry_scheduled after infrastructure_unavailable;        *)
(* retry_other after adapter_unavailable or provider_failure.  These are   *)
(* all the classes recordFailure schedules a retry for.  orphaned is       *)
(* processing after the invocation that claimed it was lost.               *)
OpStates == {"queued", "processing", "orphaned", "retry_infra", "retry_other", "final"}

NoRequest == [state |-> "none", key |-> "none", reason |-> "none",
              owner |-> NoOwner, lease |-> "none", tries |-> 0]
Unleased(state, q, tries) ==
    [state |-> state, key |-> q.key, reason |-> q.reason,
     owner |-> NoOwner, lease |-> "none", tries |-> tries]
Event(key, kind, n) == [key |-> key, kind |-> kind, n |-> n]

Init ==
    /\ op = "queued" /\ standing = TRUE /\ outbox = "pending"
    /\ copy = [c \in Copies |-> "absent"]
    /\ deliveries = [c \in Copies |-> 0]
    /\ shape = [c \in Copies |-> "exact"]
    /\ redriven = {}
    /\ request = NoRequest /\ audit = {}
    /\ pc = [o \in Operators |-> "idle"]
    /\ run \in [Operators -> Requests]
    /\ todo = [o \in Operators |-> {}]
    /\ current = [o \in Operators |-> NoCopy]

-----------------------------------------------------------------------------
(* The relay sends the command until its row is marked (OutboxRelay). *)
RelaySend(c) ==
    /\ outbox = "pending" /\ copy[c] = "absent"
    /\ copy' = [copy EXCEPT ![c] = "topic"]
    /\ outbox' \in {"pending", "published"}
    /\ UNCHANGED <<op, standing, deliveries, shape, redriven, dbVars, runVars>>

(* An invocation pushed a copy claims or finishes the operation; the one   *)
(* that holds it ends or is lost, whatever became of its copy.             *)
Work ==
    /\ \/ /\ op \notin {"processing", "final"}
          /\ \E c \in Copies : copy[c] = "topic"
          /\ op' \in {"processing", "final"}
       \/ /\ op = "processing"
          /\ op' \in {"retry_infra", "retry_other", "final", "orphaned"}
    /\ UNCHANGED <<standing, outbox, queueVars, dbVars, runVars>>

(* The consumer acknowledges a copy of a finished operation, or EventBridge *)
(* has exhausted its retries and wraps the copy into a dead-letter record. *)
Leave(c) ==
    /\ copy[c] = "topic"
    /\ \/ op = "final" /\ copy' = [copy EXCEPT ![c] = "acked"] /\ UNCHANGED shape
       \/ /\ copy' = [copy EXCEPT ![c] = "dead"]
          /\ \E s \in {"exact", "changed", "malformed"} : shape' = [shape EXCEPT ![c] = s]
    /\ UNCHANGED <<opVars, deliveries, redriven, dbVars, runVars>>

(* The deadline passes, or the course, scope or membership is withdrawn. *)
Forfeit ==
    /\ standing /\ standing' = FALSE
    /\ UNCHANGED <<op, outbox, queueVars, dbVars, runVars>>

(* The invisibility of a received record ends.  The operator group retries *)
(* once; there is no queue behind it.                                      *)
Reappear(c) ==
    /\ copy[c] = "held"
    /\ copy' = [copy EXCEPT ![c] = IF deliveries[c] < 2 THEN "dead" ELSE "lost"]
    /\ UNCHANGED <<opVars, deliveries, shape, redriven, dbVars, runVars>>

RedriveLapse ==
    /\ request.lease = "live"
    /\ request' = [request EXCEPT !.lease = "lapsed"]
    /\ UNCHANGED <<opVars, queueVars, audit, runVars>>

-----------------------------------------------------------------------------
(* run: receive a batch.  A record delivered before is left alone: the     *)
(* retry guard, MAX_OPERATOR_DELIVERY_NUMBER = 1.                          *)
Receive(o) ==
    /\ pc[o] = "idle"
    /\ \E batch \in SUBSET {c \in Copies : copy[c] = "dead"}, q \in Requests :
         /\ batch # {} /\ Cardinality(batch) <= BatchSize
         /\ copy' = [c \in Copies |-> IF c \in batch THEN "held" ELSE copy[c]]
         /\ deliveries' = [c \in Copies |->
                             IF c \in batch THEN deliveries[c] + 1 ELSE deliveries[c]]
         /\ run' = [run EXCEPT ![o] = q]
         /\ LET fresh == {c \in batch : deliveries[c] = 0}
            IN /\ todo' = [todo EXCEPT ![o] = fresh]
               /\ pc' = [pc EXCEPT ![o] = IF fresh = {} THEN "idle" ELSE "next"]
    /\ UNCHANGED <<opVars, shape, redriven, dbVars, current>>

Goto(o, call) ==
    /\ pc' = [pc EXCEPT ![o] = call]
    /\ UNCHANGED <<run, todo, current>>

(* The loop goes on to the next record, or the command ends. *)
Continue(o) ==
    /\ pc' = [pc EXCEPT ![o] = IF todo[o] = {} THEN "idle" ELSE "next"]
    /\ current' = [current EXCEPT ![o] = NoCopy]
    /\ UNCHANGED <<run, todo>>

Take(o) ==
    /\ pc[o] = "next"
    /\ \E c \in todo[o] :
         /\ todo' = [todo EXCEPT ![o] = @ \ {c}]
         /\ current' = [current EXCEPT ![o] = c]
         /\ pc' = [pc EXCEPT ![o] =
                     IF shape[c] = "malformed" THEN "ack_invalid" ELSE "inspect"]
    /\ UNCHANGED <<opVars, queueVars, dbVars, run>>

(* reflo_inspect_audio_redrive finds no rejection class. *)
Redrivable ==
    /\ standing /\ outbox = "published"
    /\ op \in {"queued", "retry_infra"}

(* Mutant of Inspect: an ineligible record is dropped without a rejection. *)
InspectDropping(o) ==
    /\ pc[o] = "inspect"
    /\ Goto(o, IF Redrivable /\ shape[current[o]] = "exact" THEN "claim" ELSE "ack_rejected")
    /\ UNCHANGED <<opVars, queueVars, dbVars>>

Inspect(o) ==
    /\ pc[o] = "inspect"
    /\ Goto(o, IF Redrivable /\ shape[current[o]] = "exact" THEN "claim" ELSE "reject")
    /\ UNCHANGED <<opVars, queueVars, dbVars>>

(* reflo_reject_audio_redrive: the request becomes rejected, unless it is  *)
(* stored under another key.  Its result is ignored.                       *)
Reject(o) ==
    /\ pc[o] = "reject"
    /\ LET q == run[o]
       IN /\ request' = IF request.state = "none"
                           THEN Unleased("rejected", q, 0)
                         ELSE IF request.key = q.key
                           THEN Unleased("rejected", request, request.tries)
                         ELSE request
          /\ audit' = IF /\ request'.key = q.key
                         /\ \A e \in audit : e.key = q.key => e.kind # "rejected"
                        THEN audit \cup {Event(q.key, "rejected", request'.tries)}
                        ELSE audit
    /\ Goto(o, "ack_rejected")
    /\ UNCHANGED <<opVars, queueVars>>

(* What reflo_claim_audio_redrive asks of the operation, given the reason. *)
Eligible(reason) ==
    /\ Redrivable
    /\ \/ op = "queued" /\ reason \in {"configuration_repaired", "provider_recovered"}
       \/ op = "retry_infra" /\ reason = "configuration_repaired"

(* Mutant of SameRequest: key and reason are not compared. *)
AnyRequest(q) == TRUE

SameRequest(q) == request.key = q.key /\ request.reason = q.reason

(* The claim is granted: authorized once, then attempted once more. *)
Claimed(o) ==
    /\ request' = [state |-> "authorized", key |-> run[o].key, reason |-> run[o].reason,
                   owner |-> LeaseOwner[o], lease |-> "live", tries |-> request.tries + 1]
    /\ audit' = audit \cup {Event(run[o].key, "authorized", 0),
                            Event(run[o].key, "publication_attempted", request.tries + 1)}

Claim(o) ==
    /\ pc[o] = "claim"
    /\ \/ /\ ~Eligible(run[o].reason)
          /\ Goto(o, "reject") /\ UNCHANGED dbVars
       \/ /\ Eligible(run[o].reason)
          /\ request.state # "none"
          /\ ~SameRequest(run[o]) \/ (request.state = "authorized" /\ request.lease = "live")
          /\ Continue(o) /\ UNCHANGED dbVars
       \/ /\ Eligible(run[o].reason) /\ SameRequest(run[o])
          /\ request.state \in {"published", "rejected"}
          /\ Goto(o, IF request.state = "published" THEN "ack_published" ELSE "ack_rejected")
          /\ UNCHANGED dbVars
       \/ /\ Eligible(run[o].reason)
          /\ request.state = "none"
               \/ (SameRequest(run[o]) /\ request.state = "authorized" /\ request.lease # "live")
          /\ Claimed(o)
          /\ Goto(o, "publish")
    /\ UNCHANGED <<opVars, queueVars>>

(* Mutant of Publish: the receipt of a failed send is not checked. *)
PublishUnchecked(o) ==
    /\ pc[o] = "publish"
    /\ Goto(o, "mark")
    /\ UNCHANGED <<opVars, queueVars, dbVars>>

(* publisher.publish: the broker takes the copy and its receipt arrives,   *)
(* or not, or the send fails.                                              *)
Publish(o) ==
    /\ pc[o] = "publish"
    /\ \/ /\ \E c \in Copies :
               /\ copy[c] = "absent"
               /\ copy' = [copy EXCEPT ![c] = "topic"]
               /\ redriven' = redriven \cup {c}
          /\ Goto(o, "mark") \/ Goto(o, "release")
       \/ Goto(o, "release") /\ UNCHANGED <<copy, redriven>>
    /\ UNCHANGED <<opVars, deliveries, shape, dbVars>>

Owns(o) ==
    request.state = "authorized" /\ request.key = run[o].key /\ request.owner = LeaseOwner[o]

(* Mutant of Mark: the published request keeps its lease. *)
MarkKeepingLease(o) ==
    /\ pc[o] = "mark"
    /\ IF Owns(o) /\ request.lease = "live"
         THEN /\ request' = [request EXCEPT !.state = "published"]
              /\ audit' = audit \cup {Event(request.key, "published", request.tries)}
              /\ Goto(o, "ack_published")
         ELSE Continue(o) /\ UNCHANGED dbVars
    /\ UNCHANGED <<opVars, queueVars>>

Mark(o) ==
    /\ pc[o] = "mark"
    /\ IF Owns(o) /\ request.lease = "live"
         THEN /\ request' = Unleased("published", request, request.tries)
              /\ audit' = audit \cup {Event(request.key, "published", request.tries)}
              /\ Goto(o, "ack_published")
         ELSE Continue(o) /\ UNCHANGED dbVars
    /\ UNCHANGED <<opVars, queueVars>>

Release(o) ==
    /\ pc[o] = "release"
    /\ IF Owns(o)
         THEN /\ request' = Unleased(request.state, request, request.tries)
              /\ audit' = audit \cup {Event(request.key, "publication_failed", request.tries)}
         ELSE UNCHANGED dbVars
    /\ Continue(o)
    /\ UNCHANGED <<opVars, queueVars>>

Acks == {"ack_invalid", "ack_rejected", "ack_published"}

(* record.acknowledge, while its receipt is valid. *)
Acknowledge(o) ==
    /\ pc[o] \in Acks
    /\ copy[current[o]] = "held" /\ deliveries[current[o]] = 1
    /\ copy' = [copy EXCEPT ![current[o]] = "settled"]
    /\ Continue(o)
    /\ UNCHANGED <<opVars, deliveries, shape, redriven, dbVars>>

(* The command ends early: killed, or a call it awaits rejects, such as an *)
(* acknowledgement whose receipt is no longer valid.                       *)
Crash(o) ==
    /\ pc[o] # "idle"
    /\ pc' = [pc EXCEPT ![o] = "idle"]
    /\ todo' = [todo EXCEPT ![o] = {}]
    /\ current' = [current EXCEPT ![o] = NoCopy]
    /\ UNCHANGED <<opVars, queueVars, dbVars, run>>

Step(o) ==
    \/ Receive(o) \/ Take(o) \/ Inspect(o) \/ Reject(o) \/ Claim(o) \/ Publish(o)
    \/ Mark(o) \/ Release(o) \/ Acknowledge(o) \/ Crash(o)

Next ==
    \/ Work \/ Forfeit \/ RedriveLapse
    \/ \E c \in Copies : RelaySend(c) \/ Leave(c) \/ Reappear(c)
    \/ \E o \in Operators : Step(o)

Spec == Init /\ [][Next]_vars

-----------------------------------------------------------------------------
Kinds == {"authorized", "publication_attempted", "publication_failed", "published", "rejected"}
Calls == {"idle", "next", "inspect", "reject", "claim", "publish", "mark", "release"} \cup Acks

(* The values of every variable, with the CHECK constraints of the request *)
(* row: owner and expiry are NULL together and a final request has none.   *)
TypeOK ==
    /\ op \in OpStates /\ standing \in BOOLEAN
    /\ outbox \in {"pending", "published"}
    /\ copy \in [Copies -> {"absent", "topic", "acked", "dead", "held", "settled", "lost"}]
    /\ deliveries \in [Copies -> 0..2]
    /\ shape \in [Copies -> {"exact", "changed", "malformed"}]
    /\ redriven \subseteq Copies
    /\ request \in [state : {"none", "authorized", "published", "rejected"},
                    key : Keys \cup {"none"}, reason : Reasons \cup {"none"},
                    owner : {LeaseOwner[o] : o \in Operators} \cup {NoOwner},
                    lease : {"none", "live", "lapsed"}, tries : Nat]
    /\ audit \subseteq [key : Keys, kind : Kinds, n : Nat]
    /\ pc \in [Operators -> Calls] /\ run \in [Operators -> Requests]
    /\ todo \in [Operators -> SUBSET Copies]
    /\ current \in [Operators -> Copies \cup {NoCopy}]
    /\ (request.owner = NoOwner) <=> (request.lease = "none")
    /\ request.state # "authorized" => request.lease = "none"

(* Every republication was authorized and attempted under the stored key,  *)
(* and no attempt republishes twice: the broker has at most one redriven   *)
(* copy for each audited attempt, however runs overlap, crash and repeat.  *)
(* And what the request has come to is in its trail: the last attempt as   *)
(* published, or as failed when its claim was released; or a rejection.    *)
RedrivesAudited ==
    /\ Cardinality(redriven) <= request.tries
    /\ \A e \in audit : e.kind # "rejected" => e.key = request.key
    /\ \A n \in 1..request.tries : Event(request.key, "publication_attempted", n) \in audit
    /\ redriven # {} => Event(request.key, "authorized", 0) \in audit
    /\ request.state = "published" => Event(request.key, "published", request.tries) \in audit
    /\ request.state = "authorized" /\ request.owner = NoOwner =>
         Event(request.key, "publication_failed", request.tries) \in audit
    /\ request.state = "rejected" =>
         \E e \in audit : e.key = request.key /\ e.kind = "rejected"

(* An attempt is never audited both as published and as failed, and only   *)
(* what the broker accepted is audited as published: "an exception,        *)
(* timeout, invalid receipt ... cannot record success" (ADR 0046:191).     *)
OneVerdict ==
    \A e \in audit : e.kind = "published" =>
        /\ redriven # {}
        /\ Event(e.key, "publication_failed", e.n) \notin audit

(* A record is acknowledged only behind an audited decision: as published  *)
(* when the audit says so under the operator's key, as rejected when the   *)
(* stored request, if it has that key, has a rejected event.               *)
AckedIsAudited ==
    \A o \in Operators :
        LET audited(kind) == \E e \in audit : e.key = run[o].key /\ e.kind = kind
        IN /\ pc[o] = "ack_published" => audited("published")
           /\ pc[o] = "ack_rejected" /\ request.key = run[o].key => audited("rejected")

(* The audit tells what was done: which copies were published again, with  *)
(* one verdict for an attempt, and why a record was acknowledged.          *)
AuditTells == TypeOK /\ RedrivesAudited /\ OneVerdict /\ AckedIsAudited
=============================================================================

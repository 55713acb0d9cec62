-------------------------- MODULE DlqRedriveProofs --------------------------
(***************************************************************************)
(* Theorems about the dead-letter redrive, for any number of operator      *)
(* commands, copies and requests, any batch size and any assignment of     *)
(* lease owners: the commands of a deployment share one.                   *)
(***************************************************************************)
EXTENDS MCBackgroundWork, FiniteSetTheorems, TLAPS

(* A record is received at most twice: it is received when dead, and goes  *)
(* back there once.                                                        *)
DeliveriesOK ==
    \A c \in Copies :
        /\ copy[c] \in {"absent", "topic", "acked"} => deliveries[c] = 0
        /\ copy[c] = "dead" => deliveries[c] < 2
        /\ copy[c] = "held" => deliveries[c] > 0

(* What the request row and the audit say of one another.  There is no     *)
(* event without a request; an attempt without a verdict still has its     *)
(* owner, one whose owner released it has failed, and a final state has    *)
(* its event.                                                              *)
RequestOK ==
    /\ request.state = "none" => request = NoRequest /\ audit = {}
    /\ request.tries > 0 => Event(request.key, "authorized", 0) \in audit
    /\ \A n \in 1..request.tries :
          Event(request.key, "publication_attempted", n) \in audit
    /\ \A e \in audit : e.kind # "rejected" => e.key = request.key
    /\ \A e \in audit : e.n <= request.tries
    /\ request.owner # NoOwner =>
          \A e \in audit : e.kind \in {"published", "publication_failed"} => e.n < request.tries
    /\ request.state \in {"published", "rejected"} =>
          \E e \in audit : e.key = request.key /\ e.kind = request.state
    /\ request.state = "published" => Event(request.key, "published", request.tries) \in audit
    /\ request.state = "authorized" /\ request.owner = NoOwner =>
          Event(request.key, "publication_failed", request.tries) \in audit

(* Beyond the calls that read it, a command has seen the stored request;   *)
(* one that marks the publication was told that the broker accepted it.    *)
Beyond == {"publish", "mark", "release", "ack_rejected", "ack_published"}
RunsOK ==
    \A o \in Operators :
        /\ pc[o] \in Beyond => request.state # "none"
        /\ pc[o] = "mark" => redriven # {}

(* An attempt pays for one publication: a command at publish has one to    *)
(* come, every redriven copy had one.                                      *)
Publishing == {o \in Operators : pc[o] = "publish"}
AttemptsPay == Cardinality(redriven) + Cardinality(Publishing) <= request.tries

RedriveInv ==
    /\ TypeOK /\ DeliveriesOK
    /\ RequestOK /\ RunsOK /\ AttemptsPay
    /\ OneVerdict /\ AckedIsAudited
-----------------------------------------------------------------------------
(* The initial state satisfies the invariant. *)
LEMMA InitRedrive == Init => RedriveInv
<1> SUFFICES ASSUME Init PROVE RedriveInv
  OBVIOUS
<1> USE DEF Init, NoRequest
<1>1. TypeOK
  BY DEF TypeOK, OpStates, Calls
<1>2. DeliveriesOK
  BY DEF DeliveriesOK
<1>3. RequestOK
  BY DEF RequestOK
<1>4. RunsOK
  BY DEF RunsOK, Beyond
<1>5. AttemptsPay
  <2>1. redriven = {} /\ Publishing = {}
    BY DEF Publishing
  <2> QED
    BY <2>1, FS_EmptySet DEF AttemptsPay
<1>6. OneVerdict /\ AckedIsAudited
  BY DEF OneVerdict, AckedIsAudited
<1> QED
  BY <1>1, <1>2, <1>3, <1>4, <1>5, <1>6 DEF RedriveInv

-----------------------------------------------------------------------------
(* What a step of a command writes to the two tables: nothing, or one of   *)
(* the writes of reject, claim, mark and release.                          *)
Rejects(o) == pc[o] = "reject" /\ Reject(o)
Claims(o) ==
    /\ pc[o] = "claim" /\ pc' = [pc EXCEPT ![o] = "publish"]
    /\ \/ request.state = "none"
       \/ SameRequest(run[o]) /\ request.state = "authorized" /\ request.lease # "live"
    /\ Claimed(o)
Marks(o) ==
    /\ pc[o] = "mark" /\ Owns(o) /\ request.lease = "live"
    /\ Mark(o)
Releases(o) == pc[o] = "release" /\ Owns(o) /\ Release(o)

(* The steps that write the tables: a lapse, and the calls of an operator *)
(* that find what they need. *)
LEMMA Writes ==
    ASSUME [Next]_vars
    PROVE  \/ UNCHANGED dbVars
           \/ RedriveLapse
           \/ \E o \in Operators : Rejects(o) \/ Claims(o) \/ Marks(o) \/ Releases(o)
<1>1. ASSUME NEW o \in Operators, Claim(o) PROVE UNCHANGED dbVars \/ Claims(o)
  BY <1>1 DEF Claim, Claims, Goto
<1>2. ASSUME NEW o \in Operators, Mark(o) PROVE UNCHANGED dbVars \/ Marks(o)
  BY <1>2 DEF Mark, Marks
<1>3. ASSUME NEW o \in Operators, Release(o) PROVE UNCHANGED dbVars \/ Releases(o)
  BY <1>3 DEF Release, Releases
<1>4. ASSUME NEW o \in Operators, Step(o)
      PROVE UNCHANGED dbVars \/ Rejects(o) \/ Claims(o) \/ Marks(o) \/ Releases(o)
  BY <1>1, <1>2, <1>3, <1>4
     DEF Step, Receive, Take, Inspect, Reject, Rejects, Publish, Acknowledge, Crash
<1>5. ASSUME NEW c \in Copies, RelaySend(c) \/ Leave(c) \/ Reappear(c) PROVE UNCHANGED dbVars
  BY <1>5 DEF RelaySend, Leave, Reappear
<1>6. ASSUME Work \/ Forfeit \/ UNCHANGED vars PROVE UNCHANGED dbVars
  BY <1>6 DEF Work, Forfeit, vars
<1> QED
  BY <1>4, <1>5, <1>6 DEF Next

(* A step keeps what the request row and the audit say of one another. *)
LEMMA RequestStep == TypeOK /\ RequestOK /\ [Next]_vars => RequestOK'
<1> SUFFICES ASSUME TypeOK, RequestOK, [Next]_vars PROVE RequestOK'
  OBVIOUS
<1> USE DEF Event, Unleased
<1>1. CASE UNCHANGED dbVars
  BY <1>1 DEF RequestOK, dbVars
<1>2. CASE RedriveLapse
  BY <1>2 DEF RequestOK, RedriveLapse, TypeOK, NoRequest
<1>3. ASSUME NEW o \in Operators, Rejects(o) PROVE RequestOK'
  <2> DEFINE q == run[o]
  <2>1. CASE request.state = "none"
    <3>1. /\ request'.state = "rejected" /\ request'.key = q.key
          /\ request'.tries = 0 /\ request'.owner = NoOwner
      BY <1>3, <2>1 DEF Rejects, Reject
    <3>2. audit' = {Event(q.key, "rejected", 0)}
      BY <1>3, <2>1 DEF Rejects, Reject, RequestOK
    <3>3. 1..request'.tries = {}
      BY <3>1
    <3> QED
      BY <3>1, <3>2, <3>3 DEF RequestOK
  <2>2. CASE request.state # "none" /\ request.key = q.key
    <3>1. /\ request'.state = "rejected" /\ request'.key = request.key
          /\ request'.tries = request.tries /\ request'.owner = NoOwner
          /\ \/ audit' = audit
             \/ audit' = audit \cup {Event(request.key, "rejected", request.tries)}
      BY <1>3, <2>2 DEF Rejects, Reject
    <3>2. \E e \in audit' : e.key = request.key /\ e.kind = "rejected"
      <4>1. CASE \E e \in audit : e.key = q.key /\ e.kind = "rejected"
        BY <3>1, <4>1, <2>2
      <4>2. CASE \A e \in audit : e.key = q.key => e.kind # "rejected"
        <5>1. Event(request.key, "rejected", request.tries) \in audit'
          BY <1>3, <2>2, <3>1, <4>2 DEF Rejects, Reject
        <5> QED
          BY <5>1
      <4> QED
        BY <4>1, <4>2
    <3>3. /\ audit \subseteq audit'
          /\ \A e \in audit' : e \in audit \/ e = Event(request.key, "rejected", request.tries)
      BY <3>1
    <3>4. request.tries \in Nat
      BY DEF TypeOK
    <3> QED
      <4>1. request.tries > 0 => Event(request.key, "authorized", 0) \in audit'
        BY <3>3 DEF RequestOK
      <4>2. \A n \in 1..request.tries : Event(request.key, "publication_attempted", n) \in audit'
        BY <3>3 DEF RequestOK
      <4>3. \A e \in audit' : e.kind # "rejected" => e.key = request.key
        BY <3>3 DEF RequestOK, Event
      <4>4. \A e \in audit' : e.n <= request.tries
        BY <3>3, <3>4 DEF RequestOK, Event
      <4> QED
        BY <3>1, <3>2, <4>1, <4>2, <4>3, <4>4 DEF RequestOK
  <2>3. CASE request.state # "none" /\ request.key # q.key
    BY <1>3, <2>3 DEF Rejects, Reject, RequestOK
  <2> QED
    BY <2>1, <2>2, <2>3
<1>4. ASSUME NEW o \in Operators, Claims(o) PROVE RequestOK'
  <2>1. request'.state = "authorized" /\ request'.owner # NoOwner
    BY <1>4, RedriveAssumption DEF Claims, Claimed
  <2> QED
    BY <1>4, <2>1 DEF Claims, Claimed, SameRequest, RequestOK, TypeOK, NoRequest
<1>5. ASSUME NEW o \in Operators, Marks(o) PROVE RequestOK'
  <2>1. /\ request'.state = "published" /\ request'.key = request.key
        /\ request'.tries = request.tries /\ request'.owner = NoOwner
        /\ audit' = audit \cup {Event(request.key, "published", request.tries)}
    BY <1>5 DEF Marks, Mark
  <2>2. request.state # "none"
    BY <1>5 DEF Marks, Owns
  <2> QED
    BY <2>1, <2>2 DEF RequestOK, TypeOK
<1>6. ASSUME NEW o \in Operators, Releases(o) PROVE RequestOK'
  <2>1. /\ request'.state = request.state /\ request'.key = request.key
        /\ request'.tries = request.tries /\ request'.owner = NoOwner
        /\ audit' = audit \cup {Event(request.key, "publication_failed", request.tries)}
    BY <1>6 DEF Releases, Release
  <2>2. request.state = "authorized"
    BY <1>6 DEF Releases, Owns
  <2> QED
    BY <2>1, <2>2 DEF RequestOK, TypeOK
<1> QED
  BY <1>1, <1>2, <1>3, <1>4, <1>5, <1>6, Writes
-----------------------------------------------------------------------------
(* Where a command goes next. *)
LEMMA CallsStep ==
    ASSUME TypeOK, NEW o \in Operators, Step(o)
    PROVE  /\ pc' \in [Operators -> Calls]
           /\ \A p \in Operators \ {o} : pc'[p] = pc[p] /\ run'[p] = run[p]
           /\ todo' \in [Operators -> SUBSET Copies]
           /\ current' \in [Operators -> Copies \cup {NoCopy}]
           /\ run' \in [Operators -> Requests]
           /\ pc[o] # "idle" => run' = run
<1> USE DEF TypeOK, Calls, Acks, Goto, Continue
<1>1. CASE Receive(o)
  BY <1>1 DEF Receive
<1>2. CASE Take(o)
  BY <1>2 DEF Take
<1>3. CASE Inspect(o) \/ Reject(o) \/ Publish(o)
  BY <1>3 DEF Inspect, Reject, Publish
<1>4. CASE Claim(o)
  BY <1>4 DEF Claim
<1>5. CASE Mark(o) \/ Release(o)
  BY <1>5 DEF Mark, Release
<1>6. CASE Acknowledge(o) \/ Crash(o)
  BY <1>6 DEF Acknowledge, Crash
<1> QED
  BY <1>1, <1>2, <1>3, <1>4, <1>5, <1>6 DEF Step

(* The request row and the audit keep their types; owner and expiry are    *)
(* NULL together, and a final request has none.                            *)
Rows == [state : {"none", "authorized", "published", "rejected"},
         key : Keys \cup {"none"}, reason : Reasons \cup {"none"},
         owner : {LeaseOwner[o] : o \in Operators} \cup {NoOwner},
         lease : {"none", "live", "lapsed"}, tries : Nat]
TablesOK ==
    /\ request \in Rows
    /\ audit \subseteq [key : Keys, kind : Kinds, n : Nat]
    /\ (request.owner = NoOwner) <=> (request.lease = "none")
    /\ request.state # "authorized" => request.lease = "none"

(* The tables keep their types and CHECK constraints. *)
LEMMA TablesStep == TypeOK /\ [Next]_vars => TablesOK'
<1> SUFFICES ASSUME TypeOK, [Next]_vars PROVE TablesOK'
  OBVIOUS
<1> USE RedriveAssumption DEF TablesOK, Rows, Kinds
<1>0. TablesOK
  BY DEF TypeOK
<1>1. CASE UNCHANGED dbVars
  BY <1>0, <1>1 DEF dbVars
<1>2. CASE RedriveLapse
  BY <1>0, <1>2 DEF RedriveLapse
<1>3. ASSUME NEW o \in Operators
      PROVE  /\ run[o] \in Requests /\ run[o].key \in Keys /\ run[o].reason \in Reasons
             /\ LeaseOwner[o] \in {LeaseOwner[p] : p \in Operators} /\ LeaseOwner[o] # NoOwner
  BY DEF Keys, TypeOK
<1>4. ASSUME NEW o \in Operators, Rejects(o) PROVE TablesOK'
  <2>1. request' \in {Unleased("rejected", run[o], 0), request,
                      Unleased("rejected", request, request.tries)}
    BY <1>4 DEF Rejects, Reject
  <2>2. /\ request' \in Rows /\ ((request'.owner = NoOwner) <=> (request'.lease = "none"))
        /\ (request'.state # "authorized" => request'.lease = "none")
    BY <1>0, <1>3, <2>1 DEF Unleased
  <2>3. audit' \in {audit, audit \cup {Event(run[o].key, "rejected", request'.tries)}}
    BY <1>4 DEF Rejects, Reject
  <2>4. Event(run[o].key, "rejected", request'.tries) \in [key : Keys, kind : Kinds, n : Nat]
    BY <1>3, <2>2 DEF Event
  <2>5. audit' \subseteq [key : Keys, kind : Kinds, n : Nat]
    BY <1>0, <2>3, <2>4
  <2> QED
    BY <2>2, <2>5
<1>5. ASSUME NEW o \in Operators, Claims(o) PROVE TablesOK'
  <2>1. request' \in Rows /\ request'.owner # NoOwner /\ request'.lease = "live"
        /\ request'.state = "authorized"
    BY <1>0, <1>3, <1>5 DEF Claims, Claimed
  <2>2. audit' = audit \cup {Event(run[o].key, "authorized", 0),
                             Event(run[o].key, "publication_attempted", request.tries + 1)}
    BY <1>5 DEF Claims, Claimed
  <2>3. /\ Event(run[o].key, "authorized", 0) \in [key : Keys, kind : Kinds, n : Nat]
        /\ Event(run[o].key, "publication_attempted", request.tries + 1)
             \in [key : Keys, kind : Kinds, n : Nat]
    BY <1>0, <1>3 DEF Event
  <2>4. audit' \subseteq [key : Keys, kind : Kinds, n : Nat]
    BY <1>0, <2>2, <2>3
  <2> QED
    BY <2>1, <2>4
<1>6. ASSUME NEW o \in Operators, Marks(o) \/ Releases(o) PROVE TablesOK'
  <2>1. PICK kind \in {"published", "publication_failed"} :
          /\ request' \in {Unleased("published", request, request.tries),
                           Unleased(request.state, request, request.tries)}
          /\ audit' = audit \cup {Event(request.key, kind, request.tries)}
    BY <1>6 DEF Marks, Mark, Releases, Release
  <2>2. /\ request' \in Rows /\ request'.owner = NoOwner /\ request'.lease = "none"
    BY <1>0, <2>1 DEF Unleased
  <2>3. request.key \in Keys
    BY <1>3, <1>6 DEF Marks, Releases, Owns
  <2>4. Event(request.key, kind, request.tries) \in [key : Keys, kind : Kinds, n : Nat]
    BY <1>0, <2>3 DEF Event
  <2>5. audit' \subseteq [key : Keys, kind : Kinds, n : Nat]
    BY <1>0, <2>1, <2>4
  <2> QED
    BY <2>2, <2>5
<1> QED
  BY <1>1, <1>2, <1>4, <1>5, <1>6, Writes

(* Every step keeps the types, and the count of a record's receipts. *)
LEMMA TypeStep == TypeOK /\ DeliveriesOK /\ [Next]_vars => TypeOK' /\ DeliveriesOK'
<1> SUFFICES ASSUME TypeOK, DeliveriesOK, [Next]_vars PROVE TypeOK' /\ DeliveriesOK'
  OBVIOUS
<1> DEFINE Lives == {"absent", "topic", "acked", "dead", "held", "settled", "lost"}
<1> DEFINE QueueOK ==
      /\ op' \in OpStates /\ standing' \in BOOLEAN /\ outbox' \in {"pending", "published"}
      /\ copy' \in [Copies -> Lives] /\ deliveries' \in [Copies -> 0..2]
      /\ shape' \in [Copies -> {"exact", "changed", "malformed"}]
      /\ redriven' \subseteq Copies /\ DeliveriesOK'
<1> DEFINE CallOK ==
      /\ pc' \in [Operators -> Calls] /\ run' \in [Operators -> Requests]
      /\ todo' \in [Operators -> SUBSET Copies]
      /\ current' \in [Operators -> Copies \cup {NoCopy}]
<1>1. QueueOK
  <2> USE DEF TypeOK, DeliveriesOK
  <2>1. CASE Work
    BY <2>1 DEF Work, OpStates, queueVars
  <2>2. CASE Forfeit \/ RedriveLapse
    BY <2>2 DEF Forfeit, RedriveLapse, queueVars, opVars
  <2>3. ASSUME NEW c \in Copies, RelaySend(c) PROVE QueueOK
    BY <2>3 DEF RelaySend
  <2>4. ASSUME NEW c \in Copies, Leave(c) PROVE QueueOK
    BY <2>4 DEF Leave, opVars
  <2>5. ASSUME NEW c \in Copies, Reappear(c) PROVE QueueOK
    BY <2>5 DEF Reappear, opVars
  <2>6. ASSUME NEW o \in Operators, Receive(o) PROVE QueueOK
    BY <2>6 DEF Receive, opVars
  <2>7. ASSUME NEW o \in Operators, Publish(o) PROVE QueueOK
    BY <2>7 DEF Publish, opVars
  <2>8. ASSUME NEW o \in Operators, Acknowledge(o) PROVE QueueOK
    BY <2>8 DEF Acknowledge, opVars
  <2>9. ASSUME NEW o \in Operators,
               \/ Take(o) \/ Inspect(o) \/ Reject(o) \/ Claim(o) \/ Mark(o)
               \/ Release(o) \/ Crash(o)
        PROVE QueueOK
    BY <2>9 DEF Take, Inspect, Reject, Claim, Mark, Release, Crash, opVars, queueVars
  <2>10. CASE UNCHANGED vars
    BY <2>10 DEF vars, opVars, queueVars
  <2> QED
    BY <2>1, <2>2, <2>3, <2>4, <2>5, <2>6, <2>7, <2>8, <2>9, <2>10 DEF Next, Step
<1>2. CallOK
  <2>1. ASSUME NEW o \in Operators, Step(o) PROVE CallOK
    BY <2>1, CallsStep
  <2>2. CASE ~ \E o \in Operators : Step(o)
    <3>1. UNCHANGED runVars
      BY <2>2 DEF Next, Work, Forfeit, RedriveLapse, RelaySend, Leave, Reappear, vars
    <3> QED
      BY <3>1 DEF TypeOK, runVars
  <2> QED
    BY <2>1, <2>2
<1>3. TablesOK'
  BY TablesStep
<1> QED
  BY <1>1, <1>2, <1>3 DEF TypeOK, TablesOK, Rows

-----------------------------------------------------------------------------
(* What only grows: a stored request keeps its key, and no attempt, event  *)
(* or redriven copy is taken back.                                         *)
LEMMA Grows ==
    ASSUME TypeOK, [Next]_vars
    PROVE  /\ request.state # "none" => request'.state # "none" /\ request'.key = request.key
           /\ audit \subseteq audit'
           /\ redriven \subseteq redriven'
<1>1. /\ request.state # "none" => request'.state # "none" /\ request'.key = request.key
      /\ audit \subseteq audit'
  <2>1. CASE UNCHANGED dbVars
    BY <2>1 DEF dbVars
  <2>2. CASE RedriveLapse
    BY <2>2 DEF RedriveLapse, TypeOK
  <2>3. ASSUME NEW o \in Operators, Rejects(o) PROVE <1>1
    BY <2>3 DEF Rejects, Reject, Unleased
  <2>4. ASSUME NEW o \in Operators, Claims(o) PROVE <1>1
    BY <2>4 DEF Claims, Claimed, SameRequest
  <2>5. ASSUME NEW o \in Operators, Marks(o) \/ Releases(o) PROVE <1>1
    BY <2>5 DEF Marks, Mark, Releases, Release, Owns, Unleased
  <2> QED
    BY <2>1, <2>2, <2>3, <2>4, <2>5, Writes
<1>2. redriven \subseteq redriven'
  BY DEF Next, Step, Work, Forfeit, RedriveLapse, RelaySend, Leave, Reappear, Receive, Take,
         Inspect, Reject, Claim, Publish, Mark, Release, Acknowledge, Crash, queueVars, vars
<1> QED
  BY <1>1, <1>2

(* How a command gets beyond reading the request. *)
LEMMA Arrives ==
    ASSUME TypeOK, [Next]_vars, NEW p \in Operators, pc'[p] \in Beyond
    PROVE  /\ run'[p] = run[p]
           /\ \/ pc'[p] = pc[p]
              \/ pc[p] = "claim" /\ pc'[p] = "publish" /\ Claims(p)
              \/ pc[p] = "publish" /\ pc'[p] = "mark" /\ redriven' # {}
              \/ pc[p] = "publish" /\ pc'[p] = "release"
              \/ pc[p] = "reject" /\ pc'[p] = "ack_rejected" /\ Rejects(p)
              \/ pc[p] = "mark" /\ pc'[p] = "ack_published" /\ Marks(p)
              \/ /\ pc[p] = "claim" /\ UNCHANGED dbVars /\ SameRequest(run[p])
                 /\ \/ pc'[p] = "ack_published" /\ request.state = "published"
                    \/ pc'[p] = "ack_rejected" /\ request.state = "rejected"
<1> DEFINE Goal ==
           /\ run'[p] = run[p]
           /\ \/ pc'[p] = pc[p]
              \/ pc[p] = "claim" /\ pc'[p] = "publish" /\ Claims(p)
              \/ pc[p] = "publish" /\ pc'[p] = "mark" /\ redriven' # {}
              \/ pc[p] = "publish" /\ pc'[p] = "release"
              \/ pc[p] = "reject" /\ pc'[p] = "ack_rejected" /\ Rejects(p)
              \/ pc[p] = "mark" /\ pc'[p] = "ack_published" /\ Marks(p)
              \/ /\ pc[p] = "claim" /\ UNCHANGED dbVars /\ SameRequest(run[p])
                 /\ \/ pc'[p] = "ack_published" /\ request.state = "published"
                    \/ pc'[p] = "ack_rejected" /\ request.state = "rejected"
<1> USE DEF TypeOK, Beyond, Goto, Continue
<1>1. CASE ~ Step(p)
  <2>1. ASSUME NEW o \in Operators \ {p}, Step(o) PROVE Goal
    BY <2>1, CallsStep
  <2>2. CASE ~ \E o \in Operators : Step(o)
    BY <2>2 DEF Next, Work, Forfeit, RedriveLapse, RelaySend, Leave, Reappear, vars, runVars
  <2> QED
    BY <2>1, <2>2, <1>1
<1>2. CASE Receive(p)
  BY <1>2 DEF Receive
<1>3. CASE Take(p) \/ Inspect(p) \/ Crash(p) \/ Acknowledge(p)
  BY <1>3 DEF Take, Inspect, Crash, Acknowledge, Acks
<1>4. CASE Reject(p)
  BY <1>4 DEF Reject, Rejects
<1>5. CASE Claim(p)
  BY <1>5 DEF Claim, Claims, dbVars
<1>6. CASE Publish(p)
  BY <1>6 DEF Publish
<1>7. CASE Mark(p)
  BY <1>7 DEF Mark, Marks
<1>8. CASE Release(p)
  BY <1>8 DEF Release
<1> QED
  BY <1>1, <1>2, <1>3, <1>4, <1>5, <1>6, <1>7, <1>8 DEF Step

(* A command stays behind what it has read: a stored request stays stored. *)
LEMMA RunsStep == TypeOK /\ RunsOK /\ [Next]_vars => RunsOK'
<1> SUFFICES ASSUME TypeOK, RunsOK, [Next]_vars, NEW p \in Operators, pc'[p] \in Beyond
             PROVE  /\ request'.state # "none"
                    /\ pc'[p] = "mark" => redriven' # {}
  BY DEF RunsOK, Beyond
<1>1. request'.state # "none"
  <2>1. CASE pc[p] \in Beyond
    BY <2>1, Grows DEF RunsOK
  <2>2. CASE Claims(p)
    BY <2>2 DEF Claims, Claimed
  <2>3. CASE Rejects(p)
    BY <2>3 DEF Rejects, Reject, Unleased
  <2>4. CASE UNCHANGED dbVars /\ request.state \in {"published", "rejected"}
    BY <2>4 DEF dbVars
  <2> QED
    BY <2>1, <2>2, <2>3, <2>4, Arrives DEF Beyond
<1>2. pc'[p] = "mark" => redriven' # {}
  BY Arrives, Grows DEF RunsOK
<1> QED
  BY <1>1, <1>2

(* AckedIsAudited: the audited decision a command acts on is stored before *)
(* it acknowledges, and events are not taken back.                         *)
LEMMA AckedStep ==
    TypeOK /\ RequestOK /\ RunsOK /\ AckedIsAudited /\ [Next]_vars => AckedIsAudited'
<1> SUFFICES ASSUME TypeOK, RequestOK, RunsOK, AckedIsAudited, [Next]_vars,
                    NEW p \in Operators, pc'[p] \in {"ack_published", "ack_rejected"}
             PROVE  /\ pc'[p] = "ack_published" =>
                         \E e \in audit' : e.key = run'[p].key /\ e.kind = "published"
                    /\ pc'[p] = "ack_rejected" /\ request'.key = run'[p].key =>
                         \E e \in audit' : e.key = run'[p].key /\ e.kind = "rejected"
  BY DEF AckedIsAudited
<1>1. run'[p] = run[p]
  BY Arrives DEF Beyond
<1>2. CASE pc'[p] = pc[p]
  <2>1. request'.key = request.key
    BY <1>2, Grows DEF RunsOK, Beyond
  <2> QED
    BY <1>1, <1>2, <2>1, Grows DEF AckedIsAudited
<1>3. CASE pc'[p] = "ack_rejected" /\ Rejects(p)
  <2>1. CASE \E e \in audit : e.key = run[p].key /\ e.kind = "rejected"
    BY <1>1, <1>3, <2>1, Grows
  <2>2. CASE \A e \in audit : e.key = run[p].key => e.kind # "rejected"
    <3>1. request'.key = run[p].key
          => Event(run[p].key, "rejected", request'.tries) \in audit'
      BY <1>3, <2>2 DEF Rejects, Reject
    <3> QED
      BY <1>1, <1>3, <3>1 DEF Event
  <2> QED
    BY <2>1, <2>2
<1>4. CASE pc'[p] = "ack_published" /\ Marks(p)
  <2>1. Event(request.key, "published", request.tries) \in audit' /\ request.key = run[p].key
    BY <1>4 DEF Marks, Mark, Owns
  <2> QED
    BY <1>1, <1>4, <2>1 DEF Event
<1>5. CASE /\ UNCHANGED dbVars /\ SameRequest(run[p])
           /\ \/ pc'[p] = "ack_published" /\ request.state = "published"
              \/ pc'[p] = "ack_rejected" /\ request.state = "rejected"
  BY <1>1, <1>5 DEF RequestOK, SameRequest, dbVars
<1> QED
  BY <1>2, <1>3, <1>4, <1>5, Arrives DEF Beyond

(* OneVerdict: an attempt with its owner has no verdict, and the verdict   *)
(* takes the owner away.                                                   *)
LEMMA VerdictStep ==
    TypeOK /\ RequestOK /\ RunsOK /\ OneVerdict /\ [Next]_vars => OneVerdict'
<1> SUFFICES ASSUME TypeOK, RequestOK, RunsOK, OneVerdict, [Next]_vars PROVE OneVerdict'
  OBVIOUS
<1> USE DEF Event
<1>1. redriven # {} => redriven' # {}
  BY Grows
<1>2. CASE audit' = audit
  BY <1>1, <1>2 DEF OneVerdict
<1>3. ASSUME NEW o \in Operators, Rejects(o) PROVE OneVerdict'
  <2>1. \A e \in audit' : e \in audit \/ e.kind = "rejected"
    BY <1>3 DEF Rejects, Reject
  <2> QED
    BY <1>1, <2>1 DEF OneVerdict
<1>4. ASSUME NEW o \in Operators, Claims(o) PROVE OneVerdict'
  <2>1. \A e \in audit' : e \in audit \/ e.kind \in {"authorized", "publication_attempted"}
    BY <1>4 DEF Claims, Claimed
  <2> QED
    BY <1>1, <2>1 DEF OneVerdict
<1>5. ASSUME NEW o \in Operators, Marks(o) PROVE OneVerdict'
  <2>1. \A e \in audit' : e \in audit \/ e = Event(request.key, "published", request.tries)
    BY <1>5 DEF Marks, Mark
  <2>2. redriven # {} /\ request.owner # NoOwner
    BY <1>5, RedriveAssumption DEF RunsOK, Marks, Owns
  <2>3. Event(request.key, "publication_failed", request.tries) \notin audit
    BY <2>2 DEF RequestOK, TypeOK
  <2> QED
    BY <1>1, <2>1, <2>2, <2>3 DEF OneVerdict
<1>6. ASSUME NEW o \in Operators, Releases(o) PROVE OneVerdict'
  <2>1. \A e \in audit' : e \in audit \/ e = Event(request.key, "publication_failed", request.tries)
    BY <1>6 DEF Releases, Release
  <2>2. request.owner # NoOwner
    BY <1>6, RedriveAssumption DEF Releases, Owns
  <2>3. \A e \in audit : e.kind = "published" => e.n < request.tries
    BY <2>2 DEF RequestOK
  <2>4. request.tries \in Nat
    BY DEF TypeOK
  <2> QED
    BY <1>1, <2>1, <2>3, <2>4 DEF OneVerdict
<1> QED
  BY <1>2, <1>3, <1>4, <1>5, <1>6, Writes DEF dbVars, RedriveLapse

-----------------------------------------------------------------------------
(* The commands at publish and the redriven copies can be counted.         *)
LEMMA PaymentsCount ==
    ASSUME TypeOK
    PROVE  /\ IsFiniteSet(Publishing) /\ Cardinality(Publishing) \in Nat
           /\ IsFiniteSet(redriven) /\ Cardinality(redriven) \in Nat
<1>1. Publishing \in SUBSET Operators /\ redriven \in SUBSET Copies
  BY DEF Publishing, TypeOK
<1> QED
  BY <1>1, RedriveAssumption, FS_Subset, FS_CardinalityType

(* No step forgets an attempt. *)
LEMMA TriesStep ==
    ASSUME TypeOK, RequestOK, [Next]_vars
    PROVE  request'.tries \in Nat /\ request'.tries >= request.tries
<1> USE DEF TypeOK
<1>1. CASE UNCHANGED dbVars
  BY <1>1 DEF dbVars
<1>2. CASE RedriveLapse
  BY <1>2 DEF RedriveLapse
<1>3. ASSUME NEW o \in Operators, Rejects(o)
      PROVE  request'.tries \in Nat /\ request'.tries >= request.tries
  BY <1>3 DEF Rejects, Reject, Unleased, RequestOK, NoRequest
<1>4. ASSUME NEW o \in Operators, Claims(o)
      PROVE  request'.tries \in Nat /\ request'.tries >= request.tries
  BY <1>4 DEF Claims, Claimed
<1>5. ASSUME NEW o \in Operators, Marks(o) \/ Releases(o)
      PROVE  request'.tries \in Nat /\ request'.tries >= request.tries
  BY <1>5 DEF Marks, Mark, Releases, Release, Unleased
<1> QED
  BY <1>1, <1>2, <1>3, <1>4, <1>5, Writes

(* A step that begins no publication and makes none leaves every attempt   *)
(* paid.                                                                   *)
LEMMA NoPayment ==
    ASSUME TypeOK, RequestOK, AttemptsPay, [Next]_vars,
           redriven' = redriven, Publishing' \subseteq Publishing
    PROVE  AttemptsPay'
<1>1. /\ Cardinality(Publishing') <= Cardinality(Publishing)
      /\ Cardinality(Publishing') \in Nat
  <2>1. Publishing' \in SUBSET Publishing
    OBVIOUS
  <2> QED
    BY <2>1, PaymentsCount, FS_Subset, FS_CardinalityType
<1>2. Cardinality(redriven') = Cardinality(redriven)
  OBVIOUS
<1> QED
  BY <1>1, <1>2, PaymentsCount, TriesStep DEF AttemptsPay, TypeOK

(* An attempt is authorized before its one publication. *)
LEMMA AttemptsStep == TypeOK /\ RequestOK /\ AttemptsPay /\ [Next]_vars => AttemptsPay'
<1> SUFFICES ASSUME TypeOK, RequestOK, AttemptsPay, [Next]_vars PROVE AttemptsPay'
  OBVIOUS
<1> USE DEF Goto, Continue
<1>1. ASSUME NEW o \in Operators, Claim(o), Claims(o) PROVE AttemptsPay'
  <2>1. /\ redriven' = redriven /\ o \notin Publishing
        /\ Publishing' = Publishing \cup {o}
        /\ request'.tries = request.tries + 1
    BY <1>1 DEF Claim, Claims, Claimed, Publishing, TypeOK, queueVars
  <2>2. Cardinality(Publishing') = Cardinality(Publishing) + 1
    BY <2>1, PaymentsCount, FS_AddElement
  <2>3. Cardinality(redriven') = Cardinality(redriven)
    BY <2>1
  <2> QED
    BY <2>1, <2>2, <2>3, PaymentsCount DEF AttemptsPay, TypeOK
<1>2. ASSUME NEW o \in Operators, Publish(o), redriven' # redriven PROVE AttemptsPay'
  <2>1. PICK c \in Copies : redriven' = redriven \cup {c}
    BY <1>2 DEF Publish
  <2>2. o \in Publishing /\ Publishing' = Publishing \ {o} /\ request' = request
    BY <1>2 DEF Publish, Publishing, TypeOK, dbVars
  <2>3. Cardinality(Publishing') = Cardinality(Publishing) - 1
    BY <2>2, PaymentsCount, FS_RemoveElement
  <2>4. /\ Cardinality(redriven') <= Cardinality(redriven) + 1
        /\ Cardinality(redriven') \in Nat
    <3>1. IsFiniteSet(redriven \cup {c})
      BY PaymentsCount, FS_AddElement
    <3> QED
      BY <2>1, <3>1, PaymentsCount, FS_AddElement, FS_CardinalityType
  <2> QED
    BY <2>2, <2>3, <2>4, PaymentsCount DEF AttemptsPay, TypeOK
<1>3. ASSUME NEW o \in Operators, Step(o), ~Claims(o), ~(Publish(o) /\ redriven' # redriven)
      PROVE AttemptsPay'
  <2>1. redriven' = redriven
    BY <1>3 DEF Step, Receive, Take, Inspect, Reject, Claim, Publish, Mark, Release,
                Acknowledge, Crash, queueVars
  <2>2. pc'[o] = "publish" => pc[o] = "publish"
    BY <1>3, Arrives DEF Beyond, Next
  <2>3. Publishing' \subseteq Publishing
    BY <1>3, <2>2, CallsStep DEF Publishing
  <2> QED
    BY <2>1, <2>3, NoPayment
<1>4. CASE ~ \E o \in Operators : Step(o)
  <2>1. redriven' = redriven /\ pc' = pc
    BY <1>4 DEF Next, Work, Forfeit, RedriveLapse, RelaySend, Leave, Reappear, vars, runVars,
                queueVars
  <2>2. Publishing' \subseteq Publishing
    BY <2>1 DEF Publishing
  <2> QED
    BY <2>1, <2>2, NoPayment
<1>5. ASSUME NEW o \in Operators, Step(o), Claims(o) PROVE Claim(o)
  BY <1>5 DEF Step, Claims, Receive, Take, Inspect, Reject, Publish, Mark, Release,
              Acknowledge, Crash, TypeOK, Acks
<1> QED
  BY <1>1, <1>2, <1>3, <1>4, <1>5

(* A step keeps the invariant. *)
LEMMA NextRedrive == RedriveInv /\ [Next]_vars => RedriveInv'
  BY TypeStep, RequestStep, RunsStep, AttemptsStep, VerdictStep, AckedStep DEF RedriveInv

(* The attempts pay for the redriven copies, and the trail tells the rest. *)
LEMMA PaidFor == RedriveInv => RedrivesAudited
<1> SUFFICES ASSUME RedriveInv PROVE RedrivesAudited
  OBVIOUS
<1>1. Cardinality(redriven) <= request.tries
  BY PaymentsCount DEF RedriveInv, AttemptsPay, TypeOK
<1>2. redriven # {} => request.tries > 0
  BY <1>1, PaymentsCount, FS_EmptySet DEF RedriveInv, TypeOK
<1> QED
  BY <1>1, <1>2 DEF RedriveInv, RequestOK, RedrivesAudited

(* The inductive invariant holds in every state of the redrive. *)
THEOREM RedriveInvariant == Spec => []RedriveInv
  BY InitRedrive, NextRedrive, PTL DEF Spec

(* RocketMqDlqRedrive.run over the audit functions: however commands that  *)
(* share a lease owner overlap, crash and repeat, every copy they publish  *)
(* is paid for by an authorized attempt of its own, and the trail has what *)
(* the request came to: its last attempt as published, or as failed when   *)
(* the claim was released, or a rejection.                                 *)
THEOREM EveryRedriveAudited == Spec => []RedrivesAudited
  BY RedriveInvariant, PaidFor, PTL

(* An attempt has one verdict, and only what the broker accepted is        *)
(* audited as published (reflo_mark_, reflo_release_audio_redrive).        *)
THEOREM OneVerdictEach == Spec => []OneVerdict
<1>1. RedriveInv => OneVerdict
  BY DEF RedriveInv
<1> QED
  BY <1>1, RedriveInvariant, PTL

(* AuditTells, what the run of overlapping redrives checks: the types, the *)
(* audited attempts, their verdicts and the decisions behind               *)
(* acknowledgements.                                                       *)
THEOREM AuditIsTrue == Spec => []AuditTells
<1>1. RedriveInv => AuditTells
  BY PaidFor DEF RedriveInv, AuditTells
<1> QED
  BY <1>1, RedriveInvariant, PTL

-----------------------------------------------------------------------------
(* Who records evidence, as the run composes it (Replay): from the lock of *)
(* knowledge_state to the end of its transaction, a call holds it.         *)
(***************************************************************************)

(* The call is between the lock and the end of its transaction. *)
Locking(w) == phase[w] \in {"locked", "replayed"}

(* The attempts of a set whose mark is evidence. *)
Counted(S) == {a \in S : mark[a] \in Replay!Eligible}

(* The rows and the calls, as far as the evidence is concerned. *)
EvidenceTyped ==
    /\ mark \in [Attempts -> Replay!Marks \cup {"none"}]
    /\ stored \subseteq Attempts /\ recorded \subseteq stored
    /\ \A a \in stored : mark[a] # "none"
    /\ holder \in Operators \cup {None}
    /\ phase \in [Operators -> {"idle", "started", "locked", "replayed"}]
    /\ job \in [Operators -> Attempts \cup {0}]
    /\ ledger \in [Operators -> SUBSET Attempts]

(* A call under way is about a marked attempt; the lock is with the call   *)
(* that is past it; and the ledger of that call, read before others        *)
(* committed attempts, has all that is recorded and the call's own.        *)
CallOK(w) ==
    /\ Locking(w) <=> holder = w
    /\ phase[w] # "idle" => job[w] \in Attempts /\ mark[job[w]] # "none"
    /\ Locking(w) => Counted(recorded \cup {job[w]}) \subseteq ledger[w]

(* The inductive invariant of the recording. *)
EvidenceInv == EvidenceTyped /\ RecordedIsSeen /\ \A w \in Operators : CallOK(w)

(* No evidence and no call: the invariant holds. *)
LEMMA InitEvidence == Replay!Init => EvidenceInv
  BY ScheduleBounds DEF Replay!Init, EvidenceInv, EvidenceTyped, RecordedIsSeen,
     Replay!RecordedIsSeen, CallOK, Locking

(* An attempt is committed: it had no mark, so nobody counted it before.   *)
LEMMA CommitAttemptEvidence ==
  ASSUME EvidenceInv, NEW a \in Attempts, NEW m \in Judgments, NEW rows \in BOOLEAN,
         Replay!CommitAttempt(a, m, rows)
  PROVE  EvidenceInv'
<1> USE DEF EvidenceInv, EvidenceTyped, CallOK, Locking, Counted, RecordedIsSeen,
            Replay!RecordedIsSeen
<1>1. /\ mark[a] = "none" /\ mark' = [mark EXCEPT ![a] = m]
      /\ stored' = IF rows THEN stored \cup {a} ELSE stored
  BY DEF Replay!CommitAttempt
<1>2. /\ knowledge' = knowledge /\ recorded' = recorded /\ holder' = holder
      /\ phase' = phase /\ job' = job /\ ledger' = ledger
  BY Zenon DEF Replay!CommitAttempt, Replay!callVars
<1>3. m \in Replay!Marks /\ m # "none" /\ "none" \notin Replay!Eligible
  BY ScheduleBounds DEF Replay!Marks, Replay!Eligible
<1>4. EvidenceTyped'
  BY <1>1, <1>2, <1>3
<1>5. \A b \in recorded : b # a /\ mark'[b] = mark[b]
  BY <1>1
<1>6. RecordedIsSeen'
  BY <1>2, <1>5
<1>7. ASSUME NEW w \in Operators PROVE CallOK(w)'
  <2>1. phase[w] # "idle" => job[w] # a /\ mark'[job[w]] = mark[job[w]]
    BY <1>1
  <2>2. QED
    BY <1>2, <1>5, <2>1
<1>8. QED
  BY <1>4, <1>6, <1>7

(* The preferences and overrides are rows of their own. *)
LEMMA OthersEvidence ==
  ASSUME EvidenceInv,
         UNCHANGED <<mark, stored, knowledge, recorded, holder, phase, job, ledger>>
  PROVE  EvidenceInv'
  BY DEF EvidenceInv, EvidenceTyped, CallOK, Locking, Counted, RecordedIsSeen,
         Replay!RecordedIsSeen

(* A call starts with an attempt that has its mark. *)
LEMMA StartEvidence ==
  ASSUME EvidenceInv, NEW w \in Operators, NEW a \in Attempts, Replay!Start(w, a)
  PROVE  EvidenceInv'
<1> USE DEF EvidenceInv, EvidenceTyped, CallOK, Locking, Counted, RecordedIsSeen,
            Replay!RecordedIsSeen
<1>1. /\ phase[w] = "idle" /\ mark[a] # "none"
      /\ phase' = [phase EXCEPT ![w] = "started"] /\ job' = [job EXCEPT ![w] = a]
  BY DEF Replay!Start
<1>2. /\ mark' = mark /\ stored' = stored /\ knowledge' = knowledge /\ recorded' = recorded
      /\ holder' = holder /\ ledger' = ledger
  BY Zenon DEF Replay!Start, Replay!rowVars
<1>3. ASSUME NEW v \in Operators PROVE CallOK(v)'
  BY <1>1, <1>2
<1>4. QED
  BY <1>1, <1>2, <1>3

(* A call takes the lock and reads all that is recorded by then. *)
LEMMA LockEvidence ==
  ASSUME EvidenceInv, NEW w \in Operators, Replay!LockAndRead(w)
  PROVE  EvidenceInv'
<1> USE DEF EvidenceInv, EvidenceTyped, CallOK, Locking, Counted, RecordedIsSeen,
            Replay!RecordedIsSeen
<1>1. /\ phase[w] = "started" /\ holder = None /\ holder' = w
      /\ ledger' = [ledger EXCEPT ![w] = Replay!Visible(job[w])]
      /\ phase' = [phase EXCEPT ![w] = "locked"]
  BY DEF Replay!LockAndRead
<1>2. /\ mark' = mark /\ stored' = stored /\ knowledge' = knowledge /\ recorded' = recorded
      /\ job' = job
  BY Zenon DEF Replay!LockAndRead, Replay!rowVars
<1>3. Replay!Visible(job[w]) = Counted(stored \cup {job[w]}) /\ job[w] \in Attempts
  BY <1>1 DEF Replay!Visible
<1>4. ASSUME NEW v \in Operators PROVE CallOK(v)'
  BY <1>1, <1>2, <1>3, ScheduleBounds
<1>5. QED
  BY <1>1, <1>2, <1>3, <1>4

(* The overrides are read: the call keeps its lock. *)
LEMMA ReadOverridesEvidence ==
  ASSUME EvidenceInv, NEW w \in Operators, Replay!ReadOverrides(w)
  PROVE  EvidenceInv'
<1> USE DEF EvidenceInv, EvidenceTyped, CallOK, Locking, Counted, RecordedIsSeen,
            Replay!RecordedIsSeen
<1>1. phase[w] = "locked" /\ phase' = [phase EXCEPT ![w] = "replayed"]
  BY DEF Replay!ReadOverrides
<1>2. /\ mark' = mark /\ stored' = stored /\ knowledge' = knowledge /\ recorded' = recorded
      /\ holder' = holder /\ job' = job /\ ledger' = ledger
  BY Zenon DEF Replay!ReadOverrides, Replay!rowVars
<1>3. QED
  BY <1>1, <1>2

(* A transaction ends and leaves its lock, if it has it. *)
LEMMA EndedEvidence ==
  ASSUME EvidenceInv, NEW w \in Operators, Replay!Ended(w)
  PROVE  /\ phase' = [phase EXCEPT ![w] = "idle"]
         /\ job' = [job EXCEPT ![w] = 0] /\ ledger' = [ledger EXCEPT ![w] = {}]
         /\ holder' = IF holder = w THEN None ELSE holder
  BY DEF Replay!Ended

(* A call that is rolled back leaves its lock. *)
LEMMA RollBackEvidence ==
  ASSUME EvidenceInv, NEW w \in Operators, Replay!RollBack(w)
  PROVE  EvidenceInv'
<1> USE DEF EvidenceInv, EvidenceTyped, CallOK, Locking, Counted, RecordedIsSeen,
            Replay!RecordedIsSeen
<1>1. Replay!Ended(w)
  BY DEF Replay!RollBack
<1>2. /\ mark' = mark /\ stored' = stored /\ knowledge' = knowledge /\ recorded' = recorded
  BY Zenon DEF Replay!RollBack, Replay!rowVars
<1>3. ASSUME NEW v \in Operators PROVE CallOK(v)'
  BY <1>1, <1>2, EndedEvidence, ScheduleBounds
<1>4. QED
  BY <1>1, <1>2, <1>3, EndedEvidence

(* A commit replaces the knowledge by one that has all that is recorded,   *)
(* and nobody else holds a ledger that would not have it.                  *)
LEMMA CommitEvidence ==
  ASSUME EvidenceInv, NEW w \in Operators, Replay!Commit(w)
  PROVE  EvidenceInv'
<1> USE DEF EvidenceInv, EvidenceTyped, CallOK, Locking, Counted, RecordedIsSeen,
            Replay!RecordedIsSeen
<1>1. /\ phase[w] = "replayed" /\ Replay!Ended(w)
      /\ stored' = stored \cup {job[w]} /\ recorded' = recorded \cup {job[w]}
  BY DEF Replay!Commit
<1>2. knowledge'.seen = ledger[w]
  BY DEF Replay!Commit
<1>3. mark' = mark
  BY DEF Replay!Commit
<1>4. holder = w /\ job[w] \in Attempts /\ mark[job[w]] # "none"
  BY <1>1
<1>5. EvidenceTyped'
  BY <1>1, <1>3, <1>4, EndedEvidence
<1>6. RecordedIsSeen'
  BY <1>1, <1>2, <1>3
<1>7. ASSUME NEW v \in Operators PROVE CallOK(v)'
  <2>1. CASE v = w
    BY <1>1, <1>4, <2>1, EndedEvidence, ScheduleBounds
  <2>2. CASE v # w
    BY <1>1, <1>3, <1>4, <2>2, EndedEvidence, ScheduleBounds
  <2>3. QED
    BY <2>1, <2>2
<1>8. QED
  BY <1>5, <1>6, <1>7

(* Every step keeps the invariant. *)
LEMMA NextEvidence ==
  ASSUME EvidenceInv, [Replay!Next]_(Replay!vars)
  PROVE  EvidenceInv'
<1>1. CASE UNCHANGED Replay!vars
  <2>1. UNCHANGED <<mark, stored, knowledge, recorded, holder, phase, job, ledger>>
    BY <1>1, Zenon DEF Replay!vars, Replay!rowVars, Replay!callVars
  <2>2. QED
    BY <2>1, OthersEvidence
<1>2. ASSUME NEW w \in Operators, Replay!Record(w) PROVE EvidenceInv'
  BY <1>2, StartEvidence, LockEvidence, ReadOverridesEvidence, CommitEvidence,
     RollBackEvidence, Zenon DEF Replay!Record
<1>3. ASSUME NEW p \in MCPreferences, Replay!ChangePreference(p) PROVE EvidenceInv'
  <2>1. UNCHANGED <<mark, stored, knowledge, recorded, holder, phase, job, ledger>>
    BY <1>3, Zenon DEF Replay!ChangePreference, Replay!callVars
  <2>2. QED
    BY <2>1, OthersEvidence
<1>4. ASSUME NEW o \in Overrides, Replay!AppendOverride(o) \/ Replay!CancelOverride(o)
      PROVE  EvidenceInv'
  <2>1. UNCHANGED <<mark, stored, knowledge, recorded, holder, phase, job, ledger>>
    BY <1>4, Zenon DEF Replay!AppendOverride, Replay!CancelOverride, Replay!callVars
  <2>2. QED
    BY <2>1, OthersEvidence
<1>5. QED
  BY <1>1, <1>2, <1>3, <1>4, CommitAttemptEvidence, Zenon DEF Replay!Next

(* No recorded evidence is lost, for any number of overlapping calls: the  *)
(* lock of knowledge_state is enough, although review_schedule is locked   *)
(* last and attempts are committed without any lock.                       *)
THEOREM EvidenceIsKept == Replay!Spec => []RecordedIsSeen
<1>1. EvidenceInv /\ [Replay!Next]_(Replay!vars) => EvidenceInv'
  BY NextEvidence
<1>2. EvidenceInv => RecordedIsSeen
  BY DEF EvidenceInv
<1>3. QED
  BY InitEvidence, <1>1, <1>2, PTL DEF Replay!Spec

=============================================================================

------------------------- MODULE QuizDeliveryProofs -------------------------
(***************************************************************************)
(* Theorems about the review messages of a learner, for any number of      *)
(* schedules, dispatches, keys, responders and answers, any batch size and *)
(* any lifetime of the links; and about the tutor, which goes on from what *)
(* was answered, for any number of tabs, concepts, lessons and attempts.   *)
(***************************************************************************)
EXTENDS QuizDelivery, TutorLoop, WellFoundedInduction, TLAPS

(* The values of the variables that the proofs compute with. *)
Statuses == {None, "pending", "processing", "submitted", "delivered", "failed"}
Sent == {"submitted", "delivered"}
Rows == [status : Statuses, items : SUBSET Schedules, expires : 0 .. MaxDay + Lifetime,
         holder : Calls \cup {None}, bound : BOOLEAN, redeemed : BOOLEAN]
Steps == {"idle", "reserve", "insert", "claim", "send", "submitted", "ambiguous", "refused", "over"}
CallSet == [pc : Steps, d : Deliveries \cup {None}, picks : SUBSET Schedules]
Choices == UNION {[S -> Answers] : S \in SUBSET Schedules}
Answerings == {<<>>} \cup Choices
UpdateSet == [d : Deliveries, s : Schedules, a : Answers]
Tasks == [pc : {"idle", "finalize", "commit", "record"}, sub : Submissions \cup {None},
          d : Deliveries \cup {None}, answers : Answerings,
          stored : SUBSET Schedules, todo : SUBSET Schedules, full : BOOLEAN]
Pages == [screen : {"closed", "ready", "invalid", "submitting", "submitted", "error"},
          d : Deliveries \cup {None}, answers : Answerings]
DispatchTypes ==
    /\ delivery \in [Deliveries -> Rows]
    /\ call \in [Calls -> CallSet]
    /\ accepted \in [Deliveries -> Nat]
    /\ now \in 0 .. MaxDay /\ provider \in Providers /\ due \subseteq Schedules
AnswerTypes ==
    /\ update \in [Updates -> UpdateSet \cup {NoUpdate}]
    /\ pending \subseteq {u \in Updates : update[u] # NoUpdate}
    /\ page \in Pages
    /\ attempt \in [Items -> Answers \cup {None}]
    /\ submission \in [Submissions -> Answerings \cup {None}]
    /\ responder \in [Responders -> Tasks]
    /\ days \subseteq 0 .. MaxDay + 1
    /\ streak \in [current : Nat, longest : Nat, last : Int]

(* A dispatch between the reservation and the end of the send holds its    *)
(* delivery, and knows whether the provider has taken it.                  *)
CallOK(c) ==
    LET d == call[c].d IN
    /\ call[c].pc \notin {"idle", "over"} => d \in Deliveries
    /\ call[c].pc = "insert" =>
         /\ delivery[d].status = None
         /\ \A e \in Deliveries : e[1] = d[1] /\ Live(e) => call[c].picks \cap delivery[e].items = {}
    /\ call[c].pc = "claim" => delivery[d].status # None
    /\ call[c].pc \in {"send", "submitted", "ambiguous", "refused"} => Holds(c)
    /\ call[c].pc \in {"send", "refused"} => accepted[d] = 0
    /\ call[c].pc = "submitted" => accepted[d] = 1
LockHeld ==
    \A b, c \in Calls : call[b].pc = "insert" /\ call[c].pc = "insert" /\ call[b].d[1] = call[c].d[1] => b = c
DeliveryOK(d) ==
    /\ delivery[d].holder # None <=> delivery[d].status = "processing"
    /\ delivery[d].bound \/ delivery[d].redeemed => d[1] = "email"
    /\ accepted[d] <= 1
    /\ delivery[d].status \in {None, "pending"} => accepted[d] = 0
    /\ delivery[d].status \in Sent => accepted[d] = 1
DispatchInv ==
    /\ DispatchTypes /\ LockHeld /\ OneLivePerProvider
    /\ \A c \in Calls : CallOK(c)
    /\ \A d \in Deliveries : DeliveryOK(d)

-----------------------------------------------------------------------------
(* What is written of a delivery: its whole row, or two of its columns. *)
LEMMA RowWritten ==
    ASSUME NEW rows \in [Deliveries -> Rows], NEW d \in Deliveries, NEW row \in Rows, NEW written,
           written = [rows EXCEPT ![d] = row]
    PROVE  /\ written \in [Deliveries -> Rows] /\ written[d] = row
           /\ \A e \in Deliveries : e # d => written[e] = rows[e]
  OBVIOUS

(* The call of a dispatch goes on, or ends. *)
LEMMA CallMoved ==
    ASSUME NEW given \in [Calls -> CallSet], NEW c \in Calls, NEW next \in CallSet, NEW moved,
           moved = [given EXCEPT ![c] = next]
    PROVE  /\ moved \in [Calls -> CallSet] /\ moved[c] = next
           /\ \A b \in Calls : b # c => moved[b] = given[b]
  OBVIOUS

(* A call whose step alone changes. *)
LEMMA CallSteps ==
    ASSUME NEW given \in [Calls -> CallSet], NEW c \in Calls, NEW pc \in Steps, NEW moved,
           moved = [given EXCEPT ![c].pc = pc]
    PROVE  /\ moved \in [Calls -> CallSet] /\ moved[c].pc = pc
           /\ moved[c].d = given[c].d /\ moved[c].picks = given[c].picks
           /\ \A b \in Calls : b # c => moved[b] = given[b]
  BY DEF CallSet

(* A call that is over. *)
LEMMA CallReturned ==
    ASSUME call \in [Calls -> CallSet], NEW c \in Calls, Returned(c)
    PROVE  /\ call' \in [Calls -> CallSet] /\ call'[c].pc = "over"
           /\ \A b \in Calls : b # c => call'[b] = call[b]
  BY DEF Returned, Over, NoCall, CallSet, Steps

-----------------------------------------------------------------------------
(* What a step leaves of the deliveries and of the dispatches that do not  *)
(* move: an unmade delivery is not in their way, a held one stays theirs.  *)
Quiet(d) ==
    /\ delivery'[d].status = delivery[d].status /\ delivery'[d].items = delivery[d].items
    /\ delivery'[d].expires = delivery[d].expires /\ delivery'[d].holder = delivery[d].holder
Settles(d) ==
    /\ Quiet(d) \/ /\ delivery[d].status \in Sent /\ delivery'[d].status = "delivered"
                   /\ delivery'[d].items = delivery[d].items
                   /\ delivery'[d].expires = delivery[d].expires
                   /\ delivery'[d].holder = delivery[d].holder
    /\ delivery'[d].bound = delivery[d].bound
    /\ delivery'[d].redeemed => delivery[d].redeemed \/ d[1] = "email"
NoNewLive ==
    \A e \in Deliveries : Live(e)' => Live(e) /\ delivery'[e].items = delivery[e].items

(* What a dispatch rests on while another actor moves. *)
LEMMA Bystander ==
    ASSUME DispatchTypes, DispatchTypes', NEW b \in Calls, CallOK(b), call'[b] = call[b],
           \A e \in Deliveries : delivery[e].status # None => delivery'[e].status # None,
           call[b].pc = "insert" =>
             /\ delivery'[call[b].d].status = None
             /\ \A e \in Deliveries : e[1] = call[b].d[1] /\ Live(e)' =>
                  Live(e) /\ delivery'[e].items = delivery[e].items,
           call[b].pc \in {"send", "submitted", "ambiguous", "refused"} =>
             Quiet(call[b].d) /\ accepted'[call[b].d] = accepted[call[b].d]
    PROVE  CallOK(b)'
<1>1. CASE call[b].pc = "insert"
  BY <1>1 DEF CallOK
<1>2. CASE call[b].pc # "insert"
  BY <1>2 DEF CallOK, Holds, Quiet
<1> QED
  BY <1>1, <1>2

(* Where no delivery becomes live, none comes to share a schedule. *)
LEMMA LiveKept ==
    ASSUME OneLivePerProvider, NoNewLive PROVE OneLivePerProvider'
  BY DEF OneLivePerProvider, NoNewLive

(* Where no dispatch moves, a delivery stays as it was or is delivered. *)
LEMMA RowsSettle ==
    ASSUME DispatchInv, DispatchTypes', now' >= now, accepted' = accepted,
           \A b \in Calls : call'[b] = call[b],
           \A d \in Deliveries : Settles(d)
    PROVE  DispatchInv'
<1>1. \A d \in Deliveries : DeliveryOK(d)'
  BY NullAssumption DEF DispatchInv, DeliveryOK, Settles, Quiet, Sent
<1>2. NoNewLive
  <2> USE DEF DispatchInv, DispatchTypes
  <2>1. \A d \in Deliveries : delivery[d].expires \in Int
    BY BoundsAssumption DEF Rows
  <2> QED
    BY <2>1 DEF NoNewLive, Live, Settles, Quiet
<1>3. \A b \in Calls : CallOK(b)'
  <2> SUFFICES ASSUME NEW b \in Calls PROVE CallOK(b)'
    OBVIOUS
  <2>1. call[b].pc \notin {"idle", "over"} => call[b].d \in Deliveries
    BY DEF DispatchInv, CallOK
  <2>2. \A d \in Deliveries : delivery[d].status # None => delivery'[d].status # None
    BY NullAssumption DEF Settles, Quiet
  <2>3. call[b].pc = "insert" => delivery'[call[b].d].status = None
    BY <2>1, NullAssumption DEF DispatchInv, CallOK, Settles, Quiet, Sent
  <2>4. call[b].pc \in {"send", "submitted", "ambiguous", "refused"} => Quiet(call[b].d)
    BY <2>1 DEF DispatchInv, CallOK, Holds, Settles, Sent
  <2> QED
    BY <1>2, <2>1, <2>2, <2>3, <2>4, Bystander DEF DispatchInv, NoNewLive
<1>4. OneLivePerProvider'
  BY <1>2, LiveKept DEF DispatchInv
<1>5. LockHeld'
  BY DEF LockHeld, DispatchInv
<1> QED
  BY <1>1, <1>3, <1>4, <1>5 DEF DispatchInv

-----------------------------------------------------------------------------
(* The steps of a dispatch.  Its types first. *)
LEMMA DispatchTyped ==
    ASSUME DispatchInv, NEW c \in Calls, Dispatching(c)
    PROVE  /\ DispatchTypes'
           /\ \A b \in Calls : b # c => call'[b] = call[b]
           /\ now' = now
<1> USE DEF DispatchInv, DispatchTypes
<1>0. call[c] \in CallSet /\ (call[c].pc \notin {"idle", "over"} => call[c].d \in Deliveries)
  BY DEF CallOK
<1>1. ASSUME NEW k \in Keys, StartDispatch(c, k) PROVE DispatchTypes' /\ \A b \in Calls : b # c => call'[b] = call[b]
  <2>1. [call[c] EXCEPT !.pc = "reserve", !.d = <<provider, k>>] \in CallSet
    BY <1>0 DEF CallSet, Steps, Deliveries
  <2>2. call' = [call EXCEPT ![c] = [call[c] EXCEPT !.pc = "reserve", !.d = <<provider, k>>]]
    BY <1>1 DEF StartDispatch
  <2> QED
    BY <1>1, <2>1, <2>2, CallMoved DEF StartDispatch
<1>2. CASE ReserveDueBatch(c)
  <2>1. CASE Returned(c)
    BY <1>2, <2>1, CallReturned DEF ReserveDueBatch
  <2>2. CASE call' = [call EXCEPT ![c] = [call[c] EXCEPT !.pc = "claim"]]
    <3>1. [call[c] EXCEPT !.pc = "claim"] \in CallSet
      BY <1>0 DEF CallSet, Steps
    <3> QED
      BY <1>2, <2>2, <3>1, CallMoved DEF ReserveDueBatch
  <2>3. ASSUME NEW P \in Picks, call' = [call EXCEPT ![c].pc = "insert", ![c].picks = P]
        PROVE  DispatchTypes' /\ \A b \in Calls : b # c => call'[b] = call[b]
    <3>1. P \in SUBSET Schedules
      BY DEF Picks, Available
    <3>2. [call[c] EXCEPT !.pc = "insert", !.picks = P] \in CallSet
      BY <1>0, <3>1 DEF CallSet, Steps
    <3>3. call' = [call EXCEPT ![c] = [call[c] EXCEPT !.pc = "insert", !.picks = P]]
      BY <2>3
    <3> QED
      BY <1>2, <3>2, <3>3, CallMoved DEF ReserveDueBatch
  <2> QED
    BY <1>2, <2>1, <2>2, <2>3 DEF ReserveDueBatch, Returned
<1>3. CASE InsertDelivery(c)
  <2> DEFINE row == [NoDelivery EXCEPT !.status = "pending", !.items = call[c].picks, !.expires = now + Lifetime]
  <2>0. now + Lifetime \in 0 .. MaxDay + Lifetime
    BY BoundsAssumption
  <2>1. row \in Rows
    BY <1>0, <2>0 DEF NoDelivery, Rows, Statuses, CallSet
  <2>2. delivery' = [delivery EXCEPT ![call[c].d] = row] /\ call[c].pc = "insert"
    BY <1>3 DEF InsertDelivery
  <2>3. call' = [call EXCEPT ![c] = [call[c] EXCEPT !.pc = "claim", !.picks = {}]]
    BY <1>3 DEF InsertDelivery
  <2>4. [call[c] EXCEPT !.pc = "claim", !.picks = {}] \in CallSet
    BY <1>0 DEF CallSet, Steps
  <2>5. delivery' \in [Deliveries -> Rows]
    BY <1>0, <2>1, <2>2, RowWritten
  <2> QED
    BY <1>3, <2>3, <2>4, <2>5, CallMoved DEF InsertDelivery
<1>4. CASE ClaimDispatch(c)
  <2>1. /\ delivery[call[c].d] \in Rows /\ call[c].d \in Deliveries
    BY <1>0, <1>4 DEF ClaimDispatch
  <2>2. Bound(call[c].d) \in Rows
    BY <2>1 DEF Bound, Rows
  <2>3. [Bound(call[c].d) EXCEPT !.status = "processing", !.holder = c] \in Rows
    BY <2>2 DEF Rows, Statuses
  <2>4. delivery' \in [Deliveries -> Rows]
    BY <1>4, <2>1, <2>2, <2>3, RowWritten DEF ClaimDispatch
  <2>5. call' \in [Calls -> CallSet] /\ \A b \in Calls : b # c => call'[b] = call[b]
    BY <1>4, CallReturned, CallSteps DEF ClaimDispatch, Steps
  <2> QED
    BY <1>4, <2>4, <2>5 DEF ClaimDispatch
<1>5. CASE Send(c)
  <2>1. PICK o \in Outcomes :
          /\ accepted' = [accepted EXCEPT ![call[c].d] = IF o.taken THEN @ + 1 ELSE @]
          /\ call' = [call EXCEPT ![c].pc = o.pc]
    BY <1>5 DEF Send
  <2>2. o.pc \in Steps
    BY DEF Outcomes, Steps
  <2>3. accepted' \in [Deliveries -> Nat]
    <3>1. CASE o.taken
      <4>1. accepted' = [accepted EXCEPT ![call[c].d] = accepted[call[c].d] + 1]
        BY <2>1, <3>1
      <4>2. call[c].d \in Deliveries
        BY <1>0, <1>5 DEF Send
      <4> QED
        BY <4>1, <4>2
    <3>2. CASE ~o.taken
      BY <2>1, <3>2
    <3> QED
      BY <3>1, <3>2
  <2> QED
    BY <1>5, <2>1, <2>2, <2>3, CallSteps DEF Send
<1>6. CASE MarkSubmitted(c)
  <2>1. CASE /\ delivery' = [delivery EXCEPT ![call[c].d].status = "submitted", ![call[c].d].holder = None]
             /\ Returned(c)
    <3>1. delivery' \in [Deliveries -> Rows]
      BY <1>0, <1>6, <2>1 DEF MarkSubmitted, Rows, Statuses
    <3> QED
      BY <1>6, <2>1, <3>1, CallReturned DEF MarkSubmitted
  <2>2. CASE call' = [call EXCEPT ![c].pc = "ambiguous"] /\ UNCHANGED delivery
    BY <1>6, <2>2, CallSteps DEF MarkSubmitted, Steps
  <2> QED
    BY <1>6, <2>1, <2>2 DEF MarkSubmitted
<1>7. CASE MarkDispatchFailed(c)
  <2>1. FailedStatus(call[c].pc) \in Statuses
    BY DEF FailedStatus, Statuses
  <2>2. delivery' \in [Deliveries -> Rows]
    BY <1>0, <1>7, <2>1 DEF MarkDispatchFailed, Rows
  <2> QED
    BY <1>7, <2>2, CallReturned DEF MarkDispatchFailed
<1>8. CASE StopDispatch(c)
  BY <1>8, CallReturned DEF StopDispatch
<1>9. now' = now
  BY DEF Dispatching, StartDispatch, ReserveDueBatch, InsertDelivery, ClaimDispatch, Send,
     MarkSubmitted, MarkDispatchFailed, StopDispatch
<1> QED
  BY <1>1, <1>2, <1>3, <1>4, <1>5, <1>6, <1>7, <1>8, <1>9 DEF Dispatching

(* A dispatch that writes no delivery goes on with what it knows. *)
LEMMA OnlyCall ==
    ASSUME DispatchInv, DispatchTypes', NEW c \in Calls, \A b \in Calls : b # c => call'[b] = call[b],
           delivery' = delivery, accepted' = accepted, now' = now, CallOK(c)',
           call'[c].pc = "insert" => \A b \in Calls : b # c /\ call[b].pc = "insert" =>
                                        call[b].d[1] # call'[c].d[1]
    PROVE  DispatchInv'
<1>1. \A d \in Deliveries : DeliveryOK(d)'
  BY DEF DispatchInv, DeliveryOK
<1>2. NoNewLive
  BY DEF NoNewLive, Live
<1>3. \A b \in Calls : CallOK(b)'
  <2> SUFFICES ASSUME NEW b \in Calls, b # c PROVE CallOK(b)'
    OBVIOUS
  <2>1. CallOK(b)
    BY DEF DispatchInv
  <2> QED
    BY <1>2, <2>1, Bystander DEF DispatchInv, Quiet, NoNewLive, CallOK
<1>4. OneLivePerProvider'
  BY <1>2, LiveKept DEF DispatchInv
<1>5. LockHeld'
  BY DEF LockHeld, DispatchInv
<1> QED
  BY <1>1, <1>3, <1>4, <1>5 DEF DispatchInv

(* A request starts. *)
LEMMA Starts ==
    ASSUME DispatchInv, NEW c \in Calls, NEW k \in Keys, StartDispatch(c, k)
    PROVE  DispatchInv'
<1>1. Dispatching(c)
  BY DEF Dispatching
<1>2. call[c] \in CallSet /\ call' = [call EXCEPT ![c].pc = "reserve", ![c].d = <<provider, k>>]
  BY DEF StartDispatch, DispatchInv, DispatchTypes
<1>3. call'[c].pc = "reserve" /\ call'[c].d = <<provider, k>> /\ <<provider, k>> \in Deliveries
  BY <1>2 DEF DispatchInv, DispatchTypes, CallSet, Deliveries
<1>4. CallOK(c)'
  BY <1>3 DEF CallOK
<1> QED
  BY <1>1, <1>3, <1>4, DispatchTyped, OnlyCall DEF StartDispatch

(* A dispatch ends, and writes nothing. *)
LEMMA Ended ==
    ASSUME DispatchInv, NEW c \in Calls, Dispatching(c), Returned(c), delivery' = delivery, accepted' = accepted
    PROVE  DispatchInv'
<1>1. call'[c].pc = "over"
  BY CallReturned DEF DispatchInv, DispatchTypes
<1>2. CallOK(c)'
  BY <1>1 DEF CallOK
<1> QED
  BY <1>1, <1>2, DispatchTyped, OnlyCall

(* The SELECT of reserveDueBatch, under the advisory lock. *)
LEMMA Reserves ==
    ASSUME DispatchInv, NEW c \in Calls, ReserveDueBatch(c)
    PROVE  DispatchInv'
<1> DEFINE d == call[c].d
<1>0. /\ call[c] \in CallSet /\ d \in Deliveries /\ DispatchTypes
      /\ delivery' = delivery /\ accepted' = accepted /\ now' = now /\ Dispatching(c)
  BY DEF ReserveDueBatch, DispatchInv, DispatchTypes, CallOK, Dispatching
<1>1. CASE Returned(c)
  BY <1>0, <1>1, Ended
<1>2. CASE call' = [call EXCEPT ![c] = [call[c] EXCEPT !.pc = "claim"]] /\ delivery[d].status = "pending"
  <2>1. call'[c].pc = "claim" /\ call'[c].d = d
    BY <1>0, <1>2 DEF DispatchTypes, CallSet
  <2>2. CallOK(c)'
    BY <1>0, <1>2, <2>1, NullAssumption DEF CallOK
  <2> QED
    BY <1>0, <2>1, <2>2, DispatchTyped, OnlyCall
<1>3. ASSUME NEW P \in Picks, call' = [call EXCEPT ![c].pc = "insert", ![c].picks = P],
             delivery[d].status = None
      PROVE  DispatchInv'
  <2>1. call'[c].pc = "insert" /\ call'[c].d = d /\ call'[c].picks = P
    BY <1>0, <1>3 DEF DispatchTypes, CallSet
  <2>2. \A e \in Deliveries : Live(e) => P \cap delivery[e].items = {}
    BY DEF Picks, Available
  <2>3. CallOK(c)'
    BY <1>0, <1>3, <2>1, <2>2 DEF CallOK, Live
  <2>4. \A b \in Calls : call[b].pc = "insert" => call[b].d[1] # d[1]
    BY DEF ReserveDueBatch, Unlocked
  <2> QED
    BY <1>0, <2>1, <2>3, <2>4, DispatchTyped, OnlyCall
<1> QED
  BY <1>1, <1>2, <1>3 DEF ReserveDueBatch, Returned

(* The reservation: its delivery becomes live, and shares no schedule. *)
LEMMA Inserts ==
    ASSUME DispatchInv, NEW c \in Calls, InsertDelivery(c)
    PROVE  DispatchInv'
<1> DEFINE d == call[c].d
           row == [NoDelivery EXCEPT !.status = "pending", !.items = call[c].picks, !.expires = now + Lifetime]
<1>0. /\ call[c] \in CallSet /\ d \in Deliveries /\ DispatchTypes /\ DispatchTypes' /\ CallOK(c)
      /\ call[c].pc = "insert" /\ delivery[d].status = None
      /\ \A b \in Calls : b # c => call'[b] = call[b]
      /\ accepted' = accepted /\ now' = now
  BY DispatchTyped DEF InsertDelivery, DispatchInv, DispatchTypes, CallOK, Dispatching
<1>1. /\ delivery'[d] = row /\ \A e \in Deliveries : e # d => delivery'[e] = delivery[e]
      /\ row.status = "pending" /\ row.items = call[c].picks /\ row.holder = None
      /\ row.bound = FALSE /\ row.redeemed = FALSE
  BY <1>0 DEF InsertDelivery, DispatchTypes, NoDelivery
<1>2. call'[c].pc = "claim" /\ call'[c].d = d
  BY <1>0 DEF InsertDelivery, DispatchTypes, CallSet
<1> HIDE DEF d, row
<1>3. CallOK(c)'
  BY <1>0, <1>1, <1>2, NullAssumption DEF CallOK
<1>4. \A e \in Deliveries : e # d /\ Live(e)' => Live(e) /\ delivery'[e].items = delivery[e].items
  BY <1>0, <1>1 DEF Live
<1>5. \A b \in Calls : CallOK(b)'
  <2> SUFFICES ASSUME NEW b \in Calls, b # c PROVE CallOK(b)'
    BY <1>3
  <2>1. CallOK(b) /\ call'[b] = call[b]
    BY <1>0 DEF DispatchInv
  <2>2. CASE call[b].pc = "insert"
    <3>1. call[b].d \in Deliveries /\ call[b].d[1] # d[1]
      BY <1>0, <2>1, <2>2 DEF CallOK, LockHeld, DispatchInv, d
    <3> QED
      BY <1>0, <1>1, <1>4, <2>1, <2>2, <3>1 DEF CallOK
  <2>3. CASE call[b].pc \in {"claim", "send", "submitted", "ambiguous", "refused"}
    <3>1. call[b].d \in Deliveries /\ call[b].d # d
      BY <1>0, <2>1, <2>3, NullAssumption DEF CallOK, Holds
    <3> QED
      BY <1>0, <1>1, <2>1, <2>3, <3>1 DEF CallOK, Holds
  <2> QED
    BY <2>1, <2>2, <2>3 DEF CallOK
<1>6. ASSUME NEW e \in Deliveries PROVE DeliveryOK(e)'
  <2>1. DeliveryOK(e)
    BY DEF DispatchInv
  <2>2. CASE e # d
    BY <1>0, <1>1, <2>1, <2>2 DEF DeliveryOK
  <2>3. CASE e = d
    BY <1>0, <1>1, <2>1, <2>3, NullAssumption DEF DeliveryOK, Sent
  <2> QED
    BY <2>2, <2>3
<1>7. OneLivePerProvider'
  <2> SUFFICES ASSUME NEW e \in Deliveries, NEW f \in Deliveries, e # f, e[1] = f[1], Live(e)', Live(f)'
               PROVE  delivery'[e].items \cap delivery'[f].items = {}
    BY DEF OneLivePerProvider
  <2>1. CASE e # d /\ f # d
    BY <1>1, <1>4, <2>1 DEF OneLivePerProvider, DispatchInv
  <2>2. \A g \in Deliveries : g # d /\ g[1] = d[1] /\ Live(g)' => call[c].picks \cap delivery[g].items = {}
    BY <1>0, <1>4 DEF CallOK, d
  <2> QED
    BY <1>1, <2>1, <2>2
<1>8. LockHeld'
  BY <1>0, <1>2 DEF LockHeld, DispatchInv
<1> QED
  BY <1>0, <1>5, <1>6, <1>7, <1>8 DEF DispatchInv

(* Where the row of one delivery is written, the others are as they were, *)
(* and no other dispatch holds it or is about to make it.                 *)
LEMMA OnlyRow ==
    ASSUME DispatchInv, DispatchTypes', NEW c \in Calls, \A b \in Calls : b # c => call'[b] = call[b],
           NEW d \in Deliveries, now' = now, CallOK(c)', DeliveryOK(d)',
           \A e \in Deliveries : e # d => delivery'[e] = delivery[e] /\ accepted'[e] = accepted[e],
           delivery[d].status # None /\ delivery'[d].status # None,
           delivery'[d].items = delivery[d].items,
           Live(d)' => Live(d),
           call'[c].pc # "insert",
           \A b \in Calls : b # c /\ call[b].pc \in {"send", "submitted", "ambiguous", "refused"} =>
              call[b].d # d \/ (Quiet(d) /\ accepted'[d] = accepted[d])
    PROVE  DispatchInv'
<1>1. \A e \in Deliveries : DeliveryOK(e)'
  <2> SUFFICES ASSUME NEW e \in Deliveries, e # d PROVE DeliveryOK(e)'
    OBVIOUS
  <2>1. DeliveryOK(e)
    BY DEF DispatchInv
  <2> QED
    BY <2>1 DEF DeliveryOK
<1>2. NoNewLive
  BY DEF NoNewLive, Live
<1>3. \A b \in Calls : CallOK(b)'
  <2> SUFFICES ASSUME NEW b \in Calls, b # c PROVE CallOK(b)'
    OBVIOUS
  <2>1. CallOK(b) /\ (call[b].pc \notin {"idle", "over"} => call[b].d \in Deliveries)
    BY DEF DispatchInv, CallOK
  <2>2. call[b].pc = "insert" => delivery'[call[b].d].status = None
    BY <2>1 DEF CallOK
  <2>3. call[b].pc \in {"send", "submitted", "ambiguous", "refused"} =>
             Quiet(call[b].d) /\ accepted'[call[b].d] = accepted[call[b].d]
    BY <2>1 DEF Quiet
  <2>4. \A e \in Deliveries : delivery[e].status # None => delivery'[e].status # None
    OBVIOUS
  <2> QED
    BY <1>2, <2>1, <2>2, <2>3, <2>4, Bystander DEF DispatchInv, NoNewLive
<1>4. OneLivePerProvider'
  BY <1>2, LiveKept DEF DispatchInv
<1>5. LockHeld'
  BY DEF LockHeld, DispatchInv
<1> QED
  BY <1>1, <1>3, <1>4, <1>5 DEF DispatchInv

(* claimDispatch: no other dispatch holds the delivery. *)
LEMMA Claims ==
    ASSUME DispatchInv, NEW c \in Calls, ClaimDispatch(c)
    PROVE  DispatchInv'
<1>a. PICK d \in Deliveries : d = call[c].d
  BY DEF ClaimDispatch, DispatchInv, CallOK
<1>0. /\ call[c] \in CallSet /\ d \in Deliveries /\ DispatchTypes /\ DispatchTypes' /\ CallOK(c)
      /\ call[c].pc = "claim" /\ delivery[d].status # None /\ DeliveryOK(d) /\ delivery[d] \in Rows
      /\ \A b \in Calls : b # c => call'[b] = call[b]
      /\ accepted' = accepted /\ now' = now
  BY <1>a, DispatchTyped DEF ClaimDispatch, DispatchInv, DispatchTypes, CallOK, Dispatching, Rows
<1>1. /\ Bound(d).status = delivery[d].status /\ Bound(d).items = delivery[d].items
      /\ Bound(d).expires = delivery[d].expires /\ Bound(d).holder = delivery[d].holder
      /\ Bound(d).redeemed = delivery[d].redeemed /\ (Bound(d).bound => d[1] = "email")
      /\ Bound(d) \in Rows
  BY <1>a, <1>0 DEF Bound, Rows
<1>2. CASE Claimable(delivery[d])
  <2> DEFINE row == [Bound(d) EXCEPT !.status = "processing", !.holder = c]
  <2>1. /\ row.status = "processing" /\ row.holder = c /\ row.items = delivery[d].items
        /\ row.expires = delivery[d].expires /\ row.redeemed = delivery[d].redeemed
        /\ (row.bound => d[1] = "email")
    BY <1>1 DEF Rows
  <2>2. delivery' = [delivery EXCEPT ![d] = row] /\ call' = [call EXCEPT ![c].pc = "send"]
    BY <1>a, <1>2 DEF ClaimDispatch
  <2>3. delivery'[d] = row /\ \A e \in Deliveries : e # d => delivery'[e] = delivery[e]
    BY <1>a, <1>0, <2>2 DEF DispatchTypes
  <2>4. call'[c].pc = "send" /\ call'[c].d = d
    BY <1>a, <1>0, <2>2 DEF DispatchTypes, CallSet
  <2>5. delivery[d].status = "pending" /\ accepted[d] = 0
    BY <1>a, <1>0, <1>2 DEF Claimable, DeliveryOK
  <2> HIDE DEF row
  <2>6. CallOK(c)'
    BY <1>a, <1>0, <2>1, <2>3, <2>4, <2>5 DEF CallOK, Holds
  <2>7. DeliveryOK(d)'
    BY <1>a, <1>0, <2>1, <2>3, <2>5, NullAssumption DEF DeliveryOK, Sent
  <2>8. Live(d)' => Live(d)
    BY <1>a, <1>0, <2>1, <2>3, <2>5 DEF Live
  <2>9. \A b \in Calls : b # c /\ call[b].pc \in {"send", "submitted", "ambiguous", "refused"} => call[b].d # d
    BY <2>5 DEF DispatchInv, CallOK, Holds
  <2> QED
    BY <1>a, <1>0, <2>1, <2>3, <2>4, <2>6, <2>7, <2>8, <2>9, NullAssumption, OnlyRow
<1>3. CASE ~Claimable(delivery[d])
  <2>1. delivery' = [delivery EXCEPT ![d] = Bound(d)] /\ Returned(c)
    BY <1>a, <1>3 DEF ClaimDispatch
  <2>2. delivery'[d] = Bound(d) /\ \A e \in Deliveries : e # d => delivery'[e] = delivery[e]
    BY <1>a, <1>0, <2>1 DEF DispatchTypes
  <2>3. call'[c].pc = "over"
    BY <1>a, <1>0, <2>1, CallReturned DEF DispatchTypes
  <2>4. CallOK(c)'
    BY <2>3 DEF CallOK
  <2>5. DeliveryOK(d)' /\ Quiet(d)
    BY <1>a, <1>0, <1>1, <2>2 DEF DeliveryOK, Quiet
  <2>6. Live(d)' => Live(d)
    BY <1>a, <1>0, <1>1, <2>2 DEF Live
  <2> QED
    BY <1>a, <1>0, <1>1, <2>2, <2>3, <2>4, <2>5, <2>6, OnlyRow
<1> QED
  BY <1>2, <1>3

(* The call of the provider: nothing was taken of it before. *)
LEMMA Sends ==
    ASSUME DispatchInv, NEW c \in Calls, Send(c)
    PROVE  DispatchInv'
<1>a. PICK d \in Deliveries : d = call[c].d
  BY DEF Send, DispatchInv, CallOK
<1>0. /\ call[c] \in CallSet /\ d \in Deliveries /\ DispatchTypes /\ DispatchTypes' /\ CallOK(c)
      /\ call[c].pc = "send" /\ DeliveryOK(d) /\ Holds(c) /\ accepted[d] = 0
      /\ \A b \in Calls : b # c => call'[b] = call[b]
      /\ delivery' = delivery /\ now' = now
  BY <1>a, DispatchTyped DEF Send, DispatchInv, DispatchTypes, CallOK, Dispatching
<1>1. PICK o \in Outcomes :
        /\ accepted' = [accepted EXCEPT ![d] = IF o.taken THEN @ + 1 ELSE @]
        /\ call' = [call EXCEPT ![c].pc = o.pc]
  BY <1>a DEF Send
<1>2. call'[c].pc = o.pc /\ call'[c].d = d
  BY <1>a, <1>0, <1>1 DEF DispatchTypes, CallSet
<1>3. /\ accepted'[d] = IF o.taken THEN 1 ELSE 0
      /\ \A e \in Deliveries : e # d => accepted'[e] = accepted[e]
  BY <1>a, <1>0, <1>1 DEF DispatchTypes
<1>4. /\ o.pc \in {"submitted", "ambiguous", "refused"}
      /\ (o.pc = "submitted" => o.taken) /\ (o.pc = "refused" => ~o.taken)
  BY DEF Outcomes
<1>5. delivery[d].status = "processing" /\ delivery[d].holder = c
  BY <1>a, <1>0 DEF Holds
<1>6. CallOK(c)'
  BY <1>a, <1>0, <1>2, <1>3, <1>4, <1>5 DEF CallOK, Holds
<1>7. DeliveryOK(d)'
  BY <1>a, <1>0, <1>3, <1>5, NullAssumption DEF DeliveryOK, Sent
<1>8. Live(d)' => Live(d)
  BY <1>a, <1>0 DEF Live
<1>9. \A b \in Calls : b # c /\ call[b].pc \in {"send", "submitted", "ambiguous", "refused"} => call[b].d # d
  BY <1>5 DEF DispatchInv, CallOK, Holds
<1> QED
  BY <1>a, <1>0, <1>2, <1>3, <1>4, <1>5, <1>6, <1>7, <1>8, <1>9, NullAssumption, OnlyRow

(* The holder of a delivery lets it go. *)
LEMMA LetsGo ==
    ASSUME DispatchInv, NEW c \in Calls, Dispatching(c), Returned(c), Holds(c),
           call[c].pc \in {"submitted", "ambiguous", "refused"}, accepted' = accepted,
           NEW sent \in {"pending", "submitted", "failed"},
           sent = "pending" => call[c].pc = "refused",
           sent = "submitted" => call[c].pc = "submitted",
           delivery' = [delivery EXCEPT ![call[c].d].status = sent, ![call[c].d].holder = None]
    PROVE  DispatchInv'
<1>a. PICK d \in Deliveries : d = call[c].d
  BY DEF DispatchInv, CallOK
<1>0. /\ d \in Deliveries /\ DispatchTypes /\ DispatchTypes' /\ CallOK(c) /\ DeliveryOK(d)
      /\ \A b \in Calls : b # c => call'[b] = call[b]
      /\ now' = now /\ delivery[d] \in Rows
  BY <1>a, DispatchTyped DEF DispatchInv, DispatchTypes, CallOK
<1>1. call'[c].pc = "over"
  BY <1>a, <1>0, CallReturned DEF DispatchTypes
<1>2. /\ delivery'[d].status = sent /\ delivery'[d].holder = None
      /\ delivery'[d].items = delivery[d].items /\ delivery'[d].expires = delivery[d].expires
      /\ delivery'[d].bound = delivery[d].bound /\ delivery'[d].redeemed = delivery[d].redeemed
      /\ \A e \in Deliveries : e # d => delivery'[e] = delivery[e]
  BY <1>a, <1>0 DEF DispatchTypes, Rows
<1>3. delivery[d].status = "processing" /\ delivery[d].holder = c
  BY <1>a DEF Holds
<1>4. sent = "pending" => accepted[d] = 0
  BY <1>a, <1>0 DEF CallOK
<1>5. sent = "submitted" => accepted[d] = 1
  BY <1>a, <1>0 DEF CallOK
<1>6. CallOK(c)'
  BY <1>1 DEF CallOK
<1>7. DeliveryOK(d)'
  BY <1>a, <1>0, <1>2, <1>3, <1>4, <1>5, NullAssumption DEF DeliveryOK, Sent
<1>8. Live(d)' => Live(d)
  BY <1>a, <1>0, <1>2, <1>3 DEF Live
<1>9. \A b \in Calls : b # c /\ call[b].pc \in {"send", "submitted", "ambiguous", "refused"} => call[b].d # d
  BY <1>a, <1>3 DEF DispatchInv, CallOK, Holds
<1> QED
  BY <1>a, <1>0, <1>1, <1>2, <1>3, <1>6, <1>7, <1>8, <1>9, NullAssumption, OnlyRow, ZenonT(60)

(* markSubmitted, or its failure. *)
LEMMA Marks ==
    ASSUME DispatchInv, NEW c \in Calls, MarkSubmitted(c)
    PROVE  DispatchInv'
<1>0. Dispatching(c) /\ call[c].pc = "submitted" /\ accepted' = accepted /\ now' = now
  BY DEF Dispatching, MarkSubmitted
<1>1. CASE /\ Holds(c) /\ Returned(c)
           /\ delivery' = [delivery EXCEPT ![call[c].d].status = "submitted", ![call[c].d].holder = None]
  BY <1>0, <1>1, LetsGo
<1>2. CASE call' = [call EXCEPT ![c].pc = "ambiguous"] /\ UNCHANGED delivery
  <2>1. call'[c].pc = "ambiguous" /\ call'[c].d = call[c].d
    BY <1>2, CallSteps DEF DispatchInv, DispatchTypes, Steps
  <2>2. CallOK(c)'
    BY <1>0, <1>2, <2>1 DEF DispatchInv, CallOK, Holds
  <2> QED
    BY <1>0, <1>2, <2>1, <2>2, DispatchTyped, OnlyCall
<1> QED
  BY <1>1, <1>2 DEF MarkSubmitted

(* markDispatchFailed: pending again only if nothing was taken. *)
LEMMA Fails ==
    ASSUME DispatchInv, NEW c \in Calls, MarkDispatchFailed(c)
    PROVE  DispatchInv'
<1>0. /\ Dispatching(c) /\ call[c].pc \in {"ambiguous", "refused"} /\ accepted' = accepted
      /\ Returned(c) /\ Holds(c)
  BY DEF Dispatching, MarkDispatchFailed, DispatchInv, CallOK
<1>1. /\ FailedStatus(call[c].pc) \in {"pending", "submitted", "failed"}
      /\ FailedStatus(call[c].pc) # "submitted"
      /\ FailedStatus(call[c].pc) = "pending" => call[c].pc = "refused"
  BY <1>0 DEF FailedStatus
<1> QED
  BY <1>0, <1>1, LetsGo DEF MarkDispatchFailed

(* A dispatch keeps what the dispatches rest on. *)
LEMMA DispatchKeeps ==
    ASSUME DispatchInv, NEW c \in Calls, Dispatching(c)
    PROVE  DispatchInv'
<1>1. CASE StopDispatch(c)
  BY <1>1, Ended DEF StopDispatch
<1> QED
  BY <1>1, Starts, Reserves, Inserts, Claims, Sends, Marks, Fails DEF Dispatching

-----------------------------------------------------------------------------
(* The other steps.  The commit of answers redeems the link, and delivers  *)
(* what every item of is answered.                                         *)
LEMMA Redeems ==
    ASSUME DispatchTypes, NEW d \in Deliveries, NEW full \in BOOLEAN,
           delivery' = [delivery EXCEPT ![d].redeemed = (d[1] = "email"),
                                        ![d].status = IF full THEN "delivered" ELSE @]
    PROVE  \E sent \in Statuses, redeemed \in BOOLEAN :
             /\ sent = (IF full THEN "delivered" ELSE delivery[d].status)
             /\ redeemed <=> d[1] = "email"
             /\ delivery' = [delivery EXCEPT ![d].redeemed = redeemed, ![d].status = sent]
<1>1. PICK redeemed \in BOOLEAN : redeemed = (d[1] = "email")
  OBVIOUS
<1>2. PICK sent \in Statuses : sent = IF full THEN "delivered" ELSE delivery[d].status
  BY DEF DispatchTypes, Rows, Statuses
<1> DEFINE one == [delivery EXCEPT ![d].redeemed = redeemed]
<1>3. one[d].status = delivery[d].status
  BY DEF DispatchTypes, Rows
<1>4. delivery' = [one EXCEPT ![d].status = IF full THEN "delivered" ELSE one[d].status]
  BY <1>1
<1>5. delivery' = [one EXCEPT ![d].status = sent]
  BY <1>2, <1>3, <1>4
<1> QED
  BY <1>1, <1>2, <1>5

(* The commit of answers leaves the dispatches as they are. *)
LEMMA Commits ==
    ASSUME DispatchInv, NEW r \in Responders, CommitAnswers(r), responder \in [Responders -> Tasks],
           responder[r].d \in Deliveries, delivery[responder[r].d].status \in Sent
    PROVE  DispatchInv'
<1>1. PICK t \in Tasks, d \in Deliveries, full \in BOOLEAN :
        t = responder[r] /\ d = t.d /\ full = t.full /\ delivery[d].status \in Sent
  BY DEF Tasks
<1>2. call' = call /\ accepted' = accepted /\ now' = now /\ provider' = provider /\ due' = due
  BY DEF CommitAnswers
<1>3. CASE UNCHANGED delivery
  BY <1>2, <1>3, RowsSettle DEF DispatchInv, DispatchTypes, Settles, Quiet
<1>4. CASE delivery' = [delivery EXCEPT ![d].redeemed = (d[1] = "email"),
                                        ![d].status = IF full THEN "delivered" ELSE @]
  <2>1. DispatchTypes
    BY DEF DispatchInv
  <2>2. PICK sent \in Statuses, redeemed \in BOOLEAN :
          /\ sent = (IF full THEN "delivered" ELSE delivery[d].status)
          /\ redeemed <=> d[1] = "email"
          /\ delivery' = [delivery EXCEPT ![d].redeemed = redeemed, ![d].status = sent]
    BY <1>4, <2>1, Redeems, ZenonT(60)
  <2>3. /\ delivery' \in [Deliveries -> Rows]
        /\ delivery'[d].status = sent /\ delivery'[d].redeemed = redeemed
        /\ \A e \in Deliveries :
             /\ e # d => delivery'[e] = delivery[e]
             /\ delivery'[e].items = delivery[e].items /\ delivery'[e].expires = delivery[e].expires
             /\ delivery'[e].holder = delivery[e].holder /\ delivery'[e].bound = delivery[e].bound
    <3>1. PICK row \in Rows : row = [delivery[d] EXCEPT !.redeemed = redeemed, !.status = sent]
      BY <2>1 DEF DispatchTypes, Rows
    <3>2. delivery' = [delivery EXCEPT ![d] = row]
      BY <2>2, <3>1
    <3>3. delivery' \in [Deliveries -> Rows] /\ \A e \in Deliveries : e # d => delivery'[e] = delivery[e]
      BY <2>1, <3>2 DEF DispatchTypes
    <3>4. /\ delivery'[d].status = sent /\ delivery'[d].redeemed = redeemed
          /\ delivery'[d].items = delivery[d].items /\ delivery'[d].expires = delivery[d].expires
          /\ delivery'[d].holder = delivery[d].holder /\ delivery'[d].bound = delivery[d].bound
      BY <2>1, <2>2 DEF DispatchTypes, Rows
    <3> QED
      BY <3>3, <3>4
  <2>4. \A e \in Deliveries : Settles(e)
    BY <1>1, <2>2, <2>3 DEF Settles, Quiet
  <2>5. DispatchTypes'
    BY <1>2, <2>1, <2>3 DEF DispatchTypes
  <2> QED
    BY <1>2, <2>1, <2>4, <2>5, RowsSettle DEF DispatchTypes
<1> QED
  BY <1>1, <1>3, <1>4 DEF CommitAnswers

(* A step that writes neither deliveries nor calls. *)
LEMMA Untouched ==
    ASSUME DispatchInv, UNCHANGED dispatchVars, provider' \in Providers, due' \subseteq Schedules,
           now' \in 0 .. MaxDay, now' >= now
    PROVE  DispatchInv'
<1>1. DispatchTypes' /\ \A d \in Deliveries : Settles(d)
  BY DEF DispatchInv, DispatchTypes, dispatchVars, Settles, Quiet
<1> QED
  BY <1>1, RowsSettle DEF dispatchVars

(* What a step other than a dispatch and a commit leaves of the dispatches. *)
LEMMA OthersKeep ==
    ASSUME DispatchInv,
           \/ \E p \in Providers : UpdatePreference(p)
           \/ \E d \in Deliveries, s \in Schedules, a \in Answers : PressButton(d, s, a)
           \/ \E d \in Deliveries : OpenLink(d)
           \/ \E r \in Responders : Responding(r) /\ ~CommitAnswers(r)
           \/ Tick \/ \E s \in Schedules : FallDue(s)
           \/ UNCHANGED vars
    PROVE  DispatchInv'
<1> USE DEF DispatchInv, DispatchTypes
<1>1. CASE \E p \in Providers : UpdatePreference(p)
  BY <1>1, Untouched DEF UpdatePreference
<1>2. CASE \E d \in Deliveries, s \in Schedules, a \in Answers : PressButton(d, s, a)
  BY <1>2, Untouched DEF PressButton
<1>3. CASE \E d \in Deliveries : OpenLink(d)
  <2>1. UNCHANGED <<inbound, provider, now, due, refell, dispatchVars, update, pending, keyboard, answerVars>>
    BY <1>3, Zenon DEF OpenLink
  <2> QED
    BY <2>1, Untouched
<1>4. ASSUME NEW r \in Responders, Responding(r), ~CommitAnswers(r) PROVE DispatchInv'
  <2> DEFINE Left == UNCHANGED <<delivery, call, accepted, provider, now>> /\ due' \subseteq due
  <2>1. ASSUME NEW u \in pending, HandleTelegramUpdate(r, u) PROVE Left
    BY <2>1 DEF HandleTelegramUpdate, dispatchVars
  <2>2. ASSUME NEW answers, SubmitEmail(r, answers) PROVE Left
    BY <2>2 DEF SubmitEmail, dispatchVars
  <2>3. ASSUME FinalizeAnswers(r) PROVE Left
    <3>1. UNCHANGED <<inbound, provider, now, due, refell, dispatchVars, update, pending, keyboard,
                      attempt, submission, recorded, days, streak>>
      BY <2>3, Zenon DEF FinalizeAnswers
    <3> QED
      BY <3>1 DEF dispatchVars
  <2>4. ASSUME NEW s \in Schedules, RecordKnowledge(r, s) PROVE Left
    BY <2>4 DEF RecordKnowledge, dispatchVars
  <2>5. ASSUME Reply(r) PROVE Left
    <3>1. UNCHANGED <<inbound, provider, now, due, refell, dispatchVars,
                      attempt, submission, recorded, days, streak>>
      BY <2>5, Zenon DEF Reply
    <3> QED
      BY <3>1 DEF dispatchVars
  <2>6. ASSUME StopResponder(r) PROVE Left
    <3>1. UNCHANGED <<inbound, provider, now, due, refell, dispatchVars, update, pending, keyboard,
                      attempt, submission, recorded, days, streak>>
      BY <2>6, Zenon DEF StopResponder
    <3> QED
      BY <3>1 DEF dispatchVars
  <2>7. Left
    BY <1>4, <2>1, <2>2, <2>3, <2>4, <2>5, <2>6 DEF Responding
  <2> QED
    BY <2>7, Untouched DEF dispatchVars
<1>5. CASE Tick
  BY <1>5, BoundsAssumption, Untouched DEF Tick
<1>6. CASE \E s \in Schedules : FallDue(s)
  BY <1>6, Untouched DEF FallDue
<1>7. CASE UNCHANGED vars
  BY <1>7, Untouched DEF vars
<1> QED
  BY <1>1, <1>2, <1>3, <1>4, <1>5, <1>6, <1>7

-----------------------------------------------------------------------------
(* The answers.  A submission is one of an email link or of a button that  *)
(* was pressed; what it answers is stored once it commits.                 *)
Known(sub) == sub \in Deliveries \/ \E u \in Updates : sub = Callback(u) /\ update[u] # NoUpdate
Of(sub) == IF sub \in Deliveries THEN sub ELSE update[sub[2]].d
Pressed(sub) == [s \in {update[sub[2]].s} |-> update[sub[2]].a]
Stored(d, answers) == \A s \in DOMAIN answers : attempt[<<d, s>>] = answers[s]

(* A finalisation whose transaction is open answers what is unanswered, and *)
(* the same as before of the rest; one that is past it has it all stored.   *)
Opened(t) ==
    /\ delivery[t.d].status \in Sent
    /\ t.stored \subseteq DOMAIN t.answers
    /\ \A s \in DOMAIN t.answers \ t.stored : attempt[<<t.d, s>>] = t.answers[s]
    /\ t.full => \A s \in delivery[t.d].items : s \in DOMAIN t.answers \/ attempt[<<t.d, s>>] # None
Past(t) ==
    /\ Stored(t.d, t.answers)
    /\ \A s \in DOMAIN t.answers \ t.todo : <<t.d, s>> \in recorded
Fits(t) ==
    t.pc # "idle" =>
        /\ t.sub \in Submissions /\ Known(t.sub) /\ t.d \in Deliveries /\ t.d = Of(t.sub)
        /\ t.answers \in Choices
        /\ t.sub \notin Deliveries => t.answers = Pressed(t.sub)
        /\ t.pc = "commit" => Opened(t)
        /\ t.pc = "record" => Past(t)
TaskOK(r) == Fits(responder[r])
SubmissionOK(sub) ==
    submission[sub] # None =>
        Known(sub) /\ Of(sub) \in Deliveries /\ submission[sub] \in Choices /\ Stored(Of(sub), submission[sub])
PageOK ==
    /\ page.screen # "closed" => page.d \in Deliveries
    /\ page.screen \in {"submitting", "submitted"} => page.answers \in Choices
AnswerInv ==
    /\ AnswerTypes /\ PageOK
    /\ \A r \in Responders : TaskOK(r)
    /\ \A sub \in Submissions : SubmissionOK(sub)
    /\ AnsweredIsSubmitted /\ DeliveredIsAnswered /\ ConfirmedIsRecorded /\ ShownIsRecorded
    /\ StreakEarned

(* No step takes back what was answered, recorded, pressed or sent. *)
Grows ==
    /\ \A i \in Items : attempt[i] # None => attempt'[i] = attempt[i]
    /\ recorded \subseteq recorded'
    /\ \A u \in Updates : update[u] # NoUpdate => update'[u] = update[u]
    /\ \A d \in Deliveries : delivery[d].status \in Sent =>
         /\ delivery'[d].status \in Sent /\ delivery'[d].items = delivery[d].items
         /\ accepted'[d] = accepted[d]

(* A submission names no two kinds of thing. *)
LEMMA CallbackKnown ==
    ASSUME NEW u \in Updates
    PROVE  Callback(u) \in Submissions /\ Callback(u) \notin Deliveries /\ Callback(u)[2] = u
  BY DEF Callback, Submissions, Deliveries, Providers

(* What is known of a submission stays known. *)
LEMMA KnownStays ==
    ASSUME Grows, NEW sub \in Submissions, Known(sub)
    PROVE  Known(sub)' /\ Of(sub)' = Of(sub) /\ (sub \notin Deliveries => Pressed(sub)' = Pressed(sub))
<1>1. CASE sub \in Deliveries
  BY <1>1 DEF Known, Of
<1>2. CASE sub \notin Deliveries
  <2>1. PICK u \in Updates : sub = Callback(u) /\ update[u] # NoUpdate
    BY <1>2 DEF Known
  <2>2. sub[2] = u /\ update'[u] = update[u]
    BY <2>1, CallbackKnown DEF Grows
  <2> QED
    BY <1>2, <2>1, <2>2 DEF Known, Of, Pressed
<1> QED
  BY <1>1, <1>2

(* An answer that was stored stays stored. *)
LEMMA ChoiceAnswers ==
    ASSUME NEW answers \in Choices
    PROVE  /\ DOMAIN answers \subseteq Schedules
           /\ \A s \in DOMAIN answers : answers[s] \in Answers /\ answers[s] # None
           /\ answers # None
  BY NullAssumption DEF Choices

(* Answers that are stored stay stored. *)
LEMMA StoredStays ==
    ASSUME Grows, NEW d \in Deliveries, NEW answers \in Choices, Stored(d, answers)
    PROVE  Stored(d, answers)'
<1> SUFFICES ASSUME NEW s \in DOMAIN answers PROVE attempt'[<<d, s>>] = answers[s]
  BY DEF Stored
<1>1. <<d, s>> \in Items /\ answers[s] # None
  BY ChoiceAnswers DEF Items
<1> QED
  BY <1>1 DEF Grows, Stored

(* A finalisation that does not move rests on what it rested on. *)
LEMMA TaskStays ==
    ASSUME Grows, DispatchTypes, AnswerTypes, NEW r \in Responders, TaskOK(r), responder'[r] = responder[r]
    PROVE  TaskOK(r)'
<1> SUFFICES ASSUME responder[r].pc # "idle" PROVE TaskOK(r)'
  BY DEF TaskOK, Fits
<1>1. PICK t \in Tasks : t = responder[r]
  BY DEF AnswerTypes
<1>2. /\ t.sub \in Submissions /\ Known(t.sub) /\ t.d \in Deliveries /\ t.d = Of(t.sub)
      /\ t.answers \in Choices /\ (t.sub \notin Deliveries => t.answers = Pressed(t.sub))
      /\ (t.pc = "commit" => Opened(t)) /\ (t.pc = "record" => Past(t))
  BY <1>1 DEF TaskOK, Fits
<1>3. Known(t.sub)' /\ Of(t.sub)' = Of(t.sub) /\ (t.sub \notin Deliveries => Pressed(t.sub)' = Pressed(t.sub))
  BY <1>2, KnownStays
<1>4. \A s \in DOMAIN t.answers : <<t.d, s>> \in Items /\ t.answers[s] # None
  BY <1>2, ChoiceAnswers DEF Items
<1>5. ASSUME Opened(t) PROVE Opened(t)'
  <2>1. /\ delivery[t.d].status \in Sent /\ delivery'[t.d].status \in Sent
        /\ delivery'[t.d].items = delivery[t.d].items
    BY <1>2, <1>5 DEF Opened, Grows
  <2>2. \A s \in DOMAIN t.answers \ t.stored : attempt'[<<t.d, s>>] = t.answers[s]
    BY <1>4, <1>5 DEF Opened, Grows
  <2>3. \A s \in delivery[t.d].items : attempt[<<t.d, s>>] # None => attempt'[<<t.d, s>>] # None
    <3>1. \A s \in delivery[t.d].items : <<t.d, s>> \in Items
      BY <1>2 DEF DispatchTypes, Rows, Items
    <3> QED
      BY <3>1 DEF Grows
  <2> QED
    BY <1>5, <2>1, <2>2, <2>3 DEF Opened
<1>6. ASSUME Past(t) PROVE Past(t)'
  BY <1>2, <1>6, StoredStays DEF Past, Grows
<1> QED
  BY <1>1, <1>2, <1>3, <1>5, <1>6 DEF TaskOK, Fits

(* A submission that is not written stays backed by its attempts. *)
LEMMA SubmissionStays ==
    ASSUME Grows, NEW sub \in Submissions, SubmissionOK(sub), submission'[sub] = submission[sub]
    PROVE  SubmissionOK(sub)'
<1> SUFFICES ASSUME submission[sub] # None PROVE SubmissionOK(sub)'
  BY DEF SubmissionOK
<1>1. PICK answers \in Choices : answers = submission[sub] /\ Of(sub) \in Deliveries /\ Known(sub) /\ Stored(Of(sub), answers)
  BY DEF SubmissionOK
<1>2. Known(sub)' /\ Of(sub)' = Of(sub)
  BY <1>1, KnownStays
<1>3. Stored(Of(sub), answers)'
  <2>1. PICK d \in Deliveries : d = Of(sub)
    BY <1>1
  <2>2. Stored(d, answers)'
    BY <1>1, <2>1, StoredStays
  <2> QED
    BY <1>2, <2>1, <2>2 DEF Stored
<1> QED
  BY <1>1, <1>2, <1>3 DEF SubmissionOK

-----------------------------------------------------------------------------
(* The steps that store no answer.                                          *)
LEMMA AnswersStay ==
    ASSUME DispatchInv, AnswerInv, DispatchInv', Grows, AnswerTypes', PageOK',
           UNCHANGED <<attempt, submission, days, streak>>,
           \A d \in Deliveries : delivery'[d].status = "delivered" => delivery[d].status = "delivered",
           \A r \in Responders : responder'[r] = responder[r] \/ TaskOK(r)',
           ConfirmedIsRecorded', ShownIsRecorded'
    PROVE  AnswerInv'
<1>1. \A r \in Responders : TaskOK(r)'
  BY TaskStays DEF AnswerInv, DispatchInv
<1>2. \A sub \in Submissions : SubmissionOK(sub)'
  BY SubmissionStays DEF AnswerInv
<1>3. AnsweredIsSubmitted'
  BY DEF AnswerInv, AnsweredIsSubmitted, Grows, Items, Sent
<1>4. DeliveredIsAnswered'
  BY DEF AnswerInv, DeliveredIsAnswered, Grows, Sent
<1>5. StreakEarned'
  BY DEF AnswerInv, StreakEarned
<1> QED
  BY <1>1, <1>2, <1>3, <1>4, <1>5 DEF AnswerInv

(* A confirmed update stays answered for. *)
LEMMA ConfirmsOld ==
    ASSUME AnswerInv, Grows,
           \A u \in Updates : update'[u] # NoUpdate /\ u \notin pending' => update[u] # NoUpdate /\ u \notin pending
    PROVE  ConfirmedIsRecorded'
<1> SUFFICES ASSUME NEW u \in Updates, update'[u] # NoUpdate, u \notin pending'
             PROVE  /\ attempt'[<<update'[u].d, update'[u].s>>] = update'[u].a
                    /\ <<update'[u].d, update'[u].s>> \in recorded'
  BY DEF ConfirmedIsRecorded
<1>1. update[u] \in UpdateSet /\ update'[u] = update[u] /\ u \notin pending /\ update[u] # NoUpdate
  BY DEF AnswerInv, AnswerTypes, Grows
<1>2. /\ attempt[<<update[u].d, update[u].s>>] = update[u].a
      /\ <<update[u].d, update[u].s>> \in recorded
  BY <1>1 DEF AnswerInv, ConfirmedIsRecorded
<1>3. <<update[u].d, update[u].s>> \in Items /\ update[u].a # None
  BY <1>1, NullAssumption DEF UpdateSet, Items
<1> QED
  BY <1>1, <1>2, <1>3 DEF Grows

(* What the page shows as recorded stays so. *)
LEMMA ShowsOld ==
    ASSUME AnswerInv, Grows, page' = page \/ page'.screen # "submitted"
    PROVE  ShownIsRecorded'
<1>1. CASE page'.screen # "submitted"
  BY <1>1 DEF ShownIsRecorded
<1>2. CASE page' = page /\ page.screen = "submitted"
  <2>1. page.d \in Deliveries /\ page.answers \in Choices
    BY <1>2 DEF AnswerInv, PageOK
  <2>2. \A s \in DOMAIN page.answers : <<page.d, s>> \in Items /\ page.answers[s] # None
    BY <2>1, ChoiceAnswers DEF Items
  <2> QED
    BY <1>2, <2>2 DEF AnswerInv, ShownIsRecorded, Grows
<1> QED
  BY <1>1, <1>2

(* A response that reports no success. *)
LEMMA Tells ==
    ASSUME AnswerTypes, PageOK, NEW t, NEW screen \in {"invalid", "error"}, Tell(t, screen)
    PROVE  page' \in Pages /\ PageOK' /\ (page' = page \/ page'.screen # "submitted")
<1>1. CASE page' = page
  BY <1>1 DEF AnswerTypes, PageOK
<1>2. CASE page.screen = "submitting" /\ page' = [page EXCEPT !.screen = screen]
  <2>1. page' \in Pages /\ page'.screen = screen /\ page'.d = page.d
    BY <1>2 DEF AnswerTypes, Pages
  <2> QED
    BY <1>2, <2>1 DEF PageOK
<1> QED
  BY <1>1, <1>2 DEF Tell

(* A finalisation that is over. *)
LEMMA Finishes ==
    ASSUME AnswerTypes, NEW r \in Responders, Finished(r)
    PROVE  /\ responder' \in [Responders -> Tasks] /\ TaskOK(r)'
           /\ \A q \in Responders : q # r => responder'[q] = responder[q]
<1>1. NoTask \in Tasks /\ NoTask.pc = "idle"
  BY DEF NoTask, Tasks, Answerings
<1>2. responder' \in [Responders -> Tasks] /\ responder'[r] = NoTask
      /\ \A q \in Responders : q # r => responder'[q] = responder[q]
  BY <1>1 DEF AnswerTypes, Finished
<1> QED
  BY <1>1, <1>2 DEF TaskOK, Fits

(* A finalisation that fails stores nothing and reports no success. *)
LEMMA Fail ==
    ASSUME DispatchInv, AnswerInv, DispatchInv', NEW r \in Responders, Failed(r),
           UNCHANGED <<delivery, accepted, update, pending, attempt, submission, recorded, days, streak>>
    PROVE  AnswerInv'
<1>1. /\ responder' \in [Responders -> Tasks] /\ TaskOK(r)'
      /\ \A q \in Responders : q # r => responder'[q] = responder[q]
  BY Finishes DEF AnswerInv, Failed
<1>2. page' \in Pages /\ PageOK' /\ (page' = page \/ page'.screen # "submitted")
  BY Tells DEF AnswerInv, Failed
<1>3. Grows
  BY DEF Grows
<1>4. AnswerTypes'
  BY <1>1, <1>2 DEF AnswerInv, AnswerTypes
<1>5. ConfirmedIsRecorded' /\ ShownIsRecorded'
  BY <1>2, <1>3, ConfirmsOld, ShowsOld
<1> QED
  BY <1>1, <1>2, <1>3, <1>4, <1>5, AnswersStay

(* A dispatch leaves what was sent as it is. *)
Leaves(d) ==
    /\ delivery[d].status \in Sent =>
         /\ delivery'[d].status = delivery[d].status /\ delivery'[d].items = delivery[d].items
         /\ accepted'[d] = accepted[d]
    /\ delivery'[d].status = "delivered" => delivery[d].status = "delivered"

(* No dispatch takes back that a message was sent, or delivers one. *)
LEMMA DispatchLeaves ==
    ASSUME DispatchInv, NEW c \in Calls, Dispatching(c)
    PROVE  \A d \in Deliveries : Leaves(d)
<1> SUFFICES ASSUME NEW d \in Deliveries PROVE Leaves(d)
  OBVIOUS
<1> USE DEF Leaves
<1>0. /\ delivery \in [Deliveries -> Rows] /\ accepted \in [Deliveries -> Nat]
      /\ CallOK(c) /\ (call[c].pc \notin {"idle", "over"} => call[c].d \in Deliveries)
  BY DEF DispatchInv, DispatchTypes, CallOK
<1>1. CASE delivery' = delivery /\ accepted' = accepted
  BY <1>1
<1>2. CASE InsertDelivery(c)
  <2> DEFINE row == [NoDelivery EXCEPT !.status = "pending", !.items = call[c].picks, !.expires = now + Lifetime]
  <2>1. delivery' = [delivery EXCEPT ![call[c].d] = row] /\ accepted' = accepted /\ row.status = "pending"
    BY <1>2 DEF InsertDelivery, NoDelivery
  <2>2. delivery[call[c].d].status = None
    BY <1>0, <1>2 DEF InsertDelivery, CallOK
  <2> HIDE DEF row
  <2> QED
    BY <1>0, <2>1, <2>2, NullAssumption DEF Sent
<1>3. CASE ClaimDispatch(c)
  <2>1. PICK e \in Deliveries : e = call[c].d /\ call[c].pc = "claim"
    BY <1>0, <1>3 DEF ClaimDispatch
  <2>2. Bound(e).status = delivery[e].status /\ Bound(e).items = delivery[e].items /\ Bound(e) \in Rows
    BY <1>0 DEF Bound, Rows
  <2>3. CASE Claimable(delivery[e])
    <3>1. [Bound(e) EXCEPT !.status = "processing", !.holder = c].status = "processing"
      BY <2>2 DEF Rows
    <3>2. delivery'[e].status = "processing" /\ (d # e => delivery'[d] = delivery[d]) /\ accepted' = accepted
      BY <1>0, <1>3, <2>1, <2>3, <3>1 DEF ClaimDispatch
    <3> QED
      BY <2>3, <3>2 DEF Claimable, Sent
  <2>4. CASE ~Claimable(delivery[e])
    <3>1. delivery'[e] = Bound(e) /\ (d # e => delivery'[d] = delivery[d]) /\ accepted' = accepted
      BY <1>0, <1>3, <2>1, <2>4 DEF ClaimDispatch
    <3> QED
      BY <2>2, <3>1
  <2> QED
    BY <2>3, <2>4
<1>4. CASE Send(c)
  <2>1. Holds(c) /\ delivery' = delivery
    BY <1>0, <1>4 DEF Send, CallOK
  <2>2. d # call[c].d => accepted'[d] = accepted[d]
    BY <1>0, <1>4 DEF Send
  <2> QED
    BY <2>1, <2>2 DEF Holds, Sent
<1>5. ASSUME NEW sent \in {"pending", "submitted", "failed"}, Holds(c), call[c].d \in Deliveries,
             delivery' = [delivery EXCEPT ![call[c].d].status = sent, ![call[c].d].holder = None],
             accepted' = accepted
      PROVE  Leaves(d)
  <2>1. CASE d # call[c].d
    BY <1>0, <1>5, <2>1
  <2>2. CASE d = call[c].d
    <3>1. delivery'[d].status = sent /\ delivery[d].status = "processing"
      BY <1>0, <1>5, <2>2 DEF Rows, Holds
    <3> QED
      BY <3>1 DEF Sent
  <2> QED
    BY <2>1, <2>2
<1>6. CASE MarkSubmitted(c)
  BY <1>0, <1>1, <1>5, <1>6 DEF MarkSubmitted
<1>7. CASE MarkDispatchFailed(c)
  <2>1. FailedStatus(call[c].pc) \in {"pending", "submitted", "failed"}
    BY DEF FailedStatus
  <2> QED
    BY <1>0, <1>1, <1>5, <1>7, <2>1 DEF MarkDispatchFailed
<1>8. (\E k \in Keys : StartDispatch(c, k)) \/ ReserveDueBatch(c) \/ StopDispatch(c) =>
        delivery' = delivery /\ accepted' = accepted
  BY DEF StartDispatch, ReserveDueBatch, StopDispatch
<1> QED
  BY <1>1, <1>2, <1>3, <1>4, <1>6, <1>7, <1>8 DEF Dispatching

(* What leaves the answers and the inbox alone. *)
LEMMA Elsewhere ==
    ASSUME DispatchInv, AnswerInv, DispatchInv', UNCHANGED <<inboxVars, answerVars>>,
           \A d \in Deliveries : Leaves(d)
    PROVE  AnswerInv'
<1>0. UNCHANGED <<update, pending, page, attempt, submission, responder, recorded, days, streak>>
  BY DEF inboxVars, answerVars
<1>1. Grows
  BY <1>0 DEF Grows, Leaves
<1>2. AnswerTypes' /\ PageOK'
  BY <1>0 DEF AnswerInv, AnswerTypes, PageOK
<1>3. ConfirmedIsRecorded' /\ ShownIsRecorded'
  BY <1>0, <1>1, ConfirmsOld, ShowsOld
<1> QED
  BY <1>0, <1>1, <1>2, <1>3, AnswersStay DEF Leaves

(* A button is pressed. *)
LEMMA Presses ==
    ASSUME DispatchInv, AnswerInv, DispatchInv',
           NEW d \in Deliveries, NEW s \in Schedules, NEW a \in Answers, PressButton(d, s, a)
    PROVE  AnswerInv'
<1>1. PICK u \in Updates : /\ update[u] = NoUpdate
                           /\ update' = [update EXCEPT ![u] = [d |-> d, s |-> s, a |-> a]]
                           /\ pending' = pending \cup {u}
  BY DEF PressButton
<1>2. UNCHANGED <<page, attempt, submission, responder, recorded, days, streak, delivery, accepted>>
  BY DEF PressButton, answerVars, dispatchVars
<1>3. [d |-> d, s |-> s, a |-> a] \in UpdateSet /\ [d |-> d, s |-> s, a |-> a] # NoUpdate
  BY NullAssumption DEF UpdateSet, NoUpdate
<1>4. /\ update' \in [Updates -> UpdateSet \cup {NoUpdate}] /\ update'[u] # NoUpdate
      /\ \A v \in Updates : v # u => update'[v] = update[v]
  BY <1>1, <1>3 DEF AnswerInv, AnswerTypes
<1>5. Grows
  BY <1>1, <1>2, <1>4 DEF Grows
<1>6. AnswerTypes' /\ PageOK'
  BY <1>1, <1>2, <1>4 DEF AnswerInv, AnswerTypes, PageOK
<1>7. ConfirmedIsRecorded' /\ ShownIsRecorded'
  BY <1>1, <1>2, <1>4, <1>5, ConfirmsOld, ShowsOld
<1> QED
  BY <1>2, <1>5, <1>6, <1>7, AnswersStay

(* The link of an email is followed. *)
LEMMA Opens ==
    ASSUME DispatchInv, AnswerInv, DispatchInv', NEW d \in Deliveries, OpenLink(d)
    PROVE  AnswerInv'
<1>1. UNCHANGED <<inbound, provider, now, due, refell, dispatchVars, update, pending, keyboard, answerVars>>
  BY Zenon DEF OpenLink
<1>2. UNCHANGED <<update, pending, attempt, submission, responder, recorded, days, streak, delivery, accepted>>
  BY <1>1 DEF answerVars, dispatchVars
<1>3. PICK screen \in {"ready", "invalid"} : page' = [NoPage EXCEPT !.screen = screen, !.d = d]
  BY DEF OpenLink
<1>4. page' \in Pages /\ page'.screen = screen /\ page'.d = d
  BY <1>3 DEF NoPage, Pages, Answerings
<1>5. Grows
  BY <1>2 DEF Grows
<1>6. AnswerTypes' /\ PageOK'
  BY <1>2, <1>4 DEF AnswerInv, AnswerTypes, PageOK
<1>7. ConfirmedIsRecorded' /\ ShownIsRecorded'
  BY <1>2, <1>4, <1>5, ConfirmsOld, ShowsOld
<1> QED
  BY <1>2, <1>5, <1>6, <1>7, AnswersStay

-----------------------------------------------------------------------------
(* The steps of a finalisation.                                             *)
LEMMA Moves ==
    ASSUME DispatchInv, AnswerInv, DispatchInv', NEW r \in Responders, NEW t \in Tasks,
           responder' = [responder EXCEPT ![r] = t], Fits(t)',
           UNCHANGED <<delivery, accepted, update, pending, attempt, submission, days, streak>>,
           recorded \subseteq recorded', page' \in Pages, PageOK',
           page' = page \/ page'.screen # "submitted"
    PROVE  AnswerInv'
<1>1. /\ responder' \in [Responders -> Tasks] /\ responder'[r] = t
      /\ \A q \in Responders : q # r => responder'[q] = responder[q]
  BY DEF AnswerInv, AnswerTypes
<1>2. TaskOK(r)'
  BY <1>1 DEF TaskOK
<1>3. Grows
  BY DEF Grows
<1>4. AnswerTypes'
  BY <1>1 DEF AnswerInv, AnswerTypes
<1>5. ConfirmedIsRecorded' /\ ShownIsRecorded'
  BY <1>3, ConfirmsOld, ShowsOld
<1> QED
  BY <1>1, <1>2, <1>3, <1>4, <1>5, AnswersStay

(* The finalisation of a button starts. *)
LEMMA Handles ==
    ASSUME DispatchInv, AnswerInv, DispatchInv', NEW r \in Responders, NEW u \in pending,
           HandleTelegramUpdate(r, u)
    PROVE  AnswerInv'
<1>1. u \in Updates /\ update[u] \in UpdateSet /\ update[u] # NoUpdate
  BY DEF AnswerInv, AnswerTypes
<1>2. Pressed(Callback(u)) = [s \in {update[u].s} |-> update[u].a] /\ Pressed(Callback(u)) \in Choices
  <2>1. {update[u].s} \in SUBSET Schedules /\ update[u].a \in Answers
    BY <1>1 DEF UpdateSet
  <2>2. [s \in {update[u].s} |-> update[u].a] \in [{update[u].s} -> Answers]
    BY <2>1
  <2>3. [s \in {update[u].s} |-> update[u].a] \in Choices
    BY <2>1, <2>2 DEF Choices
  <2> QED
    BY <1>1, <2>3, CallbackKnown DEF Pressed
<1>3. Task(Callback(u), update[u].d, Pressed(Callback(u))) \in Tasks
  BY <1>1, <1>2, CallbackKnown DEF Task, Tasks, Answerings, UpdateSet
<1>4. PICK t \in Tasks : t = Task(Callback(u), update[u].d, Pressed(Callback(u)))
  BY <1>3
<1>5. t.pc = "finalize" /\ t.sub = Callback(u) /\ t.d = update[u].d /\ t.answers = Pressed(Callback(u))
  BY <1>4 DEF Task
<1>6. UNCHANGED <<delivery, accepted, update, pending, page, attempt, submission, recorded, days, streak>>
  BY DEF HandleTelegramUpdate, dispatchVars, inboxVars
<1>7. responder' = [responder EXCEPT ![r] = t]
  BY <1>2, <1>4 DEF HandleTelegramUpdate
<1>8. /\ Known(Callback(u)) /\ Of(Callback(u)) = update[u].d /\ update[u].d \in Deliveries
      /\ Known(Callback(u))' /\ Of(Callback(u))' = Of(Callback(u))
      /\ Pressed(Callback(u))' = Pressed(Callback(u))
  BY <1>1, <1>6, CallbackKnown DEF Known, Of, Pressed, UpdateSet
<1>9. Fits(t)'
  BY <1>1, <1>2, <1>5, <1>8, CallbackKnown DEF Fits
<1>10. page' \in Pages /\ PageOK'
  BY <1>6 DEF AnswerInv, AnswerTypes, PageOK
<1> QED
  BY <1>6, <1>7, <1>9, <1>10, Moves

(* The finalisation of an email starts. *)
LEMMA Submits ==
    ASSUME DispatchInv, AnswerInv, DispatchInv', NEW r \in Responders, NEW d \in Deliveries,
           NEW answers \in [delivery[d].items -> Answers], page.d = d, SubmitEmail(r, answers)
    PROVE  AnswerInv'
<1> DEFINE t == Task(d, d, answers)
<1>1. answers \in Choices
  BY DEF DispatchInv, DispatchTypes, Rows, Choices
<1>2. t.pc = "finalize" /\ t.sub = d /\ t.d = d /\ t.answers = answers
  BY DEF Task
<1>3. t \in Tasks /\ d \in Submissions
  BY <1>1 DEF Task, Tasks, Answerings, Submissions
<1>4. UNCHANGED <<delivery, accepted, update, pending, attempt, submission, recorded, days, streak>>
  BY DEF SubmitEmail, dispatchVars
<1>5. responder' = [responder EXCEPT ![r] = t]
  BY DEF SubmitEmail
<1> HIDE DEF t
<1>6. Fits(t)'
  BY <1>1, <1>2, <1>3 DEF Fits, Known, Of
<1>7. page' = [page EXCEPT !.screen = "submitting", !.answers = answers] /\ page \in Pages
  BY DEF SubmitEmail, AnswerInv, AnswerTypes
<1>8. page' \in Pages /\ page'.screen = "submitting" /\ page'.answers = answers /\ page'.d = d
  BY <1>1, <1>7 DEF Pages, Answerings
<1>9. PageOK'
  BY <1>1, <1>8 DEF PageOK
<1> QED
  BY <1>3, <1>4, <1>5, <1>6, <1>8, <1>9, Moves

(* finalizeAnswers up to its commit: a replay, a refusal, or an open transaction. *)
LEMMA Finalizes ==
    ASSUME DispatchInv, AnswerInv, DispatchInv', NEW r \in Responders, FinalizeAnswers(r)
    PROVE  AnswerInv'
<1>1. UNCHANGED <<inbound, provider, now, due, refell, dispatchVars, update, pending, keyboard,
                  attempt, submission, recorded, days, streak>>
  BY Zenon DEF FinalizeAnswers
<1>2. UNCHANGED <<delivery, accepted, update, pending, attempt, submission, recorded, days, streak>>
  BY <1>1 DEF dispatchVars
<1>3. PICK t \in Tasks : t = responder[r]
  BY DEF AnswerInv, AnswerTypes
<1>4. /\ t.pc = "finalize" /\ t.sub \in Submissions /\ Known(t.sub) /\ t.d \in Deliveries /\ t.d = Of(t.sub)
      /\ t.answers \in Choices /\ (t.sub \notin Deliveries => t.answers = Pressed(t.sub))
      /\ SubmissionOK(t.sub)
  BY <1>3 DEF FinalizeAnswers, AnswerInv, TaskOK, Fits
<1>5. page' = page => page' \in Pages /\ PageOK'
  BY DEF AnswerInv, AnswerTypes, PageOK
<1>6. CASE Failed(r)
  BY <1>2, <1>6, Fail
<1>7. CASE /\ submission[t.sub] = t.answers
           /\ responder' = [responder EXCEPT ![r].pc = "record", ![r].todo = DOMAIN t.answers]
           /\ UNCHANGED page
  <2> DEFINE n == [t EXCEPT !.pc = "record", !.todo = DOMAIN t.answers]
  <2>1. /\ n \in Tasks /\ n.pc = "record" /\ n.sub = t.sub /\ n.d = t.d /\ n.answers = t.answers
        /\ n.todo = DOMAIN t.answers
    BY <1>4, ChoiceAnswers DEF Tasks
  <2>2. responder' = [responder EXCEPT ![r] = n]
    BY <1>3, <1>7 DEF AnswerInv, AnswerTypes
  <2>3. Stored(t.d, t.answers)
    BY <1>4, <1>7, ChoiceAnswers DEF SubmissionOK
  <2> HIDE DEF n
  <2>4. Fits(n)'
    BY <1>2, <1>4, <2>1, <2>3 DEF Fits, Known, Of, Pressed, Past, Stored
  <2> QED
    BY <1>2, <1>5, <1>7, <2>1, <2>2, <2>4, Moves
<1>8. CASE /\ Answerable(t.d) /\ ~Conflicts(t)
           /\ responder' = [responder EXCEPT ![r].pc = "commit", ![r].stored = Unanswered(t),
                                             ![r].full = CountsAll(t)]
           /\ UNCHANGED page
  <2>1. PICK full \in BOOLEAN : full = CountsAll(t)
    BY DEF CountsAll
  <2>2. Unanswered(t) \in SUBSET Schedules /\ Unanswered(t) \subseteq DOMAIN t.answers
    BY <1>4, ChoiceAnswers DEF Unanswered
  <2>a. PICK stored \in SUBSET Schedules : stored = Unanswered(t)
    BY <2>2
  <2> DEFINE n == [t EXCEPT !.pc = "commit", !.stored = stored, !.full = full]
  <2>3. /\ n \in Tasks /\ n.pc = "commit" /\ n.sub = t.sub /\ n.d = t.d /\ n.answers = t.answers
        /\ n.stored = stored /\ n.full = full
    BY DEF Tasks
  <2>4. responder' = [responder EXCEPT ![r] = n]
    BY <1>3, <1>8, <2>1, <2>a DEF AnswerInv, AnswerTypes
  <2> HIDE DEF n
  <2>5. \A s \in DOMAIN t.answers \ stored : attempt[<<t.d, s>>] = t.answers[s]
    BY <1>8, <2>a DEF Conflicts, Unanswered
  <2>6. Opened(n)
    BY <1>8, <2>1, <2>2, <2>3, <2>5, <2>a DEF Opened, Answerable, Sent, CountsAll
  <2>7. Fits(n)'
    BY <1>2, <1>4, <2>3, <2>6 DEF Fits, Known, Of, Pressed, Opened
  <2> QED
    BY <1>2, <1>5, <1>8, <2>3, <2>4, <2>7, Moves
<1> QED
  BY <1>3, <1>6, <1>7, <1>8 DEF FinalizeAnswers

(* The evidence of one answer is projected. *)
LEMMA Records ==
    ASSUME DispatchInv, AnswerInv, DispatchInv', NEW r \in Responders, NEW s \in Schedules, RecordKnowledge(r, s)
    PROVE  AnswerInv'
<1>1. PICK t \in Tasks : t = responder[r]
  BY DEF AnswerInv, AnswerTypes
<1>2. UNCHANGED <<delivery, accepted, update, pending, page, attempt, submission, days, streak>>
  BY DEF RecordKnowledge, dispatchVars, inboxVars
<1>3. t.pc = "record" /\ s \in t.todo /\ recorded' = recorded \cup {<<t.d, s>>} /\ Fits(t)
  BY <1>1 DEF RecordKnowledge, AnswerInv, TaskOK
<1> DEFINE n == [t EXCEPT !.todo = @ \ {s}]
<1>4. /\ n \in Tasks /\ n.pc = "record" /\ n.sub = t.sub /\ n.d = t.d /\ n.answers = t.answers
      /\ n.todo = t.todo \ {s}
  BY <1>3 DEF Tasks
<1>5. responder' = [responder EXCEPT ![r] = n]
  BY <1>1 DEF RecordKnowledge, AnswerInv, AnswerTypes
<1> HIDE DEF n
<1>6. Past(n)'
  BY <1>2, <1>3, <1>4 DEF Fits, Past, Stored
<1>7. Fits(n)'
  BY <1>2, <1>3, <1>4, <1>6 DEF Fits, Known, Of, Pressed
<1>8. page' \in Pages /\ PageOK'
  BY <1>2 DEF AnswerInv, AnswerTypes, PageOK
<1> QED
  BY <1>2, <1>3, <1>4, <1>5, <1>7, <1>8, Moves

(* The reply: the update is confirmed, or the page told, after everything was recorded. *)
LEMMA Replies ==
    ASSUME DispatchInv, AnswerInv, DispatchInv', NEW r \in Responders, Reply(r)
    PROVE  AnswerInv'
<1>1. UNCHANGED <<inbound, provider, now, due, refell, dispatchVars, attempt, submission, recorded, days, streak>>
  BY Zenon DEF Reply
<1>2. UNCHANGED <<delivery, accepted, attempt, submission, recorded, days, streak>>
  BY <1>1 DEF dispatchVars
<1>3. PICK t \in Tasks : t = responder[r]
  BY DEF AnswerInv, AnswerTypes
<1>4. /\ Fits(t) /\ t.pc = "record" /\ t.todo = {} /\ Finished(r)
  BY <1>3 DEF Reply, Projected, AnswerInv, TaskOK
<1>5. /\ t.sub \in Submissions /\ Known(t.sub) /\ t.d \in Deliveries /\ t.d = Of(t.sub)
      /\ t.answers \in Choices /\ (t.sub \notin Deliveries => t.answers = Pressed(t.sub))
      /\ \A s \in DOMAIN t.answers : attempt[<<t.d, s>>] = t.answers[s] /\ <<t.d, s>> \in recorded
  BY <1>4 DEF Fits, Past, Stored
<1>6. /\ responder' \in [Responders -> Tasks] /\ TaskOK(r)'
      /\ \A q \in Responders : q # r => responder'[q] = responder[q]
  BY <1>4, Finishes DEF AnswerInv
<1>7. CASE t.sub \in Deliveries
  <2>1. PICK screen \in {"submitted", "error"} : Tell(t, screen) /\ UNCHANGED <<update, pending, keyboard>>
    BY <1>3, <1>7 DEF Reply
  <2>2. Grows
    BY <1>2, <2>1 DEF Grows
  <2>3. CASE page' = page
    <3>1. AnswerTypes' /\ PageOK'
      BY <1>2, <1>6, <2>1, <2>3 DEF AnswerInv, AnswerTypes, PageOK
    <3>2. ConfirmedIsRecorded' /\ ShownIsRecorded'
      BY <2>1, <2>2, <2>3, ConfirmsOld, ShowsOld
    <3> QED
      BY <1>2, <1>6, <2>2, <3>1, <3>2, AnswersStay
  <2>4. CASE /\ page.screen = "submitting" /\ t.sub = page.d /\ t.answers = page.answers
             /\ page' = [page EXCEPT !.screen = screen]
    <3>1. page' \in Pages /\ page'.screen = screen /\ page'.d = page.d /\ page'.answers = page.answers
      BY <2>4 DEF AnswerInv, AnswerTypes, Pages
    <3>2. PageOK'
      BY <1>5, <1>7, <2>4, <3>1 DEF PageOK
    <3>3. AnswerTypes'
      BY <1>2, <1>6, <2>1, <3>1 DEF AnswerInv, AnswerTypes
    <3>4. t.sub = t.d
      BY <1>5, <1>7 DEF Of
    <3>5. ShownIsRecorded'
      BY <1>2, <1>5, <2>4, <3>1, <3>4 DEF ShownIsRecorded
    <3>6. ConfirmedIsRecorded'
      BY <2>1, <2>2, ConfirmsOld
    <3> QED
      BY <1>2, <1>6, <2>2, <3>2, <3>3, <3>5, <3>6, AnswersStay
  <2> QED
    BY <2>1, <2>3, <2>4 DEF Tell
<1>8. CASE t.sub \notin Deliveries
  <2>1. pending' \in {pending, pending \ {t.sub[2]}} /\ UNCHANGED <<update, page>>
    BY <1>3, <1>8 DEF Reply
  <2>2. PICK u \in Updates : t.sub = Callback(u) /\ t.sub[2] = u /\ update[u] # NoUpdate
    BY <1>5, <1>8, CallbackKnown DEF Known
  <2>3. update[u] \in UpdateSet
    BY <2>2 DEF AnswerInv, AnswerTypes
  <2>4. Grows
    BY <1>2, <2>1 DEF Grows
  <2>5. AnswerTypes' /\ PageOK'
    BY <1>2, <1>6, <2>1 DEF AnswerInv, AnswerTypes, PageOK
  <2>6. ShownIsRecorded'
    BY <2>1, <2>4, ShowsOld
  <2>7. /\ attempt[<<update[u].d, update[u].s>>] = update[u].a
        /\ <<update[u].d, update[u].s>> \in recorded
    <3>1. t.d = update[u].d /\ t.answers = [s \in {update[u].s} |-> update[u].a]
      BY <1>5, <1>8, <2>2 DEF Of, Pressed
    <3>2. update[u].s \in DOMAIN t.answers /\ t.answers[update[u].s] = update[u].a
      BY <3>1
    <3> QED
      BY <1>5, <3>1, <3>2
  <2>8. ConfirmedIsRecorded'
    <3> SUFFICES ASSUME NEW v \in Updates, update[v] # NoUpdate, v \notin pending'
                 PROVE  /\ attempt[<<update[v].d, update[v].s>>] = update[v].a
                        /\ <<update[v].d, update[v].s>> \in recorded
      BY <1>2, <2>1 DEF ConfirmedIsRecorded
    <3>1. CASE v \notin pending
      BY <3>1 DEF AnswerInv, ConfirmedIsRecorded
    <3>2. CASE v = u
      BY <2>7, <3>2
    <3> QED
      BY <2>1, <2>2, <3>1, <3>2
  <2> QED
    BY <1>2, <1>6, <2>1, <2>4, <2>5, <2>6, <2>8, AnswersStay
<1> QED
  BY <1>7, <1>8

(* A responder stops. *)
LEMMA Stops ==
    ASSUME DispatchInv, AnswerInv, DispatchInv', NEW r \in Responders, StopResponder(r)
    PROVE  AnswerInv'
<1>1. /\ UNCHANGED <<inbound, provider, now, due, refell, dispatchVars, update, pending, keyboard,
                     attempt, submission, recorded, days, streak>>
      /\ Failed(r)
  BY Zenon DEF StopResponder
<1>2. UNCHANGED <<delivery, accepted, update, pending, attempt, submission, recorded, days, streak>>
  BY <1>1 DEF dispatchVars
<1> QED
  BY <1>1, <1>2, Fail

(* The streak of a day that is no earlier than any recorded one. *)
LEMMA StreakGoesOn ==
    ASSUME StreakEarned, streak \in [current : Nat, longest : Nat, last : Int], NEW day \in Nat,
           NEW s, s = NextStreak(day), NEW D, D = days \cup {day}
    PROVE  /\ s \in [current : Nat, longest : Nat, last : Int] /\ s.longest >= s.current
           /\ \A n \in 0 .. s.current - 1 : s.last - n \in D
<1> DEFINE run == IF day <= streak.last THEN streak.current
                  ELSE IF day = streak.last + 1 /\ streak # NoStreak THEN streak.current + 1 ELSE 1
<1>1. PICK k \in Nat : k = run
  OBVIOUS
<1>2. s = [current |-> k, longest |-> IF k > streak.longest THEN k ELSE streak.longest,
           last |-> IF day > streak.last THEN day ELSE streak.last]
  BY <1>1 DEF NextStreak
<1>3. /\ s.current = k /\ s.longest = (IF k > streak.longest THEN k ELSE streak.longest)
      /\ s.last = IF day > streak.last THEN day ELSE streak.last
      /\ s \in [current : Nat, longest : Nat, last : Int]
  BY <1>2
<1>4. ASSUME NEW n \in 0 .. k - 1 PROVE s.last - n \in D
  <2>1. CASE day <= streak.last
    BY <1>1, <1>3, <1>4, <2>1 DEF StreakEarned
  <2>2. CASE day > streak.last /\ n = 0
    BY <1>3, <2>2
  <2>3. CASE day > streak.last /\ n > 0
    <3>1. k = streak.current + 1 /\ day = streak.last + 1
      BY <1>1, <1>4, <2>3
    <3>2. n - 1 \in 0 .. streak.current - 1 /\ s.last - n = streak.last - (n - 1)
      BY <1>3, <1>4, <2>3, <3>1
    <3> QED
      BY <3>2 DEF StreakEarned
  <2> QED
    BY <2>1, <2>2, <2>3
<1> QED
  BY <1>3, <1>4

(* The commit stores what no submission has answered since. *)
LEMMA CommitStores ==
    ASSUME DispatchInv, AnswerInv, DispatchInv', NEW r \in Responders, CommitAnswers(r), ~TakenMeanwhile(responder[r])
    PROVE  AnswerInv'
<1>1. PICK t \in Tasks : t = responder[r]
  BY DEF AnswerInv, AnswerTypes
<1>2. /\ Fits(t) /\ t.pc = "commit"
      /\ attempt' = [i \in Items |-> IF i[1] = t.d /\ i[2] \in t.stored THEN t.answers[i[2]] ELSE attempt[i]]
      /\ submission' = [submission EXCEPT ![t.sub] = t.answers]
      /\ delivery' = [delivery EXCEPT ![t.d].redeemed = (t.d[1] = "email"),
                                      ![t.d].status = IF t.full THEN "delivered" ELSE @]
      /\ \E day \in {now, now + 1} : days' = days \cup {day} /\ streak' = NextStreak(day)
      /\ responder' = [responder EXCEPT ![r].pc = "record", ![r].todo = DOMAIN t.answers]
      /\ UNCHANGED page
  BY <1>1 DEF CommitAnswers, AnswerInv, TaskOK
<1>3. UNCHANGED <<accepted, update, pending, recorded, page>>
  BY <1>2 DEF CommitAnswers
<1>4. /\ t.sub \in Submissions /\ Known(t.sub) /\ t.d \in Deliveries /\ t.d = Of(t.sub)
      /\ t.answers \in Choices /\ (t.sub \notin Deliveries => t.answers = Pressed(t.sub))
      /\ Opened(t) /\ delivery[t.d].status \in Sent /\ t.stored \subseteq DOMAIN t.answers
      /\ DOMAIN t.answers \subseteq Schedules
      /\ \A s \in DOMAIN t.answers : <<t.d, s>> \in Items /\ t.answers[s] \in Answers /\ t.answers[s] # None
      /\ \A s \in t.stored : attempt[<<t.d, s>>] = None
  BY <1>1, <1>2, ChoiceAnswers DEF Fits, Opened, Items, TakenMeanwhile
<1>5. /\ \A i \in Items : attempt[i] # None => attempt'[i] = attempt[i]
      /\ \A i \in Items : attempt'[i] # attempt[i] => i[1] = t.d
      /\ \A s \in DOMAIN t.answers : attempt'[<<t.d, s>>] = t.answers[s]
      /\ attempt' \in [Items -> Answers \cup {None}]
  <2>1. \A i \in Items : i = <<i[1], i[2]>>
    BY DEF Items
  <2>2. \A i \in Items : attempt[i] # None => attempt'[i] = attempt[i]
    BY <1>2, <1>4, <2>1
  <2>3. \A s \in DOMAIN t.answers : attempt'[<<t.d, s>>] = t.answers[s]
    <3> SUFFICES ASSUME NEW s \in DOMAIN t.answers PROVE attempt'[<<t.d, s>>] = t.answers[s]
      OBVIOUS
    <3>1. <<t.d, s>> \in Items /\ <<t.d, s>>[1] = t.d /\ <<t.d, s>>[2] = s
      BY <1>4
    <3>2. attempt'[<<t.d, s>>] = IF s \in t.stored THEN t.answers[s] ELSE attempt[<<t.d, s>>]
      BY <1>2, <3>1
    <3> QED
      BY <1>4, <3>2 DEF Opened
  <2>4. attempt' \in [Items -> Answers \cup {None}]
    <3>1. \A i \in Items : (IF i[1] = t.d /\ i[2] \in t.stored THEN t.answers[i[2]] ELSE attempt[i]) \in Answers \cup {None}
      BY <1>4 DEF AnswerInv, AnswerTypes
    <3> QED
      BY <1>2, <3>1
  <2> QED
    BY <1>2, <2>2, <2>3, <2>4
<1>6. PICK sent \in Statuses, redeemed \in BOOLEAN :
        /\ sent = (IF t.full THEN "delivered" ELSE delivery[t.d].status)
        /\ redeemed <=> t.d[1] = "email"
        /\ delivery' = [delivery EXCEPT ![t.d].redeemed = redeemed, ![t.d].status = sent]
  <2>1. PICK d \in Deliveries, full \in BOOLEAN : d = t.d /\ full = t.full
    BY <1>4 DEF Tasks
  <2>2. delivery' = [delivery EXCEPT ![d].redeemed = (d[1] = "email"),
                                     ![d].status = IF full THEN "delivered" ELSE @]
    BY <1>2, <2>1
  <2>3. DispatchTypes
    BY DEF DispatchInv
  <2>4. \E sent \in Statuses, redeemed \in BOOLEAN :
          /\ sent = (IF full THEN "delivered" ELSE delivery[d].status)
          /\ redeemed <=> d[1] = "email"
          /\ delivery' = [delivery EXCEPT ![d].redeemed = redeemed, ![d].status = sent]
    BY <2>2, <2>3, Redeems, ZenonT(60)
  <2> QED
    BY <2>1, <2>4
<1>7. /\ delivery'[t.d].status = sent
      /\ \A e \in Deliveries :
           /\ e # t.d => delivery'[e] = delivery[e]
           /\ delivery'[e].items = delivery[e].items
  BY <1>4, <1>6 DEF DispatchInv, DispatchTypes, Rows
<1>8. Grows
  BY <1>3, <1>4, <1>5, <1>6, <1>7 DEF Grows, Sent
<1>9. PICK day \in {now, now + 1} : days' = days \cup {day} /\ streak' = NextStreak(day)
  BY <1>2
<1>10. /\ StreakEarned' /\ streak' \in [current : Nat, longest : Nat, last : Int]
       /\ days' \subseteq 0 .. MaxDay + 1
  <2>1. day \in Nat /\ day \in 0 .. MaxDay + 1
    BY BoundsAssumption DEF DispatchInv, DispatchTypes
  <2>2. StreakEarned /\ streak \in [current : Nat, longest : Nat, last : Int] /\ days \subseteq 0 .. MaxDay + 1
    BY DEF AnswerInv, AnswerTypes
  <2>3. /\ streak' \in [current : Nat, longest : Nat, last : Int] /\ streak'.longest >= streak'.current
        /\ \A n \in 0 .. streak'.current - 1 : streak'.last - n \in days'
    BY <1>9, <2>1, <2>2, StreakGoesOn
  <2> QED
    BY <1>9, <2>1, <2>2, <2>3 DEF StreakEarned
<1>11. PICK next \in Tasks : next = [t EXCEPT !.pc = "record", !.todo = DOMAIN t.answers]
  BY <1>4 DEF Tasks
<1>12. /\ next.pc = "record" /\ next.sub = t.sub /\ next.d = t.d /\ next.answers = t.answers
       /\ next.todo = DOMAIN t.answers
  BY <1>11 DEF Tasks
<1>13. /\ responder' \in [Responders -> Tasks] /\ responder'[r] = next
       /\ \A q \in Responders : q # r => responder'[q] = responder[q]
  <2>1. responder' = [responder EXCEPT ![r] = next]
    BY <1>1, <1>2, <1>11 DEF AnswerInv, AnswerTypes
  <2> QED
    BY <2>1 DEF AnswerInv, AnswerTypes
<1>14. /\ Known(t.sub)' /\ Of(t.sub)' = Of(t.sub)
       /\ (t.sub \notin Deliveries => Pressed(t.sub)' = Pressed(t.sub))
  BY <1>4, <1>8, KnownStays
<1>15. \A q \in Responders : TaskOK(q)'
  <2>1. Past(next)'
    BY <1>5, <1>12 DEF Past, Stored
  <2>2. Fits(next)'
    BY <1>4, <1>12, <1>14, <2>1 DEF Fits
  <2>3. TaskOK(r)'
    BY <1>13, <2>2 DEF TaskOK
  <2> QED
    BY <1>8, <1>13, <2>3, TaskStays DEF AnswerInv, DispatchInv
<1>16. submission' \in [Submissions -> Answerings \cup {None}] /\ \A sub \in Submissions : SubmissionOK(sub)'
  <2>1. /\ submission' \in [Submissions -> Answerings \cup {None}] /\ submission'[t.sub] = t.answers
        /\ \A sub \in Submissions : sub # t.sub => submission'[sub] = submission[sub]
    BY <1>2, <1>4 DEF AnswerInv, AnswerTypes, Answerings
  <2>2. SubmissionOK(t.sub)'
    BY <1>4, <1>5, <1>14, <2>1 DEF SubmissionOK, Stored
  <2> QED
    BY <1>8, <2>1, <2>2, SubmissionStays DEF AnswerInv
<1>17. AnswerTypes' /\ PageOK'
  BY <1>3, <1>5, <1>10, <1>13, <1>16 DEF AnswerInv, AnswerTypes, PageOK
<1>18. AnsweredIsSubmitted'
  <2> SUFFICES ASSUME NEW i \in Items, attempt'[i] # None
               PROVE  delivery'[i[1]].status \in Sent /\ accepted'[i[1]] > 0
    BY DEF AnsweredIsSubmitted, Sent
  <2>1. i[1] \in Deliveries
    BY DEF Items
  <2>2. CASE attempt[i] # None
    BY <1>3, <1>8, <2>1, <2>2 DEF AnswerInv, AnsweredIsSubmitted, Grows, Sent
  <2>3. CASE i[1] = t.d
    BY <1>3, <1>4, <1>8, <2>3 DEF DispatchInv, DeliveryOK, Grows
  <2> QED
    BY <1>5, <2>2, <2>3
<1>19. DeliveredIsAnswered'
  <2> SUFFICES ASSUME NEW d \in Deliveries, delivery'[d].status = "delivered", NEW s \in delivery'[d].items
               PROVE  attempt'[<<d, s>>] # None
    BY DEF DeliveredIsAnswered
  <2>1. s \in delivery[d].items /\ <<d, s>> \in Items
    BY <1>7 DEF DispatchInv, DispatchTypes, Rows, Items
  <2>2. CASE delivery[d].status = "delivered"
    BY <1>5, <2>1, <2>2 DEF AnswerInv, DeliveredIsAnswered
  <2>3. CASE delivery[d].status # "delivered"
    <3>1. d = t.d /\ t.full
      BY <1>6, <1>7, <2>3
    <3>2. s \in DOMAIN t.answers \/ attempt[<<t.d, s>>] # None
      BY <1>4, <2>1, <3>1 DEF Opened
    <3> QED
      BY <1>4, <1>5, <2>1, <3>1, <3>2
  <2> QED
    BY <2>2, <2>3
<1>20. ConfirmedIsRecorded' /\ ShownIsRecorded'
  BY <1>3, <1>8, ConfirmsOld, ShowsOld
<1> QED
  BY <1>10, <1>15, <1>16, <1>17, <1>18, <1>19, <1>20 DEF AnswerInv

(* The COMMIT of finalizeAnswers, refused or not. *)
LEMMA CommitKeeps ==
    ASSUME DispatchInv, AnswerInv, DispatchInv', NEW r \in Responders, CommitAnswers(r)
    PROVE  AnswerInv'
<1>1. CASE TakenMeanwhile(responder[r])
  <2>1. /\ Failed(r) /\ UNCHANGED <<delivery, attempt, submission, days, streak>>
        /\ UNCHANGED <<inbound, provider, now, due, refell, call, accepted, update, pending, keyboard, recorded>>
    BY <1>1 DEF CommitAnswers
  <2> QED
    BY <2>1, Fail
<1> QED
  BY <1>1, CommitStores

(* A commit finds its delivery sent. *)
LEMMA CommitFinds ==
    ASSUME AnswerInv, NEW r \in Responders, CommitAnswers(r)
    PROVE  responder[r].d \in Deliveries /\ delivery[responder[r].d].status \in Sent
  BY DEF CommitAnswers, AnswerInv, TaskOK, Fits, Opened

-----------------------------------------------------------------------------
(* Initially nothing is sent and nothing is answered. *)
LEMMA Initially == Init => DispatchInv /\ AnswerInv
<1> SUFFICES ASSUME Init PROVE DispatchInv /\ AnswerInv
  OBVIOUS
<1>1. /\ \A d \in Deliveries : delivery[d] = NoDelivery /\ accepted[d] = 0
      /\ \A c \in Calls : call[c] = NoCall
      /\ \A r \in Responders : responder[r] = NoTask
      /\ \A i \in Items : attempt[i] = None
      /\ \A u \in Updates : update[u] = NoUpdate
      /\ \A s \in Submissions : submission[s] = None
      /\ page = NoPage /\ streak = NoStreak /\ days = {} /\ pending = {}
  BY DEF Init
<1>2. NoDelivery \in Rows /\ NoCall \in CallSet /\ NoTask \in Tasks /\ NoPage \in Pages
  <2>1. 0 \in 0 .. MaxDay + Lifetime
    BY BoundsAssumption
  <2> QED
    BY <2>1 DEF NoDelivery, Rows, Statuses, NoCall, CallSet, Steps, NoTask, Tasks, NoPage, Pages, Answerings
<1>3. DispatchTypes
  BY <1>2, BoundsAssumption DEF Init, DispatchTypes
<1>4. /\ \A d \in Deliveries : DeliveryOK(d) /\ ~Live(d)
  BY <1>1, NullAssumption DEF DeliveryOK, NoDelivery, Live, Sent
<1>5. /\ \A c \in Calls : CallOK(c)
      /\ LockHeld
  BY <1>1 DEF CallOK, LockHeld, NoCall
<1>6. DispatchInv
  BY <1>3, <1>4, <1>5 DEF DispatchInv, OneLivePerProvider
<1>7. AnswerTypes
  BY <1>1, <1>2 DEF Init, AnswerTypes, NoStreak
<1>8. /\ PageOK /\ ShownIsRecorded
      /\ \A r \in Responders : TaskOK(r)
      /\ \A sub \in Submissions : SubmissionOK(sub)
  BY <1>1 DEF PageOK, ShownIsRecorded, NoPage, TaskOK, Fits, NoTask, SubmissionOK
<1>9. AnsweredIsSubmitted /\ ConfirmedIsRecorded
  BY <1>1 DEF AnsweredIsSubmitted, ConfirmedIsRecorded
<1>10. DeliveredIsAnswered
  BY <1>1, NullAssumption DEF DeliveredIsAnswered, NoDelivery
<1>11. StreakEarned
  BY <1>1 DEF StreakEarned, NoStreak
<1> QED
  BY <1>6, <1>7, <1>8, <1>9, <1>10, <1>11 DEF AnswerInv

(* The invariant of the review messages: what the dispatches and the answers *)
(* rest on, each of which a step of either keeps.                            *)
THEOREM DeliveryInvariant == Spec => [](DispatchInv /\ AnswerInv)
<1>1. DispatchInv /\ AnswerInv /\ [Next]_vars => (DispatchInv /\ AnswerInv)'
  <2> SUFFICES ASSUME DispatchInv, AnswerInv, [Next]_vars PROVE (DispatchInv /\ AnswerInv)'
    OBVIOUS
  <2>1. ASSUME NEW c \in Calls, Dispatching(c) PROVE (DispatchInv /\ AnswerInv)'
    <3>1. UNCHANGED <<inboxVars, answerVars>>
      BY <2>1 DEF Dispatching, StartDispatch, ReserveDueBatch, InsertDelivery, ClaimDispatch, Send,
         MarkSubmitted, MarkDispatchFailed, StopDispatch
    <3> QED
      BY <2>1, <3>1, DispatchKeeps, DispatchLeaves, Elsewhere
  <2>2. ASSUME UNCHANGED <<dispatchVars, inboxVars, answerVars>>, DispatchInv' PROVE AnswerInv'
    BY <2>2, Elsewhere DEF dispatchVars, Leaves
  <2>3. ASSUME NEW p \in Providers, UpdatePreference(p) PROVE (DispatchInv /\ AnswerInv)'
    BY <2>2, <2>3, OthersKeep DEF UpdatePreference
  <2>4. ASSUME NEW d \in Deliveries, NEW s \in Schedules, NEW a \in Answers, PressButton(d, s, a)
        PROVE  (DispatchInv /\ AnswerInv)'
    BY <2>4, OthersKeep, Presses
  <2>5. ASSUME NEW d \in Deliveries, OpenLink(d) PROVE (DispatchInv /\ AnswerInv)'
    BY <2>5, OthersKeep, Opens
  <2>6. ASSUME NEW r \in Responders, Responding(r) PROVE (DispatchInv /\ AnswerInv)'
    <3>1. CASE CommitAnswers(r)
      <4>1. responder \in [Responders -> Tasks]
        BY DEF AnswerInv, AnswerTypes
      <4> QED
        BY <3>1, <4>1, CommitFinds, Commits, CommitKeeps
    <3>2. CASE ~CommitAnswers(r)
      <4>1. DispatchInv'
        BY <2>6, <3>2, OthersKeep
      <4> QED
        BY <2>6, <3>2, <4>1, Handles, Submits, Finalizes, Records, Replies, Stops DEF Responding
    <3> QED
      BY <3>1, <3>2
  <2>7. CASE Tick
    BY <2>2, <2>7, OthersKeep DEF Tick
  <2>8. ASSUME NEW s \in Schedules, FallDue(s) PROVE (DispatchInv /\ AnswerInv)'
    BY <2>2, <2>8, OthersKeep DEF FallDue
  <2>9. CASE UNCHANGED vars
    BY <2>2, <2>9, OthersKeep DEF vars
  <2> QED
    BY <2>1, <2>3, <2>4, <2>5, <2>6, <2>7, <2>8, <2>9 DEF Next
<1> QED
  BY Initially, <1>1, PTL DEF Spec

(* However dispatches overlap, fail and stop, the provider takes the message *)
(* of a delivery at most once, and a schedule is in one live delivery of a   *)
(* provider (claimDispatch, reserveDueBatch and markDispatchFailed).         *)
THEOREM OneDeliveryEach == Spec => []OneDelivery
<1>1. DispatchInv /\ AnswerInv => OneDelivery
  <2> SUFFICES ASSUME DispatchInv, AnswerInv PROVE OneDelivery
    OBVIOUS
  <2>1. TypeOK
    BY DEF DispatchInv, DispatchTypes, DeliveryOK, AnswerInv, AnswerTypes, TypeOK, Rows, Statuses
  <2>2. AcceptedOnce
    BY DEF DispatchInv, DeliveryOK, AcceptedOnce
  <2> QED
    BY <2>1, <2>2 DEF OneDelivery, DispatchInv
<1> QED
  BY DeliveryInvariant, <1>1, PTL

(* An answer that was confirmed to Telegram, shown on the page or counted in *)
(* the streak is stored, of a message that was sent (finalizeAnswers,        *)
(* handleTelegramUpdate, submitEmail, updateStreak).                         *)
THEOREM AnswersAreKept == Spec => []AnswersKept
<1>1. AnswerInv => AnswersKept
  BY DEF AnswerInv, AnswersKept
<1> QED
  BY DeliveryInvariant, <1>1, PTL

(* The first answer to an item stands: no submission of the same or of another *)
(* channel replaces it (the unique index behind finalizeAnswers).              *)
THEOREM FirstAnswersStand == Spec => FirstAnswerStands
<1>1. DispatchInv /\ AnswerInv /\ [Next]_vars => [\A i \in Items : attempt[i] # None => attempt'[i] = attempt[i]]_vars
  <2> SUFFICES ASSUME DispatchInv, AnswerInv, Next PROVE \A i \in Items : attempt[i] # None => attempt'[i] = attempt[i]
    OBVIOUS
  <2>1. CASE attempt' = attempt
    BY <2>1
  <2>2. ASSUME NEW r \in Responders, CommitAnswers(r), attempt' # attempt
        PROVE  \A i \in Items : attempt[i] # None => attempt'[i] = attempt[i]
    <3>1. PICK t : t = responder[r]
      OBVIOUS
    <3>2. /\ ~TakenMeanwhile(t)
          /\ attempt' = [i \in Items |-> IF i[1] = t.d /\ i[2] \in t.stored THEN t.answers[i[2]] ELSE attempt[i]]
      BY <2>2, <3>1 DEF CommitAnswers
    <3>3. \A i \in Items : i = <<i[1], i[2]>>
      BY DEF Items
    <3> QED
      BY <3>2, <3>3 DEF TakenMeanwhile
  <2>3. ASSUME NEW r \in Responders, Responding(r), ~CommitAnswers(r) PROVE attempt' = attempt
    <3>1. FinalizeAnswers(r) => attempt' = attempt
      BY Zenon DEF FinalizeAnswers
    <3>2. Reply(r) => attempt' = attempt
      BY Zenon DEF Reply
    <3>3. StopResponder(r) => attempt' = attempt
      BY Zenon DEF StopResponder
    <3> QED
      BY <2>3, <3>1, <3>2, <3>3 DEF Responding, HandleTelegramUpdate, SubmitEmail, RecordKnowledge
  <2>4. ASSUME NEW c \in Calls, Dispatching(c) PROVE attempt' = attempt
    BY <2>4 DEF Dispatching, StartDispatch, ReserveDueBatch, InsertDelivery, ClaimDispatch, Send,
       MarkSubmitted, MarkDispatchFailed, StopDispatch, answerVars
  <2>5. (\E d \in Deliveries : OpenLink(d)) => attempt' = attempt
    <3> SUFFICES ASSUME NEW d \in Deliveries, OpenLink(d) PROVE attempt' = attempt
      OBVIOUS
    <3>1. UNCHANGED <<inbound, provider, now, due, refell, dispatchVars, update, pending, keyboard, answerVars>>
      BY Zenon DEF OpenLink
    <3> QED
      BY <3>1 DEF answerVars
  <2> QED
    BY <2>1, <2>2, <2>3, <2>4, <2>5 DEF Next, UpdatePreference, PressButton, Tick, FallDue, answerVars
<1> QED
  BY DeliveryInvariant, <1>1, PTL DEF Spec, FirstAnswerStands

-----------------------------------------------------------------------------
(* The tutor (TutorLoop). *)
(***************************************************************************)

(* What the rows of the tutor consist of. *)
Bands == {"correct", "incorrect"}
Evidence == [band : Bands, here : BOOLEAN]
Masteries == {MasteryAfter(s) : s \in Seq(Bands)}
Assets == [text : Lessons, baseline : Masteries, served : Nat, cause : Nat]
Results == [outcome : {"succeeded", "stopped"}, initial : Masteries, final : Masteries,
            attempt : Nat, count : Nat]
Awaits == {"idle", "generating", "saving", "scheduling", "recording", "completing", "answered"}

TablesOK ==
    /\ status \in {"active", "completed"}
    /\ attempts \in [Concepts -> Seq(Evidence)]
    /\ projected \in [Concepts -> Nat] /\ \A c \in Concepts : projected[c] <= Len(attempts[c])
    /\ exposed \in [Concepts -> Nat \cup {Null}]
    /\ \A c \in Concepts : exposed[c] \in 0..Len(attempts[c]) \cup {Null}
    /\ reteach \in [Concepts -> Seq(Assets)]
    /\ loop \in [Concepts -> Results \cup {Null}]
    /\ scheduled \in [Concepts -> SUBSET Nat]
    /\ asked \in [AskKeys -> (SUBSET Spans) \cup {Null}]
CallersOK ==
    /\ phase \in [Callers -> Awaits]
    /\ job = [r \in Callers |-> job[r]] /\ reply = [r \in Callers |-> reply[r]]

(* The text that the n-th replacement of c is to differ from. *)
Prior(c, n) == IF n = 1 THEN Original[c] ELSE reteach[c][n - 1].text
Differs(text, c, n) == Prior(c, n) # Null => Strategy[text] # Strategy[Prior(c, n)]

(* A lesson is stored before its row, after an attempt, and differs from   *)
(* the one before it.                                                      *)
LessonsOK(c) ==
    /\ Len(reteach[c]) <= MaxReteaches
    /\ \A i \in 1..Len(reteach[c]) :
         /\ reteach[c][i].text \in objects
         /\ reteach[c][i].served \in 1..Len(attempts[c])
         /\ Differs(reteach[c][i].text, c, i)
         /\ reteach[c][i].baseline = reteach[c][1].baseline

(* The result of a loop is earned, by an attempt and lessons that exist. *)
ResultOK(c) ==
    /\ scheduled[c] \subseteq 1..Len(attempts[c])
    /\ loop[c] # Null =>
        LET rec == loop[c] IN
        /\ rec.attempt \in 1..Len(attempts[c])
        /\ rec.count \in 1..Len(reteach[c])
        /\ attempts[c][rec.attempt].here
        /\ rec.attempt > reteach[c][rec.count].served
        /\ rec.initial = reteach[c][1].baseline
        /\ IF rec.outcome = "succeeded"
           THEN attempts[c][rec.attempt].band = "correct" /\ rec.final > rec.initial
           ELSE attempts[c][rec.attempt].band # "correct" /\ rec.count = 2
        /\ rec.outcome = "stopped" => rec.attempt \in scheduled[c]

(* What a call may count on at its await, whatever the others have done    *)
(* since it read the session.                                              *)
Planned(g) ==
    /\ g.concept \in Concepts
    /\ g.ordinal \in 1..MaxReteaches /\ g.ordinal - 1 <= Len(reteach[g.concept])
    /\ g.baseline \in Masteries /\ g.cause \in Nat
Judged(g) ==
    /\ g.concept \in Concepts /\ g.record \in Results
    /\ g.record.attempt \in 1..Len(attempts[g.concept])
JobOK(r) ==
    /\ phase[r] = "generating" =>
         /\ Planned(job[r]) /\ Len(attempts[job[r].concept]) >= 1
         /\ job[r].prior = Prior(job[r].concept, job[r].ordinal)
    /\ phase[r] = "saving" =>
         /\ Planned(job[r]) /\ job[r].served \in 1..Len(attempts[job[r].concept])
         /\ job[r].text \in Lessons \cap objects
         /\ Differs(job[r].text, job[r].concept, job[r].ordinal)
    /\ phase[r] = "scheduling" => Judged(job[r])
    /\ phase[r] = "recording" =>
         /\ Judged(job[r])
         /\ job[r].record.outcome = "stopped" =>
              job[r].record.attempt \in scheduled[job[r].concept]
    /\ phase[r] = "answered" => job[r].key \in AskKeys /\ job[r].cites \in SUBSET Spans

(* What a call has answered is in the tables. *)
ReplyOK(r) ==
    /\ reply[r].kind = "reteach" =>
         /\ reply[r].concept \in Concepts
         /\ reply[r].ordinal \in 1..Len(reteach[reply[r].concept])
         /\ reteach[reply[r].concept][reply[r].ordinal].text = reply[r].text
    /\ reply[r].kind = "answer" =>
         /\ reply[r].key \in AskKeys /\ reply[r].cites \in SUBSET Spans
         /\ asked[reply[r].key] = reply[r].cites

TutorInv ==
    /\ TablesOK /\ CallersOK
    /\ \A c \in Concepts : LessonsOK(c) /\ ResultOK(c)
    /\ \A r \in Callers : JobOK(r) /\ ReplyOK(r)

(* What no step takes back. *)
TutorGrows ==
    /\ \A c \in Concepts :
         /\ Len(attempts[c]) <= Len(attempts'[c])
         /\ \A i \in 1..Len(attempts[c]) : attempts'[c][i] = attempts[c][i]
         /\ Len(reteach[c]) <= Len(reteach'[c])
         /\ \A i \in 1..Len(reteach[c]) : reteach'[c][i] = reteach[c][i]
         /\ scheduled[c] \subseteq scheduled'[c]
         /\ loop[c] # Null => loop'[c] = loop[c]
    /\ objects \subseteq objects'
    /\ \A k \in AskKeys : asked[k] # Null => asked'[k] = asked[k]

-----------------------------------------------------------------------------
(* The sequences of the rows. *)
LEMMA AppendedTo ==
    ASSUME NEW S, NEW s \in Seq(S), NEW x \in S
    PROVE  /\ Append(s, x) \in Seq(S) /\ Len(Append(s, x)) = Len(s) + 1 /\ Len(s) \in Nat
           /\ \A i \in 1..Len(s) : Append(s, x)[i] = s[i]
           /\ Append(s, x)[Len(s) + 1] = x
  OBVIOUS

(* An element of a sequence. *)
LEMMA ElementOf ==
    ASSUME NEW S, NEW s \in Seq(S)
    PROVE  Len(s) \in Nat /\ \A i \in 1..Len(s) : s[i] \in S
  OBVIOUS

(* The concept that comes first. *)
LEMMA FirstIsOne ==
    ASSUME NEW S \in SUBSET Concepts, S # {}
    PROVE  First(S) \in S
<1> DEFINE Below == OpToRel(<, Nat)
<1>1. IsWellFoundedOn(Below, Nat)
  BY NatLessThanWellFounded
<1> DEFINE T == {Order[c] : c \in S}
<1>2. T \subseteq Nat /\ T # {}
  BY TutorAssumption
<1>3. PICK n \in T : \A m \in T : ~(<<m, n>> \in Below)
  <2> HIDE DEF T, Below
  <2> QED BY <1>1, <1>2, WFMin
<1>4. \A m \in T : n <= m
  <2> SUFFICES ASSUME NEW m \in T PROVE n <= m
    OBVIOUS
  <2>1. m \in Nat /\ n \in Nat
    BY <1>2
  <2>2. ~(m < n)
    BY <1>3, <2>1 DEF OpToRel
  <2> QED BY <2>1, <2>2
<1>5. PICK c \in S : Order[c] = n
  OBVIOUS
<1>6. \A d \in S : Order[c] <= Order[d]
  BY <1>4, <1>5
<1> QED BY <1>6 DEF First

(* The mastery is one of the masteries. *)
LEMMA MasteryTyped ==
    ASSUME TablesOK, NEW c \in Concepts
    PROVE  Mastery(c) \in Masteries
<1>1. /\ attempts[c] \in Seq(Evidence) /\ projected[c] \in Nat /\ projected[c] <= Len(attempts[c])
  BY DEF TablesOK
<1>2. \A i \in 1..projected[c] : attempts[c][i] \in Evidence
  BY <1>1
<1> DEFINE bands == [i \in 1..projected[c] |-> attempts[c][i].band]
<1>3. \A i \in 1..projected[c] : attempts[c][i].band \in Bands
  BY <1>2 DEF Evidence
<1>4. bands \in Seq(Bands)
  BY <1>1, <1>3
<1> QED BY <1>4 DEF Mastery, Masteries

-----------------------------------------------------------------------------
(* What the others leave alone stays as it was while the tables grow.      *)

(* The text that a replacement is to differ from stays. *)
LEMMA PriorStays ==
    ASSUME TablesOK, TutorGrows, NEW c \in Concepts, NEW n \in Nat, n >= 1, n - 1 <= Len(reteach[c])
    PROVE  Prior(c, n) = Prior(c, n)'
<1>1. CASE n = 1
  BY <1>1 DEF Prior
<1>2. CASE n # 1
  <2>1. n - 1 \in 1..Len(reteach[c])
    BY <1>2 DEF TablesOK
  <2> QED BY <1>2, <2>1 DEF Prior, TutorGrows
<1> QED BY <1>1, <1>2

(* So does what a call may count on. *)
LEMMA JobsStay ==
    ASSUME TablesOK, TablesOK', TutorGrows, NEW r \in Callers, JobOK(r),
           phase'[r] = phase[r], job'[r] = job[r]
    PROVE  JobOK(r)'
<1> DEFINE g == job[r]
           c == g.concept
<1>1. ASSUME Planned(g)
      PROVE  /\ Planned(g)' /\ Prior(c, g.ordinal)' = Prior(c, g.ordinal)
             /\ Len(attempts[c]) \in Nat /\ Len(attempts'[c]) \in Nat /\ Len(attempts[c]) <= Len(attempts'[c])
  <2>1. c \in Concepts /\ g.ordinal \in Nat /\ g.ordinal >= 1 /\ g.ordinal - 1 <= Len(reteach[c])
    BY <1>1, TutorAssumption DEF Planned
  <2>2. /\ Len(reteach[c]) \in Nat /\ Len(reteach'[c]) \in Nat /\ Len(reteach[c]) <= Len(reteach'[c])
        /\ Len(attempts[c]) \in Nat /\ Len(attempts'[c]) \in Nat /\ Len(attempts[c]) <= Len(attempts'[c])
    BY <2>1 DEF TablesOK, TutorGrows
  <2>3. g.ordinal - 1 <= Len(reteach'[c])
    BY <2>1, <2>2
  <2>4. Prior(c, g.ordinal)' = Prior(c, g.ordinal)
    BY <2>1, PriorStays
  <2> QED BY <1>1, <2>2, <2>3, <2>4 DEF Planned
<1>2. ASSUME Judged(g)
      PROVE  Judged(g)' /\ scheduled[c] \subseteq scheduled'[c]
  <2>1. c \in Concepts /\ g.record.attempt \in 1..Len(attempts[c])
    BY <1>2 DEF Judged
  <2>2. Len(attempts[c]) \in Nat /\ Len(attempts'[c]) \in Nat /\ Len(attempts[c]) <= Len(attempts'[c])
    BY <2>1 DEF TablesOK, TutorGrows
  <2>3. g.record.attempt \in 1..Len(attempts'[c])
    BY <2>1, <2>2
  <2> QED BY <1>2, <2>1, <2>3 DEF Judged, TutorGrows
<1>3. CASE phase[r] = "generating"
  <2>1. Planned(g) /\ Len(attempts[c]) >= 1 /\ g.prior = Prior(c, g.ordinal)
    BY <1>3 DEF JobOK
  <2>2. Len(attempts'[c]) >= 1
    BY <1>1, <2>1
  <2> QED BY <1>1, <1>3, <2>1, <2>2 DEF JobOK
<1>4. CASE phase[r] = "saving"
  <2>1. /\ Planned(g) /\ g.served \in 1..Len(attempts[c]) /\ g.text \in Lessons \cap objects
        /\ Differs(g.text, c, g.ordinal)
    BY <1>4 DEF JobOK
  <2>2. g.served \in 1..Len(attempts'[c])
    BY <1>1, <2>1
  <2>3. g.text \in Lessons \cap objects'
    BY <2>1 DEF TutorGrows
  <2>4. Differs(g.text, c, g.ordinal)'
    BY <1>1, <2>1 DEF Differs
  <2> QED BY <1>1, <1>4, <2>1, <2>2, <2>3, <2>4 DEF JobOK
<1>5. CASE phase[r] = "scheduling"
  BY <1>2, <1>5 DEF JobOK
<1>6. CASE phase[r] = "recording"
  BY <1>2, <1>6 DEF JobOK
<1>7. CASE phase[r] \notin {"generating", "saving", "scheduling", "recording"}
  BY <1>7 DEF JobOK
<1> QED BY <1>3, <1>4, <1>5, <1>6, <1>7

(* And what a call has answered. *)
LEMMA RepliesStay ==
    ASSUME TablesOK, TablesOK', TutorGrows, NEW r \in Callers, ReplyOK(r), reply'[r] = reply[r]
    PROVE  ReplyOK(r)'
<1>1. CASE reply[r].kind = "reteach"
  <2> DEFINE c == reply[r].concept
             n == reply[r].ordinal
  <2>1. c \in Concepts /\ n \in 1..Len(reteach[c]) /\ reteach[c][n].text = reply[r].text
    BY <1>1 DEF ReplyOK
  <2>2. Len(reteach[c]) \in Nat /\ Len(reteach'[c]) \in Nat /\ Len(reteach[c]) <= Len(reteach'[c])
    BY <2>1 DEF TablesOK, TutorGrows
  <2>3. reteach'[c][n] = reteach[c][n]
    BY <2>1 DEF TutorGrows
  <2>4. n \in 1..Len(reteach'[c])
    BY <2>1, <2>2
  <2> HIDE DEF c, n
  <2>5. reteach'[c][n].text = reply[r].text
    BY <2>1, <2>3
  <2> USE DEF c, n
  <2> QED BY <1>1, <2>1, <2>4, <2>5 DEF ReplyOK
<1>2. CASE reply[r].kind = "answer"
  <2>1. /\ reply[r].key \in AskKeys /\ reply[r].cites \in SUBSET Spans
        /\ asked[reply[r].key] = reply[r].cites
    BY <1>2 DEF ReplyOK
  <2>2. asked[reply[r].key] # Null
    BY <2>1, TutorAssumption
  <2> QED BY <1>2, <2>1, <2>2 DEF ReplyOK, TutorGrows
<1>3. CASE reply[r].kind \notin {"reteach", "answer"}
  BY <1>3 DEF ReplyOK
<1> QED BY <1>1, <1>2, <1>3

(* The lessons of a concept stay sound if none is added. *)
LEMMA LessonsStay ==
    ASSUME TablesOK, TablesOK', TutorGrows, NEW c \in Concepts, LessonsOK(c), reteach'[c] = reteach[c]
    PROVE  LessonsOK(c)'
<1>1. Len(attempts[c]) \in Nat /\ Len(attempts'[c]) \in Nat /\ Len(attempts[c]) <= Len(attempts'[c])
  BY DEF TablesOK, TutorGrows
<1>2. ASSUME NEW i \in 1..Len(reteach[c])
      PROVE  reteach[c][i].served \in 1..Len(attempts'[c]) /\ reteach[c][i].text \in objects'
  BY <1>1, <1>2 DEF LessonsOK, TutorGrows
<1>3. \A i \in 1..Len(reteach[c]) : Differs(reteach[c][i].text, c, i)' = Differs(reteach[c][i].text, c, i)
  BY DEF Differs, Prior
<1> QED BY <1>2, <1>3 DEF LessonsOK

(* The result of a loop that stays is as earned as it was. *)
LEMMA ResultsStay ==
    ASSUME TablesOK, TablesOK', TutorGrows, NEW c \in Concepts, LessonsOK(c), ResultOK(c), loop'[c] = loop[c],
           scheduled'[c] \subseteq 1..Len(attempts'[c])
    PROVE  ResultOK(c)'
<1>1. /\ Len(attempts[c]) \in Nat /\ Len(attempts'[c]) \in Nat /\ Len(attempts[c]) <= Len(attempts'[c])
      /\ Len(reteach[c]) \in Nat /\ Len(reteach'[c]) \in Nat /\ Len(reteach[c]) <= Len(reteach'[c])
  BY DEF TablesOK, TutorGrows
<1>2. CASE loop[c] = Null
  BY <1>2 DEF ResultOK
<1>3. CASE loop[c] # Null
  <2> DEFINE rec == loop[c]
  <2>1. rec.attempt \in 1..Len(attempts[c]) /\ rec.count \in 1..Len(reteach[c])
    BY <1>3 DEF ResultOK
  <2>2. /\ rec.attempt \in 1..Len(attempts'[c]) /\ attempts'[c][rec.attempt] = attempts[c][rec.attempt]
        /\ rec.count \in 1..Len(reteach'[c]) /\ reteach'[c][rec.count] = reteach[c][rec.count]
    BY <1>1, <2>1 DEF TutorGrows
  <2>3. reteach'[c][1] = reteach[c][1]
    BY <1>1, <2>1 DEF TutorGrows
  <2>4. rec.outcome = "stopped" => rec.attempt \in scheduled'[c]
    BY <1>3 DEF ResultOK, TutorGrows
  <2> QED BY <1>3, <2>2, <2>3, <2>4 DEF ResultOK
<1> QED BY <1>2, <1>3

-----------------------------------------------------------------------------
(* What a step does to the call that makes it, and to the others. *)
Moved(r, p, j, a) ==
    /\ phase' = [phase EXCEPT ![r] = p]
    /\ job' = [job EXCEPT ![r] = j]
    /\ reply' = [reply EXCEPT ![r] = a]

(* A call that moves: the others stay where they are. *)
LEMMA CallMoves ==
    ASSUME CallersOK, NEW r \in Callers, NEW p \in Awaits, NEW j, NEW a, Moved(r, p, j, a)
    PROVE  /\ CallersOK' /\ phase'[r] = p /\ job'[r] = j /\ reply'[r] = a
           /\ \A q \in Callers : q # r => phase'[q] = phase[q] /\ job'[q] = job[q] /\ reply'[q] = reply[q]
  BY DEF CallersOK, Moved

(* A step of one call keeps the invariant if it keeps what it is itself    *)
(* about: its tables, its job and its answer.                              *)
LEMMA CallKeeps ==
    ASSUME TutorInv, TutorGrows, TablesOK', NEW r \in Callers, NEW p \in Awaits, NEW j, NEW a, Moved(r, p, j, a),
           \A c \in Concepts : LessonsOK(c)' /\ ResultOK(c)',
           CallersOK' /\ phase'[r] = p /\ job'[r] = j /\ reply'[r] = a => JobOK(r)' /\ ReplyOK(r)'
    PROVE  TutorInv'
<1>1. /\ CallersOK' /\ phase'[r] = p /\ job'[r] = j /\ reply'[r] = a
      /\ \A q \in Callers : q # r => phase'[q] = phase[q] /\ job'[q] = job[q] /\ reply'[q] = reply[q]
  BY CallMoves DEF TutorInv
<1>2. ASSUME NEW q \in Callers PROVE JobOK(q)' /\ ReplyOK(q)'
  <2>1. CASE q = r
    BY <1>1, <2>1
  <2>2. CASE q # r
    BY <1>1, <2>2, JobsStay, RepliesStay DEF TutorInv
  <2> QED BY <2>1, <2>2
<1> QED BY <1>1, <1>2 DEF TutorInv

(* A step that leaves the tables alone, and lets a call move. *)
LEMMA OnlyCallMoves ==
    ASSUME TutorInv, UNCHANGED <<records, evidence>>, objects \subseteq objects'
    PROVE  /\ TutorGrows /\ TablesOK'
           /\ \A c \in Concepts : LessonsOK(c)' /\ ResultOK(c)'
<1>1. TutorGrows
  BY DEF TutorGrows, records, evidence, TutorInv, TablesOK
<1>2. TablesOK'
  BY DEF TablesOK, records, evidence, TutorInv
<1>3. ASSUME NEW c \in Concepts PROVE LessonsOK(c)' /\ ResultOK(c)'
  <2>1. reteach'[c] = reteach[c] /\ loop'[c] = loop[c] /\ scheduled'[c] \subseteq 1..Len(attempts'[c])
    BY DEF records, evidence, TutorInv, ResultOK
  <2> QED BY <1>1, <1>2, <2>1, LessonsStay, ResultsStay DEF TutorInv
<1> QED BY <1>1, <1>2, <1>3

(* A call that returns something else than a lesson or an answer. *)
LEMMA Returning ==
    ASSUME TutorInv, NEW r \in Callers, NEW what, Return(r, what), what.kind \notin {"reteach", "answer"},
           UNCHANGED <<records, evidence, objects>>
    PROVE  TutorInv'
<1>1. Moved(r, "idle", NoJob, what) /\ "idle" \in Awaits
  BY DEF Return, Moved, Awaits
<1>2. phase'[r] = "idle" /\ reply'[r] = what => JobOK(r)' /\ ReplyOK(r)'
  BY DEF JobOK, ReplyOK
<1> QED BY <1>1, <1>2, OnlyCallMoves, CallKeeps

(* A call that goes on to another await. *)
LEMMA Awaiting ==
    ASSUME TutorInv, NEW r \in Callers, NEW p \in Awaits, NEW j, Await(r, p, j),
           UNCHANGED <<records, evidence>>, objects \subseteq objects',
           phase'[r] = p /\ job'[r] = j => JobOK(r)'
    PROVE  TutorInv'
<1>1. Moved(r, p, j, [kind |-> "none"])
  BY DEF Await, Moved
<1>2. reply'[r] = [kind |-> "none"] => ReplyOK(r)'
  BY DEF ReplyOK
<1> QED BY <1>1, <1>2, OnlyCallMoves, CallKeeps

(* What the learner does is about no call. *)
LEMMA LearnerKeeps ==
    ASSUME TutorInv, UNCHANGED <<records, objects, calls>>, TutorGrows, TablesOK'
    PROVE  TutorInv'
<1>1. ASSUME NEW c \in Concepts PROVE LessonsOK(c)' /\ ResultOK(c)'
  <2>1. reteach'[c] = reteach[c] /\ loop'[c] = loop[c] /\ scheduled'[c] = scheduled[c]
    BY DEF records
  <2>2. Len(attempts[c]) \in Nat /\ Len(attempts'[c]) \in Nat /\ Len(attempts[c]) <= Len(attempts'[c])
    BY DEF TutorInv, TablesOK, TutorGrows
  <2>3. scheduled[c] \subseteq 1..Len(attempts[c])
    BY DEF TutorInv, ResultOK
  <2>4. scheduled'[c] \subseteq 1..Len(attempts'[c])
    BY <2>1, <2>2, <2>3
  <2> QED BY <2>1, <2>4, LessonsStay, ResultsStay DEF TutorInv
<1>2. CallersOK'
  BY DEF TutorInv, CallersOK, calls
<1>3. ASSUME NEW q \in Callers PROVE JobOK(q)' /\ ReplyOK(q)'
  BY JobsStay, RepliesStay DEF TutorInv, calls
<1> QED BY <1>1, <1>2, <1>3 DEF TutorInv

(* A lesson is completed, a question answered, or the evidence projected. *)
LEMMA LearnerSteps ==
    ASSUME TutorInv, NEW c \in Concepts, CompleteLesson(c) \/ Attempt(c) \/ Project(c)
    PROVE  TutorInv' /\ TutorGrows
<1>0. TablesOK
  BY DEF TutorInv
<1>1. CASE CompleteLesson(c)
  <2>1. UNCHANGED <<records, attempts, projected, objects, calls>> /\ exposed' = [exposed EXCEPT ![c] = Len(attempts[c])]
    BY <1>1 DEF CompleteLesson
  <2>2. TutorGrows
    BY <1>0, <2>1 DEF TutorGrows, TablesOK, records
  <2>3. Len(attempts[c]) \in Nat
    BY <1>0, ElementOf DEF TablesOK
  <2>4. TablesOK'
    BY <1>0, <2>1, <2>3 DEF TablesOK, records
  <2> QED BY <2>1, <2>2, <2>4, LearnerKeeps
<1>2. CASE Attempt(c)
  <2>1. PICK e \in Evidence : attempts' = [attempts EXCEPT ![c] = Append(attempts[c], e)]
    BY <1>2 DEF Attempt, Evidence, Bands
  <2>2. UNCHANGED <<records, projected, exposed, objects, calls>>
    BY <1>2 DEF Attempt
  <2>3. /\ attempts'[c] = Append(attempts[c], e) /\ attempts[c] \in Seq(Evidence)
        /\ \A d \in Concepts : d # c => attempts'[d] = attempts[d]
    BY <1>0, <2>1 DEF TablesOK
  <2>4. /\ attempts'[c] \in Seq(Evidence) /\ Len(attempts'[c]) = Len(attempts[c]) + 1 /\ Len(attempts[c]) \in Nat
        /\ \A i \in 1..Len(attempts[c]) : attempts'[c][i] = attempts[c][i]
    BY <2>3, AppendedTo
  <2>5. \A d \in Concepts : /\ Len(attempts[d]) \in Nat /\ Len(attempts[d]) <= Len(attempts'[d])
                           /\ Len(attempts'[d]) \in Nat
                           /\ \A i \in 1..Len(attempts[d]) : attempts'[d][i] = attempts[d][i]
    <3> SUFFICES ASSUME NEW d \in Concepts
                 PROVE  /\ Len(attempts[d]) \in Nat /\ Len(attempts[d]) <= Len(attempts'[d])
                        /\ Len(attempts'[d]) \in Nat
                        /\ \A i \in 1..Len(attempts[d]) : attempts'[d][i] = attempts[d][i]
      OBVIOUS
    <3>1. CASE d = c
      BY <2>4, <3>1
    <3>2. CASE d # c
      BY <1>0, <2>3, <3>2 DEF TablesOK
    <3> QED BY <3>1, <3>2
  <2>6. TutorGrows
    BY <1>0, <2>2, <2>5 DEF TutorGrows, TablesOK, records
  <2>7. attempts' \in [Concepts -> Seq(Evidence)]
    BY <1>0, <2>1, <2>4, <2>3 DEF TablesOK
  <2>8. ASSUME NEW d \in Concepts
        PROVE  projected[d] <= Len(attempts'[d]) /\ exposed[d] \in 0..Len(attempts'[d]) \cup {Null}
    <3>1. projected[d] \in Nat /\ projected[d] <= Len(attempts[d]) /\ exposed[d] \in 0..Len(attempts[d]) \cup {Null}
      BY <1>0 DEF TablesOK
    <3> QED BY <2>5, <3>1
  <2>9. TablesOK'
    BY <1>0, <2>2, <2>7, <2>8 DEF TablesOK, records
  <2> QED BY <2>2, <2>6, <2>9, LearnerKeeps
<1>3. CASE Project(c)
  <2>1. UNCHANGED <<records, attempts, exposed, objects, calls>> /\ projected' = [projected EXCEPT ![c] = Len(attempts[c])]
    BY <1>3 DEF Project
  <2>2. TutorGrows
    BY <1>0, <2>1 DEF TutorGrows, TablesOK, records
  <2>3. Len(attempts[c]) \in Nat
    BY <1>0, ElementOf DEF TablesOK
  <2>4. TablesOK'
    BY <1>0, <2>1, <2>3 DEF TablesOK, records
  <2> QED BY <2>1, <2>2, <2>4, LearnerKeeps
<1> QED BY <1>1, <1>2, <1>3

-----------------------------------------------------------------------------
(* What nextAction takes from the snapshot is what the rows say. *)
LEMMA GenerationPlanned ==
    ASSUME TutorInv, NEW c \in Concepts, Triggered(c)
    PROVE  /\ Planned(Generation(c)) /\ Generation(c).concept = c /\ Len(attempts[c]) >= 1
           /\ Generation(c).prior = Prior(c, Generation(c).ordinal)
<1>1. /\ Len(reteach[c]) \in Nat /\ Len(reteach[c]) < MaxReteaches /\ MaxReteaches \in Nat
      /\ Len(attempts[c]) \in Nat /\ Len(attempts[c]) >= 2
  BY TutorAssumption DEF TutorInv, TablesOK, Triggered, Latest
<1>2. Mastery(c) \in Masteries
  BY MasteryTyped DEF TutorInv
<1>3. Len(reteach[c]) > 0 => reteach[c][1].baseline \in Masteries
  <2>1. reteach[c] \in Seq(Assets)
    BY DEF TutorInv, TablesOK
  <2>2. \A i \in 1..Len(reteach[c]) : reteach[c][i] \in Assets
    BY <2>1, ElementOf
  <2> QED BY <1>1, <2>2 DEF Assets
<1>4. /\ Generation(c).concept = c /\ Generation(c).ordinal = Len(reteach[c]) + 1
      /\ Generation(c).cause = Len(attempts[c]) /\ Generation(c).baseline \in Masteries
      /\ Generation(c).prior = IF Len(reteach[c]) > 0 THEN reteach[c][Len(reteach[c])].text ELSE Original[c]
  BY <1>2, <1>3 DEF Generation, Latest
<1>5. Generation(c).prior = Prior(c, Generation(c).ordinal)
  BY <1>1, <1>4 DEF Prior
<1>6. Planned(Generation(c))
  <2>1. Len(reteach[c]) + 1 \in 1..MaxReteaches /\ (Len(reteach[c]) + 1) - 1 <= Len(reteach[c])
    BY <1>1
  <2> HIDE DEF Generation
  <2> QED BY <1>1, <1>4, <2>1 DEF Planned
<1> QED BY <1>1, <1>4, <1>5, <1>6

(* So is the result of the loop. *)
LEMMA RecordJudged ==
    ASSUME TutorInv, NEW c \in Concepts, Active(c), Retested(c), NEW o \in {"succeeded", "stopped"}
    PROVE  Judged([concept |-> c, record |-> LoopRecord(c, o)])
<1>1. reteach[c] \in Seq(Assets) /\ reteach[c] # <<>> /\ Len(attempts[c]) \in Nat
  BY DEF TutorInv, TablesOK, Active
<1>2. Len(reteach[c]) \in Nat /\ Len(reteach[c]) >= 1 /\ reteach[c][1] \in Assets
  BY <1>1
<1>3. reteach[c][Len(reteach[c])].served \in 1..Len(attempts[c])
  BY <1>2 DEF TutorInv, LessonsOK
<1>4. Latest(c) \in 1..Len(attempts[c]) /\ Latest(c) \in Nat
  BY <1>1, <1>3 DEF Retested, Latest
<1>5. Mastery(c) \in Masteries
  BY MasteryTyped DEF TutorInv
<1>6. LoopRecord(c, o) \in Results /\ LoopRecord(c, o).attempt = Latest(c)
  BY <1>2, <1>4, <1>5 DEF LoopRecord, Results, Assets
<1> HIDE DEF LoopRecord
<1> QED BY <1>4, <1>6 DEF Judged

(* The snapshot and the decision. *)
LEMMA LoadKeeps ==
    ASSUME TutorInv, NEW r \in Callers, Load(r)
    PROVE  TutorInv'
<1>1. UNCHANGED <<records, evidence, objects>>
  BY DEF Load
<1>2. ASSUME Throw(r) PROVE TutorInv'
  <2>1. Return(r, [kind |-> "error"]) /\ [kind |-> "error"].kind \notin {"reteach", "answer"}
    BY <1>2 DEF Throw
  <2> QED BY <1>1, <2>1, Returning
<1>3. ASSUME NEW k \in {"retest", "review", "advance"}, NEW c, Return(r, [kind |-> k, concept |-> c]) PROVE TutorInv'
  <2>1. [kind |-> k, concept |-> c].kind \notin {"reteach", "answer"}
    BY <1>3
  <2> QED BY <1>1, <1>3, <2>1, Returning
<1>4. ASSUME NEW c \in Concepts, Triggered(c), Await(r, "generating", Generation(c)) PROVE TutorInv'
  <2>1. phase'[r] = "generating" /\ job'[r] = Generation(c) => JobOK(r)'
    <3>1. UNCHANGED <<attempts, reteach>>
      BY <1>1 DEF records, evidence
    <3>2. /\ Planned(Generation(c)) /\ Generation(c).concept = c /\ Len(attempts[c]) >= 1
          /\ Generation(c).prior = Prior(c, Generation(c).ordinal)
      BY <1>4, GenerationPlanned
    <3> HIDE DEF Generation
    <3>3. ASSUME NEW g, g = Generation(c), phase'[r] = "generating", job'[r] = g PROVE JobOK(r)'
      <4>1. /\ Planned(g)' /\ g.concept = c /\ Len(attempts'[c]) >= 1 /\ g.prior = Prior(c, g.ordinal)'
        BY <3>1, <3>2, <3>3 DEF Planned, Prior
      <4> QED BY <3>3, <4>1 DEF JobOK
    <3> QED BY <3>3
  <2>2. "generating" \in Awaits
    BY DEF Awaits
  <2> HIDE DEF Generation
  <2> QED BY <1>1, <1>4, <2>1, <2>2, Awaiting
<1>5. ASSUME NEW c \in Concepts, Active(c), Retested(c), NEW p \in {"recording", "scheduling"},
             NEW o \in {"succeeded", "stopped"}, p = "recording" => o = "succeeded",
             Await(r, p, [concept |-> c, record |-> LoopRecord(c, o)])
      PROVE  TutorInv'
  <2> DEFINE j == [concept |-> c, record |-> LoopRecord(c, o)]
  <2>1. Judged(j) /\ j.record.outcome = o
    BY <1>5, RecordJudged DEF LoopRecord
  <2> HIDE DEF j
  <2>2. phase'[r] = p /\ job'[r] = j => JobOK(r)'
    <3>1. UNCHANGED attempts
      BY <1>1 DEF evidence
    <3>2. ASSUME NEW g, g = j, phase'[r] = p, job'[r] = g PROVE JobOK(r)'
      <4>1. Judged(g)'
        BY <2>1, <3>1, <3>2 DEF Judged
      <4> QED BY <1>5, <2>1, <3>2, <4>1 DEF JobOK
    <3> QED BY <3>2
  <2>3. p \in Awaits
    BY DEF Awaits
  <2>4. Await(r, p, j)
    BY <1>5 DEF j
  <2> QED BY <1>1, <2>2, <2>3, <2>4, Awaiting
<1>6. ASSUME Await(r, "completing", NoJob) PROVE TutorInv'
  <2>1. phase'[r] = "completing" => JobOK(r)'
    BY DEF JobOK
  <2>2. "completing" \in Awaits
    BY DEF Awaits
  <2> QED BY <1>1, <1>6, <2>1, <2>2, Awaiting
<1>7. ASSUME NEW c \in Concepts, Urgent(c), Follow(r, c) PROVE TutorInv'
  <2>1. Active(c)
    BY <1>7 DEF Urgent
  <2> QED BY <1>7, <2>1, <1>2, <1>3, <1>4, <1>5 DEF Follow
<1>8. ASSUME NEW overdue, Select(r, overdue) PROVE TutorInv'
  BY <1>8, <1>3, <1>6 DEF Select
<1> DEFINE urgent == {c \in Concepts : Urgent(c)}
           triggered == {c \in Concepts : Triggered(c)}
<1>9. CASE status # "active"
  BY <1>2, <1>9 DEF Load
<1>10. CASE status = "active" /\ urgent # {}
  <2>1. Follow(r, First(urgent))
    BY <1>10 DEF Load
  <2>2. First(urgent) \in urgent
    BY <1>10, FirstIsOne
  <2>3. First(urgent) \in Concepts /\ Urgent(First(urgent))
    BY <2>2
  <2> HIDE DEF urgent
  <2> QED BY <1>7, <2>1, <2>3
<1>11. CASE status = "active" /\ urgent = {} /\ triggered # {}
  <2>1. Await(r, "generating", Generation(First(triggered)))
    BY <1>11 DEF Load
  <2>2. First(triggered) \in triggered
    BY <1>11, FirstIsOne
  <2>3. First(triggered) \in Concepts /\ Triggered(First(triggered))
    BY <2>2
  <2> HIDE DEF triggered
  <2> QED BY <1>4, <2>1, <2>3
<1>12. CASE status = "active" /\ urgent = {} /\ triggered = {}
  <2>1. \E overdue \in SUBSET {c \in Concepts : projected[c] > 0} : Select(r, overdue)
    BY <1>12 DEF Load
  <2> QED BY <1>8, <2>1
<1> QED BY <1>9, <1>10, <1>11, <1>12

(* The model is asked, and a lesson stored that differs from the prior one. *)
LEMMA GenerateKeeps ==
    ASSUME TutorInv, NEW r \in Callers, Generate(r)
    PROVE  TutorInv' /\ TutorGrows
<1>1. UNCHANGED <<records, evidence>> /\ objects \subseteq objects' /\ phase[r] = "generating"
  BY DEF Generate
<1> DEFINE G(l) == [concept |-> job[r].concept, ordinal |-> job[r].ordinal,
                    baseline |-> job[r].baseline, cause |-> job[r].cause,
                    text |-> l, served |-> Latest(job[r].concept)]
<1>2. PICK l \in Lessons : /\ Distinct(l, job[r].prior) /\ objects' = objects \cup {l}
                           /\ Await(r, "saving", G(l))
  BY DEF Generate
<1>3. /\ Planned(job[r]) /\ Len(attempts[job[r].concept]) >= 1
      /\ job[r].prior = Prior(job[r].concept, job[r].ordinal)
  BY <1>1 DEF TutorInv, JobOK
<1>4. ASSUME NEW g, g = G(l), phase'[r] = "saving", job'[r] = g PROVE JobOK(r)'
  <2>1. g.concept = job[r].concept /\ g.ordinal = job[r].ordinal /\ g.text = l
    BY <1>4
  <2>2. Planned(g) /\ g.served = Len(attempts[g.concept]) /\ g.concept \in Concepts
    BY <1>3, <1>4 DEF Planned, Latest
  <2>3. UNCHANGED <<attempts, reteach>>
    BY <1>1 DEF records, evidence
  <2>4. Planned(g)' /\ g.served \in 1..Len(attempts'[g.concept])
    <3>1. Len(attempts[g.concept]) \in Nat /\ Len(attempts[g.concept]) >= 1
      BY <1>3, <2>1, <2>2 DEF TutorInv, TablesOK
    <3>2. g.served \in 1..Len(attempts[g.concept])
      BY <2>2, <3>1
    <3> QED BY <2>2, <2>3, <3>2 DEF Planned
  <2>5. Differs(g.text, g.concept, g.ordinal)
    BY <1>2, <1>3, <2>1 DEF Differs, Distinct
  <2>6. Differs(g.text, g.concept, g.ordinal)'
    BY <2>3, <2>5 DEF Differs, Prior
  <2>7. g.text \in Lessons \cap objects'
    BY <1>2, <2>1
  <2> QED BY <1>4, <2>4, <2>6, <2>7 DEF JobOK
<1>5. "saving" \in Awaits
  BY DEF Awaits
<1> HIDE DEF G
<1>6. phase'[r] = "saving" /\ job'[r] = G(l) => JobOK(r)'
  BY <1>4
<1>7. TutorInv'
  BY <1>1, <1>2, <1>5, <1>6, Awaiting
<1> QED BY <1>1, <1>7, OnlyCallMoves

(* The row of the lesson, if it is the next one; the row that is there     *)
(* already, if it is the same one.                                         *)
LEMMA SaveKeeps ==
    ASSUME TutorInv, NEW r \in Callers, Save(r)
    PROVE  TutorInv' /\ TutorGrows
<1> SUFFICES ASSUME NEW g, g = job[r], NEW c, c = g.concept
             PROVE  TutorInv' /\ TutorGrows
  OBVIOUS
<1> DEFINE what == [kind |-> "reteach", concept |-> c, ordinal |-> g.ordinal, text |-> g.text]
<1>0. /\ phase[r] = "saving" /\ Expected(g) /\ UNCHANGED <<status, loop, scheduled, asked, evidence, objects>>
  BY DEF Save
<1>1. /\ Planned(g) /\ g.served \in 1..Len(attempts[c]) /\ g.text \in Lessons \cap objects
      /\ Differs(g.text, c, g.ordinal)
  BY <1>0 DEF TutorInv, JobOK
<1>2. c \in Concepts /\ reteach[c] \in Seq(Assets) /\ g.ordinal \in Nat /\ g.ordinal >= 1 /\ g.ordinal <= MaxReteaches
      /\ Len(reteach[c]) \in Nat /\ Len(attempts[c]) \in Nat
  BY <1>1, TutorAssumption DEF Planned, TutorInv, TablesOK
<1>3. Len(reteach[c]) = g.ordinal - 1 \/ Len(reteach[c]) = g.ordinal
  BY <1>0 DEF Expected
<1>4. CASE UNCHANGED reteach /\ Return(r, what) /\ Len(reteach[c]) = g.ordinal /\ SameAsset(g)
  <2>1. UNCHANGED <<records, evidence, objects>>
    BY <1>0, <1>4 DEF records
  <2>2. ASSUME reply'[r] = what, phase'[r] = "idle" PROVE JobOK(r)' /\ ReplyOK(r)'
    <3>1. g.ordinal \in 1..Len(reteach'[c]) /\ reteach'[c][g.ordinal].text = g.text
      BY <1>2, <1>4 DEF SameAsset
    <3>2. /\ reply'[r].kind = "reteach" /\ reply'[r].concept = c /\ reply'[r].ordinal = g.ordinal
          /\ reply'[r].text = g.text
      BY <2>2
    <3> HIDE DEF what
    <3> QED BY <1>2, <2>2, <3>1, <3>2 DEF JobOK, ReplyOK
  <2>3. Moved(r, "idle", NoJob, what) /\ "idle" \in Awaits
    BY <1>4 DEF Return, Moved, Awaits
  <2> HIDE DEF what
  <2>4. TutorGrows /\ TutorInv'
    BY <2>1, <2>2, <2>3, OnlyCallMoves, CallKeeps
  <2> QED BY <2>4
<1>5. CASE UNCHANGED reteach /\ Throw(r)
  <2>1. UNCHANGED <<records, evidence, objects>>
    BY <1>0, <1>5 DEF records
  <2>2. Return(r, [kind |-> "error"]) /\ [kind |-> "error"].kind \notin {"reteach", "answer"}
    BY <1>5 DEF Throw
  <2> QED BY <2>1, <2>2, Returning, OnlyCallMoves
<1>6. CASE reteach' = [reteach EXCEPT ![c] = Append(reteach[c], Asset(g))] /\ Return(r, what) /\ Len(reteach[c]) = g.ordinal - 1
  <2>0. PICK a : a = Asset(g)
    OBVIOUS
  <2>1. a \in Assets /\ a.text = g.text /\ a.served = g.served /\ a.baseline = g.baseline
    BY <1>1, <1>2, <2>0 DEF Asset, Assets, Planned
  <2>2. reteach'[c] = Append(reteach[c], a) /\ \A d \in Concepts : d # c => reteach'[d] = reteach[d]
    BY <1>2, <1>6, <2>0 DEF TutorInv, TablesOK
  <2>3. /\ reteach'[c] \in Seq(Assets) /\ Len(reteach'[c]) = Len(reteach[c]) + 1
        /\ \A i \in 1..Len(reteach[c]) : reteach'[c][i] = reteach[c][i]
        /\ reteach'[c][Len(reteach[c]) + 1] = a
    BY <1>2, <2>1, <2>2, AppendedTo
  <2>4. g.ordinal \in 1..Len(reteach'[c]) /\ Len(reteach'[c]) = g.ordinal /\ reteach'[c][g.ordinal] = a
        /\ Len(reteach[c]) <= Len(reteach'[c]) /\ Len(reteach[c]) + 1 = g.ordinal
    BY <1>2, <1>6, <2>3
  <2>5. ASSUME NEW d \in Concepts
        PROVE  Len(reteach[d]) <= Len(reteach'[d]) /\ \A i \in 1..Len(reteach[d]) : reteach'[d][i] = reteach[d][i]
    <3>1. CASE d = c
      BY <2>3, <2>4, <3>1
    <3>2. CASE d # c
      BY <2>2, <3>2 DEF TutorInv, TablesOK
    <3> QED BY <3>1, <3>2
  <2>6. UNCHANGED <<attempts, scheduled, loop, objects, asked, status, projected, exposed>>
    BY <1>0 DEF evidence
  <2>7. TutorGrows
    <3>1. \A d \in Concepts : Len(attempts[d]) \in Nat
      BY DEF TutorInv, TablesOK
    <3> QED BY <2>5, <2>6, <3>1 DEF TutorGrows
  <2>8. TablesOK'
    <3>1. reteach' \in [Concepts -> Seq(Assets)]
      BY <1>2, <1>6, <2>2, <2>3 DEF TutorInv, TablesOK
    <3> QED BY <2>6, <3>1 DEF TutorInv, TablesOK
  <2>9. LessonsOK(c)'
    <3>1. Prior(c, g.ordinal)' = Prior(c, g.ordinal)
      BY <1>2, <1>6, <2>7, PriorStays DEF TutorInv
    <3>2. Differs(a.text, c, g.ordinal)'
      BY <1>1, <2>1, <3>1 DEF Differs
    <3>3. reteach'[c][1].baseline = IF Len(reteach[c]) = 0 THEN a.baseline ELSE reteach[c][1].baseline
      BY <1>2, <2>3
    <3>4. a.baseline = reteach'[c][1].baseline
      <4>1. CASE Len(reteach[c]) = 0
        BY <3>3, <4>1
      <4>2. CASE Len(reteach[c]) # 0
        BY <1>0, <1>2, <2>1, <3>3, <4>2 DEF Expected
      <4> QED BY <4>1, <4>2
    <3>5. ASSUME NEW i \in 1..Len(reteach'[c])
          PROVE  /\ reteach'[c][i].text \in objects' /\ reteach'[c][i].served \in 1..Len(attempts'[c])
                 /\ Differs(reteach[c][i].text, c, i)'
                 /\ reteach'[c][i].baseline = reteach'[c][1].baseline
      <4>1. CASE i \in 1..Len(reteach[c])
        <5>1. reteach'[c][i] = reteach[c][i] /\ i \in Nat /\ i >= 1 /\ i - 1 <= Len(reteach[c]) /\ Len(reteach[c]) # 0
          BY <1>2, <2>3, <4>1
        <5>2. /\ reteach[c][i].text \in objects /\ reteach[c][i].served \in 1..Len(attempts[c])
              /\ Differs(reteach[c][i].text, c, i) /\ reteach[c][i].baseline = reteach[c][1].baseline
          BY <1>2, <4>1 DEF TutorInv, LessonsOK
        <5>3. Prior(c, i)' = Prior(c, i)
          BY <1>2, <2>7, <5>1, PriorStays DEF TutorInv
        <5>4. Differs(reteach[c][i].text, c, i)'
          BY <5>1, <5>2, <5>3 DEF Differs
        <5> QED BY <2>6, <3>3, <5>1, <5>2, <5>4
      <4>2. CASE i = g.ordinal
        BY <1>1, <2>1, <2>4, <2>6, <3>2, <3>4, <4>2 DEF Differs
      <4>3. i \in 1..Len(reteach[c]) \/ i = g.ordinal
        BY <1>2, <2>4
      <4> QED BY <4>1, <4>2, <4>3
    <3>6. Len(reteach'[c]) <= MaxReteaches
      BY <1>2, <2>4
    <3> QED BY <3>5, <3>6 DEF LessonsOK
  <2>10. ASSUME NEW d \in Concepts PROVE LessonsOK(d)' /\ ResultOK(d)'
    <3>1. LessonsOK(d)'
      <4>1. CASE d = c
        BY <2>9, <4>1
      <4>2. CASE d # c
        BY <2>2, <2>7, <2>8, <4>2, LessonsStay DEF TutorInv
      <4> QED BY <4>1, <4>2
    <3>2. scheduled'[d] \subseteq 1..Len(attempts'[d]) /\ loop'[d] = loop[d]
      BY <2>6 DEF TutorInv, ResultOK
    <3> QED BY <2>7, <2>8, <3>1, <3>2, ResultsStay DEF TutorInv
  <2>11. ASSUME reply'[r] = what, phase'[r] = "idle" PROVE JobOK(r)' /\ ReplyOK(r)'
    <3>1. reteach'[c][g.ordinal].text = g.text
      BY <2>1, <2>4
    <3>2. /\ reply'[r].kind = "reteach" /\ reply'[r].concept = c /\ reply'[r].ordinal = g.ordinal
          /\ reply'[r].text = g.text
      BY <2>11
    <3> HIDE DEF what
    <3> QED BY <1>2, <2>4, <2>11, <3>1, <3>2 DEF JobOK, ReplyOK
  <2>12. Moved(r, "idle", NoJob, what) /\ "idle" \in Awaits
    BY <1>6 DEF Return, Moved, Awaits
  <2> HIDE DEF what
  <2>13. TutorInv'
    BY <2>7, <2>8, <2>10, <2>11, <2>12, CallKeeps
  <2> QED BY <2>7, <2>13
<1> QED BY <1>0, <1>2, <1>3, <1>4, <1>5, <1>6 DEF Save

(* The review of the concept is scheduled before the result is recorded. *)
LEMMA ScheduleKeeps ==
    ASSUME TutorInv, NEW r \in Callers, Schedule(r)
    PROVE  TutorInv' /\ TutorGrows
<1> SUFFICES ASSUME NEW g, g = job[r], NEW c, c = g.concept, NEW n, n = g.record.attempt
             PROVE  TutorInv' /\ TutorGrows
  OBVIOUS
<1>0. /\ phase[r] = "scheduling"
      /\ UNCHANGED <<status, reteach, loop, asked, evidence, objects>>
  BY DEF Schedule
<1>1. Judged(g) /\ c \in Concepts /\ n \in 1..Len(attempts[c])
  BY <1>0 DEF TutorInv, JobOK, Judged
<1>2. CASE UNCHANGED scheduled /\ Throw(r)
  <2>1. UNCHANGED <<records, evidence, objects>>
    BY <1>0, <1>2 DEF records
  <2>2. Return(r, [kind |-> "error"]) /\ [kind |-> "error"].kind \notin {"reteach", "answer"}
    BY <1>2 DEF Throw
  <2> QED BY <2>1, <2>2, Returning, OnlyCallMoves
<1>3. CASE scheduled' = [scheduled EXCEPT ![c] = @ \cup {n}] /\ Await(r, "recording", g)
  <2>0. TablesOK
    BY DEF TutorInv
  <2>1. scheduled'[c] = scheduled[c] \cup {n} /\ \A d \in Concepts : d # c => scheduled'[d] = scheduled[d]
    BY <1>1, <1>3, <2>0 DEF TablesOK
  <2>2. UNCHANGED <<attempts, projected, exposed, reteach, loop, asked, status, objects>>
    BY <1>0 DEF evidence
  <2>3. \A d \in Concepts : Len(attempts[d]) \in Nat /\ Len(reteach[d]) \in Nat
    BY <2>0 DEF TablesOK
  <2>4. TutorGrows
    BY <2>1, <2>2, <2>3 DEF TutorGrows
  <2>5. TablesOK'
    <3>1. n \in Nat
      BY <1>1, <2>3
    <3>2. scheduled' \in [Concepts -> SUBSET Nat]
      BY <1>1, <1>3, <2>0, <3>1 DEF TablesOK
    <3> QED BY <2>0, <2>2, <3>2 DEF TablesOK
  <2>6. ASSUME NEW d \in Concepts PROVE LessonsOK(d)' /\ ResultOK(d)'
    <3>1. scheduled'[d] \subseteq 1..Len(attempts'[d])
      <4>1. scheduled[d] \subseteq 1..Len(attempts[d])
        BY DEF TutorInv, ResultOK
      <4> QED BY <1>1, <2>1, <2>2, <4>1
    <3>2. reteach'[d] = reteach[d] /\ loop'[d] = loop[d]
      BY <2>2
    <3> QED BY <2>0, <2>4, <2>5, <3>1, <3>2, LessonsStay, ResultsStay DEF TutorInv
  <2>7. ASSUME phase'[r] = "recording", job'[r] = g PROVE JobOK(r)'
    <3>1. Judged(g)'
      BY <1>1, <2>2 DEF Judged
    <3>2. n \in scheduled'[c]
      BY <2>1
    <3> QED BY <2>7, <3>1, <3>2 DEF JobOK
  <2>8. reply'[r] = [kind |-> "none"] => ReplyOK(r)'
    BY DEF ReplyOK
  <2>9. Moved(r, "recording", g, [kind |-> "none"]) /\ "recording" \in Awaits
    BY <1>3 DEF Await, Moved, Awaits
  <2>10. TutorInv'
    BY <2>4, <2>5, <2>6, <2>7, <2>8, <2>9, CallKeeps
  <2> QED BY <2>4, <2>10
<1> QED BY <1>2, <1>3 DEF Schedule

(* A result is recorded that is proven by the rows as they are now. *)
LEMMA RecordLoopKeeps ==
    ASSUME TutorInv, NEW r \in Callers, RecordLoop(r)
    PROVE  TutorInv' /\ TutorGrows
<1> SUFFICES ASSUME NEW c, c = job[r].concept, NEW rec, rec = job[r].record
             PROVE  TutorInv' /\ TutorGrows
  OBVIOUS
<1>0. /\ phase[r] = "recording"
      /\ UNCHANGED <<status, reteach, scheduled, asked, evidence, objects>>
  BY DEF RecordLoop
<1>1. /\ c \in Concepts /\ rec \in Results /\ rec.attempt \in 1..Len(attempts[c])
      /\ rec.outcome = "stopped" => rec.attempt \in scheduled[c]
  BY <1>0 DEF TutorInv, JobOK, Judged
<1>2. CASE UNCHANGED loop /\ Throw(r)
  <2>1. UNCHANGED <<records, evidence, objects>>
    BY <1>0, <1>2 DEF records
  <2>2. Return(r, [kind |-> "error"]) /\ [kind |-> "error"].kind \notin {"reteach", "answer"}
    BY <1>2 DEF Throw
  <2> QED BY <2>1, <2>2, Returning, OnlyCallMoves
<1>3. CASE Recorded(c, rec) /\ loop' = [loop EXCEPT ![c] = rec]
           /\ Return(r, [kind |-> "looped", concept |-> c, record |-> rec])
  <2>0. TablesOK
    BY DEF TutorInv
  <2>1. loop'[c] = rec /\ \A d \in Concepts : d # c => loop'[d] = loop[d]
    BY <1>1, <1>3, <2>0 DEF TablesOK
  <2>2. UNCHANGED <<attempts, projected, exposed, reteach, scheduled, asked, status, objects>>
    BY <1>0 DEF evidence
  <2>3. \A d \in Concepts : Len(attempts[d]) \in Nat /\ Len(reteach[d]) \in Nat
    BY <2>0 DEF TablesOK
  <2>4. \A d \in Concepts : loop[d] # Null => loop'[d] = loop[d]
    BY <1>3, <2>1 DEF Recorded
  <2>5. TutorGrows
    BY <2>2, <2>3, <2>4 DEF TutorGrows
  <2>6. TablesOK'
    <3>1. loop' \in [Concepts -> Results \cup {Null}]
      BY <1>1, <1>3, <2>0 DEF TablesOK
    <3> QED BY <2>0, <2>2, <3>1 DEF TablesOK
  <2>7. ASSUME NEW d \in Concepts PROVE LessonsOK(d)' /\ ResultOK(d)'
    <3>1. LessonsOK(d)'
      BY <2>0, <2>2, <2>5, <2>6, LessonsStay DEF TutorInv
    <3>2. scheduled'[d] \subseteq 1..Len(attempts'[d])
      BY <2>2 DEF TutorInv, ResultOK
    <3>a. LessonsOK(d) /\ ResultOK(d)
      BY DEF TutorInv
    <3>3. CASE loop'[d] = loop[d]
      BY <2>0, <2>5, <2>6, <3>1, <3>2, <3>a, <3>3, ResultsStay
    <3>4. CASE d = c /\ loop[c] = Null
      <4>1. Proven(c, rec)
        BY <1>3, <3>4 DEF Recorded
      <4>2. rec.count \in 1..Len(reteach[c])
        <5>1. reteach[c] \in Seq(Assets) /\ reteach[c] # <<>>
          BY <1>1, <2>0, <4>1 DEF TablesOK, Proven
        <5>2. Len(reteach[c]) \in 1..Len(reteach[c])
          BY <5>1
        <5> QED BY <4>1, <5>2 DEF Proven
      <4>3. /\ attempts[c][rec.attempt].here /\ rec.attempt > reteach[c][rec.count].served
            /\ rec.initial = reteach[c][1].baseline
            /\ IF rec.outcome = "succeeded"
               THEN attempts[c][rec.attempt].band = "correct" /\ rec.final > rec.initial
               ELSE attempts[c][rec.attempt].band # "correct" /\ rec.count = 2
        BY <4>1, <4>2 DEF Proven
      <4>4. loop'[c] = rec /\ attempts' = attempts /\ reteach' = reteach /\ scheduled' = scheduled
        BY <2>1, <2>2
      <4>5. scheduled'[c] \subseteq 1..Len(attempts'[c])
        BY <3>2, <3>4
      <4>6. ResultOK(c)'
        BY <1>1, <4>2, <4>3, <4>4, <4>5 DEF ResultOK
      <4> QED BY <3>1, <3>4, <4>6
    <3> QED BY <2>1, <2>4, <3>3, <3>4
  <2>8. phase'[r] = "idle" /\ reply'[r] = [kind |-> "looped", concept |-> c, record |-> rec] => JobOK(r)' /\ ReplyOK(r)'
    BY DEF JobOK, ReplyOK
  <2>9. Moved(r, "idle", NoJob, [kind |-> "looped", concept |-> c, record |-> rec]) /\ "idle" \in Awaits
    BY <1>3 DEF Return, Moved, Awaits
  <2>10. TutorInv'
    BY <2>5, <2>6, <2>7, <2>8, <2>9, CallKeeps
  <2> QED BY <2>5, <2>10
<1> QED BY <1>2, <1>3 DEF RecordLoop

(* The session is completed. *)
LEMMA CompleteKeeps ==
    ASSUME TutorInv, NEW r \in Callers, Complete(r)
    PROVE  TutorInv' /\ TutorGrows
<1>0. UNCHANGED <<reteach, loop, scheduled, asked, evidence, objects>> /\ status' \in {"active", "completed"}
  BY DEF Complete, TutorInv, TablesOK
<1>1. TutorGrows
  BY <1>0 DEF TutorGrows, TutorInv, TablesOK, evidence
<1>2. TablesOK'
  BY <1>0 DEF TutorInv, TablesOK, evidence
<1>3. ASSUME NEW c \in Concepts PROVE LessonsOK(c)' /\ ResultOK(c)'
  <2>1. reteach'[c] = reteach[c] /\ loop'[c] = loop[c] /\ scheduled'[c] \subseteq 1..Len(attempts'[c])
    BY <1>0 DEF evidence, TutorInv, ResultOK
  <2> QED BY <1>1, <1>2, <2>1, LessonsStay, ResultsStay DEF TutorInv
<1>4. ASSUME NEW what, what.kind \notin {"reteach", "answer"}, Return(r, what) PROVE TutorInv'
  <2>1. Moved(r, "idle", NoJob, what) /\ "idle" \in Awaits
    BY <1>4 DEF Return, Moved, Awaits
  <2>2. phase'[r] = "idle" /\ reply'[r] = what => JobOK(r)' /\ ReplyOK(r)'
    BY <1>4 DEF JobOK, ReplyOK
  <2> QED BY <1>1, <1>2, <1>3, <2>1, <2>2, CallKeeps
<1>5. PICK k \in {"session_complete", "error"} : Return(r, [kind |-> k])
  BY DEF Complete, Throw
<1>6. [kind |-> k].kind \notin {"reteach", "answer"}
  BY <1>5
<1> QED BY <1>1, <1>4, <1>5, <1>6

(* What is refused or lost leaves the tables alone. *)
LEMMA RefusedKeeps ==
    ASSUME TutorInv, NEW r \in Callers, SaveRefused(r) \/ Lost(r)
    PROVE  TutorInv' /\ TutorGrows
<1>1. UNCHANGED <<records, evidence, objects>> /\ Return(r, [kind |-> "error"])
  BY DEF SaveRefused, Lost, Throw
<1>2. [kind |-> "error"].kind \notin {"reteach", "answer"}
  OBVIOUS
<1> QED BY <1>1, <1>2, Returning, OnlyCallMoves

(* The model answers a question. *)
LEMMA AskKeeps ==
    ASSUME TutorInv, NEW r \in Callers, Ask(r)
    PROVE  TutorInv' /\ TutorGrows
<1>0. UNCHANGED <<records, evidence, objects>>
  BY DEF Ask
<1>1. CASE Throw(r)
  <2>1. Return(r, [kind |-> "error"]) /\ [kind |-> "error"].kind \notin {"reteach", "answer"}
    BY <1>1 DEF Throw
  <2> QED BY <1>0, <2>1, Returning, OnlyCallMoves
<1>2. ASSUME NEW k \in AskKeys, NEW cites \in SUBSET Spans, Await(r, "answered", [key |-> k, cites |-> cites])
      PROVE  TutorInv'
  <2>1. phase'[r] = "answered" /\ job'[r] = [key |-> k, cites |-> cites] => JobOK(r)'
    BY <1>2 DEF JobOK
  <2>2. "answered" \in Awaits
    BY DEF Awaits
  <2> QED BY <1>0, <1>2, <2>1, <2>2, Awaiting
<1>3. TutorInv'
  BY <1>1, <1>2 DEF Ask
<1> QED BY <1>0, <1>3, OnlyCallMoves

(* The answer is recorded, or is the one recorded under the key. *)
LEMMA QuestionKeeps ==
    ASSUME TutorInv, NEW r \in Callers, RecordQuestion(r)
    PROVE  TutorInv' /\ TutorGrows
<1> SUFFICES ASSUME NEW k, k = job[r].key, NEW cites, cites = job[r].cites
             PROVE  TutorInv' /\ TutorGrows
  OBVIOUS
<1>0. phase[r] = "answered" /\ UNCHANGED <<status, reteach, loop, scheduled, evidence, objects>>
  BY DEF RecordQuestion
<1>1. k \in AskKeys /\ cites \in SUBSET Spans /\ cites # Null
  BY <1>0, TutorAssumption DEF TutorInv, JobOK
<1>2. CASE UNCHANGED asked /\ Throw(r)
  <2>1. UNCHANGED <<records, evidence, objects>>
    BY <1>0, <1>2 DEF records
  <2>2. Return(r, [kind |-> "error"]) /\ [kind |-> "error"].kind \notin {"reteach", "answer"}
    BY <1>2 DEF Throw
  <2> QED BY <2>1, <2>2, Returning, OnlyCallMoves
<1>3. CASE /\ Agrees(k, cites) /\ asked' = [asked EXCEPT ![k] = IF @ = Null THEN cites ELSE @]
           /\ Return(r, [kind |-> "answer", key |-> k, cites |-> cites])
  <2>0. TablesOK
    BY DEF TutorInv
  <2>1. asked'[k] = cites /\ asked' \in [AskKeys -> (SUBSET Spans) \cup {Null}]
        /\ \A l \in AskKeys : asked[l] # Null => asked'[l] = asked[l]
    BY <1>1, <1>3, <2>0 DEF TablesOK, Agrees
  <2>2. UNCHANGED <<attempts, projected, exposed, reteach, loop, scheduled, status, objects>>
    BY <1>0 DEF evidence
  <2>3. \A d \in Concepts : Len(attempts[d]) \in Nat /\ Len(reteach[d]) \in Nat
    BY <2>0 DEF TablesOK
  <2>4. TutorGrows
    BY <2>1, <2>2, <2>3 DEF TutorGrows
  <2>5. TablesOK'
    BY <2>0, <2>1, <2>2 DEF TablesOK
  <2>6. ASSUME NEW c \in Concepts PROVE LessonsOK(c)' /\ ResultOK(c)'
    <3>1. reteach'[c] = reteach[c] /\ loop'[c] = loop[c] /\ scheduled'[c] \subseteq 1..Len(attempts'[c])
      BY <2>2 DEF TutorInv, ResultOK
    <3> QED BY <2>0, <2>4, <2>5, <3>1, LessonsStay, ResultsStay DEF TutorInv
  <2>7. phase'[r] = "idle" /\ reply'[r] = [kind |-> "answer", key |-> k, cites |-> cites] => JobOK(r)' /\ ReplyOK(r)'
    BY <1>1, <2>1 DEF JobOK, ReplyOK
  <2>8. Moved(r, "idle", NoJob, [kind |-> "answer", key |-> k, cites |-> cites]) /\ "idle" \in Awaits
    BY <1>3 DEF Return, Moved, Awaits
  <2>9. TutorInv'
    BY <2>4, <2>5, <2>6, <2>7, <2>8, CallKeeps
  <2> QED BY <2>4, <2>9
<1> QED BY <1>2, <1>3 DEF RecordQuestion

-----------------------------------------------------------------------------
(* The session begins with no lesson, no result and no answer. *)
LEMMA TutorBegins == TutorInit => TutorInv
<1> SUFFICES ASSUME TutorInit PROVE TutorInv
  OBVIOUS
<1> USE DEF TutorInit
<1>1. \A c \in Concepts : attempts[c] = <<>> /\ reteach[c] = <<>> /\ scheduled[c] = {} /\ loop[c] = Null
  OBVIOUS
<1>2. TablesOK
  <2>1. <<>> \in Seq(Evidence) /\ <<>> \in Seq(Assets) /\ Len(<<>>) = 0
    OBVIOUS
  <2>2. attempts \in [Concepts -> Seq(Evidence)] /\ reteach \in [Concepts -> Seq(Assets)]
    BY <2>1
  <2>3. \A c \in Concepts : Len(attempts[c]) = 0 /\ projected[c] = 0 /\ exposed[c] = Null
    BY <1>1, <2>1
  <2>4. \A c \in Concepts : projected[c] <= Len(attempts[c]) /\ exposed[c] \in 0..Len(attempts[c]) \cup {Null}
    BY <2>3
  <2>5. /\ status = "active" /\ projected \in [Concepts -> Nat] /\ exposed \in [Concepts -> Nat \cup {Null}]
        /\ loop \in [Concepts -> Results \cup {Null}] /\ scheduled \in [Concepts -> SUBSET Nat]
        /\ asked \in [AskKeys -> (SUBSET Spans) \cup {Null}]
    <3>1. status = "active" /\ projected \in [Concepts -> Nat] /\ exposed \in [Concepts -> Nat \cup {Null}]
      OBVIOUS
    <3>2. loop \in [Concepts -> Results \cup {Null}]
      BY Null \in Results \cup {Null}
    <3>3. scheduled \in [Concepts -> SUBSET Nat]
      BY {} \in SUBSET Nat
    <3>4. asked \in [AskKeys -> (SUBSET Spans) \cup {Null}]
      BY Null \in (SUBSET Spans) \cup {Null}
    <3> QED BY <3>1, <3>2, <3>3, <3>4
  <2> QED BY <2>2, <2>4, <2>5 DEF TablesOK
<1>3. CallersOK
  BY DEF CallersOK, Awaits
<1>4. ASSUME NEW c \in Concepts PROVE LessonsOK(c) /\ ResultOK(c)
  <2>1. Len(reteach[c]) = 0 /\ MaxReteaches \in Nat
    BY <1>1, TutorAssumption
  <2> QED BY <1>1, <2>1 DEF LessonsOK, ResultOK
<1>5. ASSUME NEW r \in Callers PROVE JobOK(r) /\ ReplyOK(r)
  BY DEF JobOK, ReplyOK
<1> QED BY <1>2, <1>3, <1>4, <1>5 DEF TutorInv

(* Every step keeps the invariant, and takes nothing back. *)
LEMMA TutorSteps ==
    ASSUME TutorInv, [TutorNext]_tutorVars
    PROVE  TutorInv' /\ TutorGrows
<1>1. CASE UNCHANGED tutorVars
  <2>1. UNCHANGED <<records, evidence, objects, calls>>
    BY <1>1 DEF tutorVars
  <2>2. TutorGrows /\ TablesOK'
    BY <2>1, OnlyCallMoves
  <2> QED BY <2>1, <2>2, LearnerKeeps
<1>2. ASSUME NEW c \in Concepts, CompleteLesson(c) \/ Attempt(c) \/ Project(c) PROVE TutorInv' /\ TutorGrows
  BY <1>2, LearnerSteps
<1>3. ASSUME NEW r \in Tabs,
             \/ Load(r) \/ Generate(r) \/ Save(r) \/ SaveRefused(r)
             \/ Schedule(r) \/ RecordLoop(r) \/ Complete(r)
      PROVE  TutorInv' /\ TutorGrows
  <2>1. r \in Callers
    BY DEF Callers
  <2>2. CASE Load(r)
    <3>1. UNCHANGED <<records, evidence, objects>>
      BY <2>2 DEF Load
    <3> QED BY <2>1, <2>2, <3>1, LoadKeeps, OnlyCallMoves
  <2> QED BY <1>3, <2>1, <2>2, GenerateKeeps, SaveKeeps, RefusedKeeps, ScheduleKeeps, RecordLoopKeeps, CompleteKeeps
<1>4. ASSUME NEW r \in Asks, Ask(r) \/ RecordQuestion(r) PROVE TutorInv' /\ TutorGrows
  <2>1. r \in Callers
    BY DEF Callers
  <2> QED BY <1>4, <2>1, AskKeeps, QuestionKeeps
<1>5. ASSUME NEW r \in Callers, Lost(r) PROVE TutorInv' /\ TutorGrows
  BY <1>5, RefusedKeeps
<1> QED BY <1>1, <1>2, <1>3, <1>4, <1>5 DEF TutorNext

(* The invariant of the tutor. *)
THEOREM TutorInvariant == TutorSpec => []TutorInv
  BY TutorBegins, TutorSteps, PTL DEF TutorSpec

(* What a tab is given, a lesson or an answer, is what the tables hold,    *)
(* whatever other tabs generated, asked or completed meanwhile.            *)
THEOREM ToldStaysRecorded == TutorSpec => []ToldIsRecorded
<1>1. TutorInv => ToldIsRecorded
  <2> SUFFICES ASSUME TutorInv PROVE ToldIsRecorded
    OBVIOUS
  <2>1. ShownIsStored
    BY DEF TutorInv, ReplyOK, Callers, ShownIsStored
  <2>2. AnswerIsRecorded
    BY DEF TutorInv, ReplyOK, Callers, AnswerIsRecorded
  <2> QED BY <2>1, <2>2 DEF ToldIsRecorded
<1> QED BY <1>1, TutorInvariant, PTL

(* The replacements of a lesson differ from what they replace, and a loop  *)
(* ends only on the evidence it needs, with a review scheduled if it was   *)
(* given up.                                                               *)
THEOREM LoopsAreSound == TutorSpec => []LoopSound
<1>1. TutorInv => LoopSound
  <2> SUFFICES ASSUME TutorInv PROVE LoopSound
    OBVIOUS
  <2>1. LessonsDiffer
    BY DEF TutorInv, LessonsOK, Differs, Prior, LessonsDiffer
  <2>2. LoopEarned
    BY DEF TutorInv, ResultOK, LoopEarned
  <2>3. StoppedIsScheduled
    BY DEF TutorInv, ResultOK, StoppedIsScheduled
  <2>4. TutorTypes
    <3>1. ASSUME NEW c \in Concepts
          PROVE  /\ projected[c] \in 0..Len(attempts[c])
                 /\ exposed[c] \in 0..Len(attempts[c]) \cup {Null}
                 /\ Len(reteach[c]) <= MaxReteaches
                 /\ \A i \in 1..Len(reteach[c]) :
                      /\ reteach[c][i].text \in objects
                      /\ reteach[c][i].served \in 1..Len(attempts[c])
                 /\ scheduled[c] \subseteq 1..Len(attempts[c])
      <4>1. projected[c] \in Nat /\ projected[c] <= Len(attempts[c]) /\ Len(attempts[c]) \in Nat
        BY DEF TutorInv, TablesOK
      <4> QED BY <4>1 DEF TutorInv, TablesOK, LessonsOK, ResultOK
    <3>2. ASSUME NEW rec \in LoopRecords PROVE rec.count \in 1..MaxReteaches
      <4>1. PICK c \in Concepts : rec = loop[c] /\ loop[c] # Null
        BY <3>2 DEF LoopRecords
      <4>2. /\ rec.count \in 1..Len(reteach[c]) /\ Len(reteach[c]) \in Nat
            /\ Len(reteach[c]) <= MaxReteaches /\ MaxReteaches \in Nat
        BY <4>1, TutorAssumption DEF TutorInv, TablesOK, ResultOK, LessonsOK
      <4> QED BY <4>2
    <3> QED BY <3>1, <3>2 DEF TutorTypes, TutorInv, TablesOK
  <2> QED BY <2>1, <2>2, <2>3, <2>4 DEF LoopSound
<1> QED BY <1>1, TutorInvariant, PTL

(* A completed session takes nothing more. *)
LEMMA CompletedStays ==
    ASSUME TutorInv, [TutorNext]_tutorVars, status = "completed"
    PROVE  UNCHANGED <<status, reteach, loop, scheduled, asked>>
<1> USE DEF records
<1>1. CASE UNCHANGED tutorVars
  BY <1>1 DEF tutorVars
<1>2. ASSUME NEW c \in Concepts, CompleteLesson(c) \/ Attempt(c) \/ Project(c)
      PROVE  UNCHANGED <<status, reteach, loop, scheduled, asked>>
  BY <1>2 DEF CompleteLesson, Attempt, Project
<1>3. ASSUME NEW r,
             \/ Load(r) \/ Generate(r) \/ Save(r) \/ SaveRefused(r) \/ Schedule(r)
             \/ RecordLoop(r) \/ Complete(r) \/ Ask(r) \/ RecordQuestion(r) \/ Lost(r)
      PROVE  UNCHANGED <<status, reteach, loop, scheduled, asked>>
  BY <1>3 DEF Load, Generate, Save, SaveRefused, Schedule, RecordLoop, Complete, Ask, RecordQuestion, Lost
<1> QED BY <1>1, <1>2, <1>3 DEF TutorNext

(* Lessons, results and answers are written once, and a completed session  *)
(* takes none.                                                             *)
THEOREM TutorRecordsStand == TutorSpec => RecordsStand
<1>1. ASSUME TutorInv, [TutorNext]_tutorVars
      PROVE  /\ \A c \in Concepts :
                  /\ loop[c] # Null => loop'[c] = loop[c]
                  /\ \A i \in 1..Len(reteach[c]) : reteach'[c][i] = reteach[c][i]
             /\ status = "completed" => UNCHANGED <<status, reteach, loop, scheduled, asked>>
  BY <1>1, TutorSteps, CompletedStays DEF TutorGrows
<1> QED BY <1>1, TutorInvariant, PTL DEF TutorSpec, RecordsStand
=============================================================================

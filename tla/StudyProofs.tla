----------------------------- MODULE StudyProofs -----------------------------
(***************************************************************************)
(* Theorems about studying, for any number of tabs, questions, answers,    *)
(* concepts and sessions, any resets and any lost answers: the session and *)
(* its placement quiz in the database, the page with any number of         *)
(* functions that await a response at the same time, and the dashboard     *)
(* with the panel in it that builds a course from a PDF.                   *)
(***************************************************************************)
EXTENDS MCStudy, MCWeb, FiniteSetTheorems, WellFoundedInduction, TLAPS

Statuses == {"none", "active", "completed", "deleted"}
Outcomes == {"graded", "abstained", "replaced"}
Given == Answers \cup {Text}

(* The names of attempts, and of the evidence from outside the quiz. *)
Ids == [session : Sessions, item : Items, answer : Given]
Elsewheres == {Elsewhere(c) : c \in Concepts}

(* What a tab shows, and the request it may have under way. *)
Showing == {"closed", "starting", "load", "pending", "failed", "question", "result", "complete",
            "error"}
Pages == [phase : Showing, session : Sessions, item : 0..Total, answer : Given \cup {None},
          abstained : BOOLEAN]
Requests == [id : Ids, scored : BOOLEAN] \cup {None}

RowsTyped ==
    /\ sessions \in [Sessions -> Statuses] /\ bank \in {"none", "failed", "ready"}
    /\ attempts \subseteq [id : Ids, outcome : Outcomes]
    /\ ledger \subseteq Ids \cup Elsewheres /\ IsFiniteSet(ledger)
    /\ states \in [Concepts -> Nat]

(* A state never accounts for more evidence than there is. *)
Counted == \A c \in Concepts : states[c] <= Cardinality(Ledger(c))

(* Of the sessions that were inserted by starts, one is active. *)
OnlyOne ==
    \A s, u \in Sessions \ {Seeded} : sessions[s] = "active" /\ sessions[u] = "active" => s = u

(* A start that goes on to insert a session is the only one, and finds no  *)
(* active session of another start.                                        *)
StartsExclude ==
    /\ \A t, u \in Tabs : page[t].phase = "starting" /\ page[u].phase = "starting" => t = u
    /\ \A t \in Tabs, s \in Sessions \ {Seeded} :
          page[t].phase = "starting" => sessions[s] # "active"

(* Only short answers are abstained from and replaced. *)
ShortOnly == \A a \in attempts : a.outcome \in {"abstained", "replaced"} => IsShort(a.id.item)

(* A tab p with the request q: the request is about the answer that the    *)
(* tab shows, and what has no score is a short answer.                     *)
TabRight(p, q) ==
    /\ p \in Pages /\ q \in Requests
    /\ p.phase \in {"question", "result"} => p.item \in Items
    /\ p.phase = "result" => p.answer \in Given /\ (p.abstained => IsShort(p.item))
    /\ q # None =>
         /\ p.phase \in {"question", "result"} /\ q.id = Id(p.session, p.item, p.answer)
         /\ q.scored \/ IsShort(p.item)

TabsRight ==
    /\ page \in [Tabs -> Pages] /\ call \in [Tabs -> Requests]
    /\ \A t \in Tabs : TabRight(page[t], call[t])

RowsRight == RowsTyped /\ Counted /\ OnlyOne /\ ShortOnly /\ OneAttempt /\ EvidenceOfAttempts
SessionInv == RowsRight /\ TabsRight

(* What the rows of attempts and evidence say, without the sessions. *)
AnswersRight == ShortOnly /\ OneAttempt /\ EvidenceOfAttempts

-----------------------------------------------------------------------------
(* One tab moves. *)
LEMMA TabMoves ==
    ASSUME TabsRight, NEW t \in Tabs, NEW p, NEW q, TabRight(p, q),
           page' = [page EXCEPT ![t] = p] \/ (page' = page /\ p = page[t]),
           call' = [call EXCEPT ![t] = q] \/ (call' = call /\ q = call[t])
    PROVE  TabsRight'
<1>1. p \in Pages /\ q \in Requests
  BY DEF TabRight
<1>2. page' \in [Tabs -> Pages] /\ page'[t] = p /\ \A u \in Tabs : u # t => page'[u] = page[u]
  BY <1>1 DEF TabsRight
<1>3. call' \in [Tabs -> Requests] /\ call'[t] = q /\ \A u \in Tabs : u # t => call'[u] = call[u]
  BY <1>1 DEF TabsRight
<1>4. \A u \in Tabs : TabRight(page'[u], call'[u])
  BY <1>2, <1>3 DEF TabsRight
<1> QED BY <1>2, <1>3, <1>4 DEF TabsRight, TabRight, IsShort

(* The name of an answer that a tab gives to its question. *)
LEMMA IdTyped ==
    ASSUME NEW s \in Sessions, NEW i \in Items, NEW x \in Given
    PROVE  /\ Id(s, i, x) \in Ids /\ Id(s, i, x).session = s /\ Id(s, i, x).item = i
           /\ Id(s, i, x).answer = x
  BY DEF Id, Ids

(* Evidence is added, and the state of its concept perhaps counted anew. *)
LEMMA LedgerGrows ==
    ASSUME RowsTyped, Counted, NEW id \in Ids \cup Elsewheres, ledger' = ledger \cup {id},
           \/ states' = states
           \/ states' = [states EXCEPT ![Concept(id)] =
                           Cardinality({e \in ledger' : Concept(e) = Concept(id)})]
    PROVE  /\ ledger' \subseteq Ids \cup Elsewheres /\ IsFiniteSet(ledger')
           /\ states' \in [Concepts -> Nat] /\ Counted'
<1>1. ledger' \subseteq Ids \cup Elsewheres /\ IsFiniteSet(ledger')
  BY FS_AddElement DEF RowsTyped
<1>2. ASSUME NEW c
      PROVE  LET new == {e \in ledger' : Concept(e) = c} IN
             /\ IsFiniteSet(new) /\ Cardinality(new) \in Nat
             /\ Cardinality(Ledger(c)) \in Nat /\ Cardinality(Ledger(c)) <= Cardinality(new)
  <2> DEFINE new == {e \in ledger' : Concept(e) = c}
  <2>1. Ledger(c) \subseteq new /\ new \subseteq ledger'
    BY DEF Ledger
  <2>2. IsFiniteSet(new)
    BY <1>1, <2>1, FS_Subset
  <2>3. Cardinality(new) \in Nat /\ Cardinality(Ledger(c)) \in Nat
    BY <2>1, <2>2, FS_Subset, FS_CardinalityType
  <2>4. Cardinality(Ledger(c)) <= Cardinality(new)
    BY <2>1, <2>2, FS_Subset
  <2> QED BY <2>2, <2>3, <2>4
<1>3. states' \in [Concepts -> Nat]
  BY <1>2 DEF RowsTyped
<1>4. ASSUME NEW c \in Concepts PROVE states'[c] <= Cardinality({e \in ledger' : Concept(e) = c})
  <2> DEFINE new == Cardinality({e \in ledger' : Concept(e) = c})
  <2>1. new \in Nat /\ Cardinality(Ledger(c)) \in Nat /\ Cardinality(Ledger(c)) <= new
    BY <1>2
  <2>2. states[c] \in Nat /\ states[c] <= Cardinality(Ledger(c))
    BY DEF RowsTyped, Counted
  <2>3. states'[c] = states[c] \/ states'[c] = new
    BY DEF RowsTyped
  <2> HIDE DEF new
  <2>4. states'[c] <= new
    BY <2>1, <2>2, <2>3
  <2> QED BY <2>4 DEF new
<1>5. Counted'
  BY <1>4 DEF Counted, Ledger, Concept
<1> QED BY <1>1, <1>3, <1>5

(* The current question is the least of those that are not answered. *)
LEMMA PlacementAsks ==
    ASSUME NEW s \in Sessions, Placement(s).status = "question"
    PROVE  Placement(s).item \in Questions /\ Placement(s).item \in Items
<1>1. /\ Questions # {}
      /\ Placement(s) = [status |-> "question",
                         item |-> CHOOSE i \in Questions : \A j \in Questions : i <= j]
  BY DEF Placement
<1>2. Questions \subseteq Nat /\ Questions \subseteq Items
  BY StudyAssumption DEF Questions, Items
<1> DEFINE Below == OpToRel(<, Nat)
<1>3. PICK i \in Questions : \A j \in Questions : ~(<<j, i>> \in Below)
  <2>1. IsWellFoundedOn(Below, Nat)
    BY NatLessThanWellFounded
  <2> HIDE DEF Below
  <2> QED BY <1>1, <1>2, <2>1, WFMin
<1>4. \A j \in Questions : i <= j
  <2> SUFFICES ASSUME NEW j \in Questions PROVE i <= j
    OBVIOUS
  <2>1. i \in Nat /\ j \in Nat
    BY <1>2
  <2>2. ~(j < i)
    BY <1>3, <2>1 DEF OpToRel
  <2> QED BY <2>1, <2>2
<1>5. (CHOOSE k \in Questions : \A j \in Questions : k <= j) \in Questions
  BY <1>3, <1>4
<1>6. Placement(s).item = CHOOSE k \in Questions : \A j \in Questions : k <= j
  BY <1>1
<1> HIDE DEF Below
<1> QED BY <1>2, <1>5, <1>6

(* A step that leaves attempts and evidence alone. *)
LEMMA AnswersStay ==
    ASSUME AnswersRight, UNCHANGED <<attempts, ledger>>
    PROVE  AnswersRight'
  BY DEF AnswersRight, ShortOnly, OneAttempt, EvidenceOfAttempts, IsShort, Stored

(* The count of a state that neither it nor the evidence changes. *)
LEMMA CountStays ==
    ASSUME Counted, UNCHANGED <<ledger, states>>
    PROVE  Counted'
  BY DEF Counted, Ledger, Concept

-----------------------------------------------------------------------------
(* The rows stay as they are. *)
LEMMA RowsStay ==
    ASSUME RowsRight, UNCHANGED rows
    PROVE  RowsRight'
<1>1. UNCHANGED <<sessions, bank, attempts, ledger, states>>
  BY DEF rows
<1>2. AnswersRight' /\ Counted'
  BY <1>1, AnswersStay, CountStays DEF RowsRight, AnswersRight
<1> QED BY <1>1, <1>2 DEF RowsRight, AnswersRight, RowsTyped, OnlyOne

(* The page that a start opens. *)
LEMMA OpenedRight ==
    ASSUME NEW s \in Sessions
    PROVE  TabRight(Opened(s), None) /\ Opened(s).phase \in {"load", "complete"}
<1> DEFINE phase == IF Plan(s) # "complete" THEN "load" ELSE "complete"
<1>1. Opened(s) = [Blank EXCEPT !.phase = phase, !.session = s] /\ phase \in {"load", "complete"}
  BY DEF Opened
<1>2. 0 \in 0..Total
  BY StudyAssumption
<1> HIDE DEF phase
<1>3. Opened(s).phase \in {"load", "complete"} /\ Opened(s) \in Pages
  BY <1>1, <1>2 DEF Blank, Pages, Showing
<1> QED BY <1>3 DEF TabRight, Requests

(* A tab that awaits nothing begins to open a session. *)
LEMMA StartingRight ==
    ASSUME TabsRight, NEW t \in Tabs, page[t].phase \in {"closed", "error"},
           Show(t, "starting"), call' = call
    PROVE  TabsRight'
<1> DEFINE p == [page[t] EXCEPT !.phase = "starting"]
<1>1. page[t] \in Pages /\ call[t] = None
  BY DEF TabsRight, TabRight
<1>2. p \in Pages /\ p.phase = "starting"
  BY <1>1 DEF Pages, Showing
<1>3. page' = [page EXCEPT ![t] = p]
  BY DEF Show
<1> HIDE DEF p
<1>4. TabRight(p, call[t])
  BY <1>1, <1>2 DEF TabRight, Requests
<1> QED BY <1>3, <1>4, TabMoves

(* An active session is resumed, or its insertion begun. *)
LEMMA StartKeeps ==
    ASSUME SessionInv, NEW t \in Tabs, Start(t)
    PROVE  SessionInv'
<1>1. page[t].phase \in {"closed", "error"} /\ UNCHANGED <<rows, call, faults, resets>>
  BY DEF Start
<1>2. call[t] = None
  BY <1>1 DEF SessionInv, TabsRight, TabRight
<1>3. TabsRight'
  <2>1. ASSUME NEW s \in Active, page' = [page EXCEPT ![t] = Opened(s)] PROVE TabsRight'
    <3>1. TabRight(Opened(s), call[t])
      BY <1>2, OpenedRight DEF Active
    <3> QED BY <1>1, <2>1, <3>1, TabMoves DEF SessionInv
  <2>2. CASE Show(t, "starting")
    BY <1>1, <2>2, StartingRight DEF SessionInv
  <2> QED BY <2>1, <2>2 DEF Start
<1> QED BY <1>1, <1>3, RowsStay DEF SessionInv

(* A session is inserted: no other start has one that is active. *)
LEMMA OpenKeeps ==
    ASSUME SessionInv, StartsExclude, NEW t \in Tabs, Open(t)
    PROVE  SessionInv'
<1>1. /\ page[t].phase = "starting"
      /\ UNCHANGED <<bank, attempts, ledger, states, call, faults, resets>>
  BY DEF Open
<1>2. PICK s \in Sessions \ {Seeded} :
        /\ sessions' = [sessions EXCEPT ![s] = "active"]
        /\ page' = [page EXCEPT ![t] = Opened(s)]
  BY DEF Open, Fresh
<1>3. call[t] = None
  BY <1>1 DEF SessionInv, TabsRight, TabRight
<1>4. TabsRight'
  <2>1. TabRight(Opened(s), call[t])
    BY <1>3, OpenedRight
  <2> QED BY <1>1, <1>2, <2>1, TabMoves DEF SessionInv
<1>5. sessions' \in [Sessions -> Statuses] /\ OnlyOne'
  <2>1. \A u \in Sessions \ {Seeded} : sessions[u] # "active"
    BY <1>1 DEF StartsExclude
  <2> QED BY <1>2, <2>1 DEF SessionInv, RowsRight, RowsTyped, OnlyOne, Statuses
<1>6. AnswersRight' /\ Counted'
  BY <1>1, AnswersStay, CountStays DEF SessionInv, RowsRight, AnswersRight
<1> QED BY <1>1, <1>4, <1>5, <1>6 DEF SessionInv, RowsRight, RowsTyped, AnswersRight

(* The placement quiz is loaded: a question that is not answered, or the   *)
(* answer to it that waits for a replacement.                              *)
LEMMA LoadKeeps ==
    ASSUME SessionInv, NEW t \in Tabs, Load(t)
    PROVE  SessionInv'
<1> DEFINE s == page[t].session
           placement == Placement(s)
           i == placement.item
<1>1. page[t].phase = "load" /\ UNCHANGED <<rows, call, faults, resets>>
  BY DEF Load
<1>2. call[t] = None /\ page[t] \in Pages /\ s \in Sessions
  BY <1>1 DEF SessionInv, TabsRight, TabRight, Pages
<1>3. PICK p : page' = [page EXCEPT ![t] = p]
               /\ p = (IF sessions[s] # "active" THEN Blank
                       ELSE IF placement.status = "question"
                       THEN IF ~Valid(placement) THEN [page[t] EXCEPT !.phase = "error"]
                            ELSE IF Pending(s, i) = {}
                            THEN [page[t] EXCEPT !.phase = "question", !.item = i, !.answer = None]
                            ELSE [page[t] EXCEPT !.phase = "result", !.item = i,
                                    !.answer = (CHOOSE id \in Pending(s, i) : TRUE).answer,
                                    !.abstained = TRUE]
                       ELSE [page[t] EXCEPT !.phase = placement.status, !.item = 0, !.answer = None])
  BY DEF Load, SessionInv, TabsRight
<1>4. placement.status \in {"complete", "pending", "failed", "question"}
  BY DEF Placement
<1>5. placement.status = "question" => i \in Items
  BY <1>2, PlacementAsks
<1>6. 0 \in 0..Total /\ Items \subseteq 0..Total /\ Seeded \in Sessions
  BY StudyAssumption DEF Items, Sessions, Seeded
<1> HIDE DEF s, placement, i
<1>7. ASSUME Pending(s, i) # {}
      PROVE  (CHOOSE id \in Pending(s, i) : TRUE).answer \in Given /\ IsShort(i)
  <2>1. (CHOOSE id \in Pending(s, i) : TRUE) \in Pending(s, i)
    BY <1>7
  <2>2. PICK a \in attempts : /\ a.outcome = "abstained" /\ a.id.item = i
                              /\ a.id = CHOOSE id \in Pending(s, i) : TRUE
    BY <2>1 DEF Pending
  <2> QED BY <2>2 DEF SessionInv, RowsRight, RowsTyped, ShortOnly, Ids
<1>8. TabRight(p, None)
  <2>1. CASE sessions[s] # "active"
    BY <1>3, <1>6, <2>1 DEF Blank, TabRight, Pages, Showing, Requests
  <2>2. CASE sessions[s] = "active" /\ placement.status = "question" /\ ~Valid(placement)
    BY <1>2, <1>3, <2>2 DEF TabRight, Pages, Showing, Requests
  <2>3. CASE /\ sessions[s] = "active" /\ placement.status = "question" /\ Valid(placement)
             /\ Pending(s, i) = {}
    BY <1>2, <1>3, <1>5, <1>6, <2>3 DEF TabRight, Pages, Showing, Requests
  <2>4. CASE /\ sessions[s] = "active" /\ placement.status = "question" /\ Valid(placement)
             /\ Pending(s, i) # {}
    BY <1>2, <1>3, <1>5, <1>6, <1>7, <2>4 DEF TabRight, Pages, Showing, Requests
  <2>5. CASE sessions[s] = "active" /\ placement.status # "question"
    BY <1>2, <1>3, <1>4, <1>6, <2>5 DEF TabRight, Pages, Showing, Requests
  <2> QED BY <2>1, <2>2, <2>3, <2>4, <2>5
<1>9. TabsRight'
  <2>1. call' = call /\ None = call[t] /\ page' = [page EXCEPT ![t] = p] /\ TabsRight
    BY <1>1, <1>2, <1>3 DEF SessionInv
  <2> QED BY <1>8, <2>1, TabMoves
<1> QED BY <1>1, <1>9, RowsStay DEF SessionInv

(* A tab without a request goes on to load the quiz. *)
LEMMA ShowKeeps ==
    ASSUME SessionInv, NEW t \in Tabs, call[t] = None, Show(t, "load"), call' = call
    PROVE  TabsRight'
<1>1. page[t] \in Pages
  BY DEF SessionInv, TabsRight
<1> DEFINE p == [page[t] EXCEPT !.phase = "load"]
<1>2. p \in Pages /\ p.phase = "load"
  BY <1>1 DEF Pages, Showing
<1>3. page' = [page EXCEPT ![t] = p]
  BY DEF Show
<1> HIDE DEF p
<1>4. TabRight(p, call[t])
  BY <1>2 DEF TabRight, Requests
<1> QED BY <1>3, <1>4, TabMoves DEF SessionInv

-----------------------------------------------------------------------------
(* The attempt of an answer is stored: the first on a keyed question, and  *)
(* scored unless the question is a short answer.                           *)
LEMMA AttemptAdded ==
    ASSUME SessionInv, NEW id \in Ids, NEW outcome \in {"graded", "abstained"},
           outcome = "abstained" => IsShort(id.item),
           IsShort(id.item) \/ ~\E a \in attempts : a.id.item = id.item,
           attempts' = attempts \cup {Attempt(id, outcome)},
           ledger' = ledger \/ ledger' = ledger \cup {id}
    PROVE  AnswersRight' /\ attempts' \subseteq [id : Ids, outcome : Outcomes]
<1> DEFINE new == Attempt(id, outcome)
<1>1. new \in [id : Ids, outcome : Outcomes] /\ new.id = id /\ new.outcome = outcome
  BY DEF Attempt, Outcomes
<1> HIDE DEF new
<1>2. attempts' = attempts \cup {new}
  BY DEF new
<1>3. ShortOnly'
  BY <1>1, <1>2 DEF SessionInv, RowsRight, ShortOnly, IsShort
<1>4. OneAttempt'
  BY <1>1, <1>2 DEF SessionInv, RowsRight, OneAttempt, IsShort
<1>5. EvidenceOfAttempts'
  BY <1>1, <1>2 DEF SessionInv, RowsRight, EvidenceOfAttempts, Stored
<1> QED BY <1>1, <1>2, <1>3, <1>4, <1>5 DEF SessionInv, RowsRight, RowsTyped, AnswersRight

(* An answer is given. *)
LEMMA SubmitKeeps ==
    ASSUME SessionInv, NEW t \in Tabs, NEW answer \in Answers \cup {Text}, Submit(t, answer)
    PROVE  SessionInv'
<1> DEFINE s == page[t].session
           i == page[t].item
           id == Id(s, i, answer)
           p == [page[t] EXCEPT !.answer = answer]
<1>1. /\ page[t].phase = "question" /\ call[t] = None
      /\ page' = [page EXCEPT ![t] = p]
      /\ UNCHANGED <<sessions, bank, states, faults, resets>>
  BY DEF Submit
<1>2. page[t] \in Pages /\ s \in Sessions /\ i \in Items /\ answer \in Given
  BY <1>1 DEF SessionInv, TabsRight, TabRight, Pages, Given
<1>3. id \in Ids /\ id.session = s /\ id.item = i /\ id.answer = answer
  BY <1>2, IdTyped
<1>4. /\ p \in Pages /\ p.phase = "question" /\ p.item = i /\ p.session = s /\ p.answer = answer
  BY <1>1, <1>2 DEF Pages
<1>5. ASSUME NEW scored \in BOOLEAN, scored \/ IsShort(i), call' = [call EXCEPT ![t] = Request(id, scored)]
      PROVE  TabsRight'
  <2>1. Request(id, scored) \in Requests /\ Request(id, scored).id = id
        /\ Request(id, scored).scored = scored
    BY <1>3 DEF Request, Requests
  <2>2. id = Id(p.session, p.item, p.answer)
    BY <1>4
  <2> HIDE DEF p, id
  <2>3. TabRight(p, Request(id, scored))
    BY <1>2, <1>4, <1>5, <2>1, <2>2 DEF TabRight
  <2> QED BY <1>1, <1>5, <2>3, TabMoves DEF SessionInv
<1>6. ASSUME call' = call PROVE TabsRight'
  <2> HIDE DEF p
  <2>1. TabRight(p, call[t])
    BY <1>1, <1>2, <1>4 DEF TabRight, Requests
  <2> QED BY <1>1, <1>6, <2>1, TabMoves DEF SessionInv
<1>7. CASE /\ Stored(id)
           /\ call' = [call EXCEPT ![t] = Request(id, Attempt(id, "graded") \in attempts)]
           /\ UNCHANGED <<attempts, ledger>>
  <2> DEFINE scored == Attempt(id, "graded") \in attempts
  <2>1. PICK a \in attempts : a.id = id
    BY <1>7 DEF Stored
  <2>2. a.outcome = "graded" => a = Attempt(id, "graded")
    BY <2>1 DEF SessionInv, RowsRight, RowsTyped, Attempt
  <2>3. a.outcome \in Outcomes
    BY DEF SessionInv, RowsRight, RowsTyped
  <2>4. scored \/ IsShort(i)
    BY <1>3, <2>1, <2>2, <2>3 DEF SessionInv, RowsRight, ShortOnly, Outcomes
  <2>5. scored \in BOOLEAN /\ call' = [call EXCEPT ![t] = Request(id, scored)]
    BY <1>7
  <2> HIDE DEF scored, id
  <2>6. TabsRight'
    BY <1>5, <2>4, <2>5
  <2>7. UNCHANGED rows
    BY <1>1, <1>7 DEF rows
  <2> QED BY <2>6, <2>7, RowsStay DEF SessionInv
<1>8. CASE /\ ~Stored(id) /\ MayAnswer(s, i)
           /\ \E outcome \in IF IsShort(i) THEN {"graded", "abstained"} ELSE {"graded"} :
                /\ attempts' = attempts \cup {Attempt(id, outcome)}
                /\ ledger' = IF IsShort(i) /\ outcome = "graded" THEN ledger \cup {id} ELSE ledger
                /\ call' = [call EXCEPT ![t] = Request(id, outcome = "graded")]
  <2>1. PICK outcome \in {"graded", "abstained"} :
          /\ outcome = "abstained" => IsShort(i)
          /\ attempts' = attempts \cup {Attempt(id, outcome)}
          /\ ledger' = ledger \cup {id} \/ ledger' = ledger
          /\ call' = [call EXCEPT ![t] = Request(id, outcome = "graded")]
    BY <1>8
  <2>2. IsShort(i) \/ ~\E a \in attempts : a.id.item = i
    BY <1>8 DEF MayAnswer, AnsweredBefore
  <2> DEFINE scored == outcome = "graded"
  <2>3. scored \in BOOLEAN /\ (scored \/ IsShort(i)) /\ call' = [call EXCEPT ![t] = Request(id, scored)]
    BY <2>1
  <2> HIDE DEF scored, id
  <2>4. TabsRight'
    BY <1>5, <2>3
  <2>5. AnswersRight' /\ attempts' \subseteq [id : Ids, outcome : Outcomes]
    BY <1>3, <2>1, <2>2, AttemptAdded
  <2>6. /\ ledger' \subseteq Ids \cup Elsewheres /\ IsFiniteSet(ledger')
        /\ states' \in [Concepts -> Nat] /\ Counted'
    <3>1. CASE ledger' = ledger
      BY <1>1, <3>1, CountStays DEF SessionInv, RowsRight, RowsTyped
    <3>2. CASE ledger' = ledger \cup {id}
      BY <1>1, <1>3, <3>2, LedgerGrows DEF SessionInv, RowsRight
    <3> QED BY <2>1, <3>1, <3>2
  <2> QED BY <1>1, <2>4, <2>5, <2>6 DEF SessionInv, RowsRight, RowsTyped, AnswersRight, OnlyOne
<1>9. CASE UNCHANGED <<attempts, ledger, call>>
  <2>1. UNCHANGED rows
    BY <1>1, <1>9 DEF rows
  <2> QED BY <1>6, <1>9, <2>1, RowsStay DEF SessionInv
<1> QED BY <1>7, <1>8, <1>9 DEF Submit

-----------------------------------------------------------------------------
(* Evidence is projected, of an attempt that is stored or of none. *)
LEMMA RowsProject ==
    ASSUME RowsRight, NEW c \in Requests, c # None, Projectable(c.id), Evidence(c),
           UNCHANGED <<sessions, bank, attempts>>
    PROVE  RowsRight'
<1>1. c.id \in Ids
  BY DEF Requests
<1>2. CASE UNCHANGED <<ledger, states>>
  BY <1>2, RowsStay DEF rows
<1>3. CASE Record(c.id)
  <2>1. /\ ledger' \subseteq Ids \cup Elsewheres /\ IsFiniteSet(ledger')
        /\ states' \in [Concepts -> Nat] /\ Counted'
    BY <1>1, <1>3, LedgerGrows DEF Record, RowsRight
  <2>2. EvidenceOfAttempts'
    BY <1>3 DEF Record, Projectable, Stored, RowsRight, EvidenceOfAttempts
  <2>3. ShortOnly' /\ OneAttempt' /\ OnlyOne'
    BY DEF RowsRight, ShortOnly, OneAttempt, OnlyOne, IsShort
  <2> QED BY <2>1, <2>2, <2>3 DEF RowsRight, RowsTyped
<1> QED BY <1>2, <1>3 DEF Evidence

(* The request of a tab is over, whatever the tab shows then. *)
LEMMA RequestEnds ==
    ASSUME SessionInv, NEW t \in Tabs, call[t] # None, call' = [call EXCEPT ![t] = None],
           \/ page' = page
           \/ page' = [page EXCEPT ![t] = [page[t] EXCEPT !.phase = "result", !.abstained = ~call[t].scored]]
    PROVE  TabsRight'
<1>1. /\ page[t] \in Pages /\ call[t] \in Requests
      /\ page[t].phase \in {"question", "result"} /\ page[t].item \in Items
      /\ call[t].id = Id(page[t].session, page[t].item, page[t].answer)
      /\ call[t].scored \/ IsShort(page[t].item)
      /\ page[t].phase = "result" /\ page[t].abstained => IsShort(page[t].item)
  BY DEF SessionInv, TabsRight, TabRight
<1>2. call[t].id \in Ids /\ call[t].scored \in BOOLEAN
  BY <1>1 DEF Requests
<1>3. page[t].answer \in Given
  BY <1>1, <1>2 DEF Id, Ids
<1>4. CASE page' = page
  <2>1. TabRight(page[t], None)
    BY <1>1, <1>3 DEF TabRight, Requests
  <2> QED BY <1>4, <2>1, TabMoves DEF SessionInv
<1>5. CASE page' = [page EXCEPT ![t] = [page[t] EXCEPT !.phase = "result", !.abstained = ~call[t].scored]]
  <2> DEFINE abstained == ~call[t].scored
             p == [page[t] EXCEPT !.phase = "result", !.abstained = abstained]
  <2>1. abstained \in BOOLEAN /\ (abstained => IsShort(page[t].item)) /\ page' = [page EXCEPT ![t] = p]
    BY <1>1, <1>2, <1>5
  <2> HIDE DEF abstained
  <2>2. p \in Pages /\ p.phase = "result" /\ p.abstained = abstained /\ p.item = page[t].item
        /\ p.answer = page[t].answer
    BY <1>1, <2>1 DEF Pages, Showing
  <2> HIDE DEF p
  <2>3. TabRight(p, None)
    BY <1>1, <1>3, <2>1, <2>2 DEF TabRight, Requests
  <2> QED BY <2>1, <2>3, TabMoves DEF SessionInv
<1> QED BY <1>4, <1>5

(* The second transaction and the response, or the loss of either. *)
LEMMA ProjectKeeps ==
    ASSUME SessionInv, NEW t \in Tabs, Project(t) \/ Fault(t)
    PROVE  SessionInv'
<1>1. /\ call[t] # None /\ call' = [call EXCEPT ![t] = None]
      /\ UNCHANGED <<sessions, bank, attempts>>
      /\ \/ page' = page
         \/ page' = [page EXCEPT ![t] = [page[t] EXCEPT !.phase = "result", !.abstained = ~call[t].scored]]
      /\ UNCHANGED <<ledger, states>> \/ (Projectable(call[t].id) /\ Evidence(call[t]))
  <2>1. CASE Project(t)
    <3>1. page \in [Tabs -> Pages]
      BY DEF SessionInv, TabsRight
    <3> QED BY <2>1, <3>1 DEF Project
  <2>2. CASE Fault(t)
    BY <2>2 DEF Fault
  <2> QED BY <2>1, <2>2
<1>2. TabsRight'
  BY <1>1, RequestEnds
<1>3. call[t] \in Requests
  BY DEF SessionInv, TabsRight
<1>4. RowsRight'
  <2>1. CASE UNCHANGED <<ledger, states>>
    BY <1>1, <2>1, RowsStay DEF SessionInv, rows
  <2>2. CASE Projectable(call[t].id) /\ Evidence(call[t])
    BY <1>1, <1>3, <2>2, RowsProject DEF SessionInv
  <2> QED BY <1>1, <2>1, <2>2
<1> QED BY <1>2, <1>4 DEF SessionInv

(* The replacement of an abstained answer is stored with its evidence. *)
LEMMA ReplaceKeeps ==
    ASSUME SessionInv, NEW t \in Tabs, Replace(t)
    PROVE  SessionInv'
<1> DEFINE id == Id(page[t].session, page[t].item, page[t].answer)
           new == Attempt(id, "replaced")
<1>1. /\ page[t].phase = "result" /\ page[t].abstained /\ call[t] = None
      /\ UNCHANGED <<sessions, bank, states, faults, resets>>
  BY DEF Replace
<1>2. /\ page[t] \in Pages /\ page[t].item \in Items /\ page[t].answer \in Given
      /\ IsShort(page[t].item)
  BY <1>1 DEF SessionInv, TabsRight, TabRight
<1>3. id \in Ids /\ id.item = page[t].item
  BY <1>2, IdTyped DEF Pages
<1>4. CASE ~Stored(id)
  <2>1. Show(t, "load") /\ UNCHANGED <<attempts, ledger, call>>
    BY <1>4 DEF Replace
  <2> QED BY <1>1, <2>1, ShowKeeps, RowsStay DEF SessionInv, rows
<1>5. CASE Stored(id)
  <2>1. /\ attempts' = (attempts \ {Attempt(id, "abstained")}) \cup {new}
        /\ ledger' = ledger \cup {id} /\ call' = [call EXCEPT ![t] = Request(id, TRUE)]
        /\ page' = page
    BY <1>5 DEF Replace
  <2>2. TabsRight'
    <3>1. Request(id, TRUE) \in Requests /\ Request(id, TRUE).id = id /\ Request(id, TRUE).scored
      BY <1>3 DEF Request, Requests
    <3>2. id = Id(page[t].session, page[t].item, page[t].answer)
      OBVIOUS
    <3> HIDE DEF id
    <3>3. TabRight(page[t], Request(id, TRUE))
      BY <1>1, <1>2, <3>1, <3>2 DEF TabRight
    <3> QED BY <2>1, <3>3, TabMoves DEF SessionInv
  <2>3. /\ ledger' \subseteq Ids \cup Elsewheres /\ IsFiniteSet(ledger')
        /\ states' \in [Concepts -> Nat] /\ Counted'
    BY <1>1, <1>3, <2>1, LedgerGrows DEF SessionInv, RowsRight
  <2>4. new \in [id : Ids, outcome : Outcomes] /\ new.id = id /\ Attempt(id, "abstained").id = id
    BY <1>3 DEF Attempt, Outcomes
  <2> HIDE DEF id, new
  <2>5. attempts' \subseteq [id : Ids, outcome : Outcomes]
    BY <2>1, <2>4 DEF SessionInv, RowsRight, RowsTyped
  <2>6. ShortOnly' /\ OneAttempt'
    <3>1. \A a \in attempts' : a \in attempts \/ (a = new /\ IsShort(a.id.item))
      BY <1>2, <1>3, <2>1, <2>4
    <3> QED BY <3>1 DEF SessionInv, RowsRight, ShortOnly, OneAttempt, IsShort
  <2>7. EvidenceOfAttempts'
    <3>1. \A a \in attempts : \E b \in attempts' : b.id = a.id
      BY <2>1, <2>4
    <3>2. \E b \in attempts' : b.id = id
      BY <2>1, <2>4
    <3> QED BY <2>1, <3>1, <3>2 DEF SessionInv, RowsRight, EvidenceOfAttempts, Stored
  <2> QED BY <1>1, <2>2, <2>3, <2>5, <2>6, <2>7 DEF SessionInv, RowsRight, RowsTyped, OnlyOne
<1> QED BY <1>4, <1>5

(* A refresh, and the way to the next question. *)
LEMMA TurnKeeps ==
    ASSUME SessionInv, NEW t \in Tabs, Refresh(t) \/ Continue(t)
    PROVE  SessionInv'
<1>1. call[t] = None /\ Show(t, "load") /\ call' = call /\ UNCHANGED rows
  BY DEF Refresh, Continue
<1> QED BY <1>1, ShowKeeps, RowsStay DEF SessionInv

-----------------------------------------------------------------------------
(* The tabs stay as they are. *)
LEMMA TabsStay ==
    ASSUME TabsRight, UNCHANGED <<page, call>>
    PROVE  TabsRight'
  BY DEF TabsRight, TabRight, IsShort

(* The bank is generated, or a session completed: at most one stays active. *)
LEMMA SessionsKeep ==
    ASSUME SessionInv, GenerateBank \/ \E s \in Sessions : CompleteSession(s)
    PROVE  SessionInv'
<1>1. UNCHANGED <<attempts, ledger, states, page, call>>
  BY DEF GenerateBank, CompleteSession
<1>2. bank' \in {"none", "failed", "ready"}
  BY DEF SessionInv, RowsRight, RowsTyped, GenerateBank, CompleteSession
<1>3. sessions' = sessions \/ \E s \in Sessions : sessions' = [sessions EXCEPT ![s] = "completed"]
  BY DEF GenerateBank, CompleteSession
<1>4. sessions' \in [Sessions -> Statuses] /\ OnlyOne'
  BY <1>3 DEF SessionInv, RowsRight, RowsTyped, OnlyOne, Statuses
<1>5. TabsRight' /\ AnswersRight' /\ Counted'
  BY <1>1, TabsStay, AnswersStay, CountStays DEF SessionInv, RowsRight, AnswersRight
<1> QED BY <1>1, <1>2, <1>4, <1>5 DEF SessionInv, RowsRight, RowsTyped, AnswersRight

(* Evidence from outside the quiz is stored, or projected. *)
LEMMA ElsewhereKeeps ==
    ASSUME SessionInv, NEW c \in Concepts, AnswerElsewhere(c) \/ ProjectElsewhere(c)
    PROVE  SessionInv'
<1>1. UNCHANGED <<sessions, bank, attempts, page, call>>
  BY DEF AnswerElsewhere, ProjectElsewhere
<1>2. TabsRight' /\ ShortOnly' /\ OneAttempt' /\ OnlyOne'
  BY <1>1, TabsStay DEF SessionInv, RowsRight, ShortOnly, OneAttempt, OnlyOne, IsShort
<1>3. CASE AnswerElsewhere(c)
  <2>1. Elsewhere(c) \in Elsewheres /\ Elsewhere(c).answer = None
    BY DEF Elsewheres, Elsewhere, Id
  <2>2. ledger' = ledger \cup {Elsewhere(c)} /\ states' = states
    BY <1>3 DEF AnswerElsewhere
  <2>3. /\ ledger' \subseteq Ids \cup Elsewheres /\ IsFiniteSet(ledger')
        /\ states' \in [Concepts -> Nat] /\ Counted'
    BY <2>1, <2>2, LedgerGrows DEF SessionInv, RowsRight
  <2>4. EvidenceOfAttempts'
    BY <1>1, <2>1, <2>2 DEF SessionInv, RowsRight, EvidenceOfAttempts, Stored
  <2> QED BY <1>1, <1>2, <2>3, <2>4 DEF SessionInv, RowsRight, RowsTyped
<1>4. CASE ProjectElsewhere(c)
  <2> DEFINE count == Cardinality(Ledger(c))
  <2>1. ledger' = ledger /\ states' = [states EXCEPT ![c] = count]
    BY <1>4 DEF ProjectElsewhere
  <2>2. Ledger(c) \subseteq ledger /\ IsFiniteSet(ledger)
    BY DEF SessionInv, RowsRight, RowsTyped, Ledger
  <2>3. count \in Nat
    BY <2>2, FS_Subset, FS_CardinalityType
  <2>4. \A d : {e \in ledger' : Concept(e) = d} = Ledger(d)
    BY <2>1 DEF Ledger
  <2> HIDE DEF count
  <2>5. states' \in [Concepts -> Nat] /\ states'[c] = count /\ \A d \in Concepts : d # c => states'[d] = states[d]
    BY <2>1, <2>3 DEF SessionInv, RowsRight, RowsTyped
  <2>6. ASSUME NEW d \in Concepts PROVE states'[d] <= Cardinality(Ledger(d))
    <3>1. CASE d = c
      BY <2>3, <2>5, <3>1 DEF count
    <3>2. CASE d # c
      BY <2>5, <3>2 DEF SessionInv, RowsRight, Counted
    <3> QED BY <3>1, <3>2
  <2>7. Counted'
    BY <2>1, <2>6 DEF Counted, Ledger, Concept
  <2>8. EvidenceOfAttempts'
    BY <1>1, <2>1 DEF SessionInv, RowsRight, EvidenceOfAttempts, Stored
  <2> QED BY <1>1, <1>2, <2>1, <2>5, <2>7, <2>8 DEF SessionInv, RowsRight, RowsTyped
<1> QED BY <1>3, <1>4

(* No evidence, and no attempts. *)
LEMMA NothingStored ==
    ASSUME attempts' = {}, ledger' = {}, states' = [c \in Concepts |-> 0]
    PROVE  /\ AnswersRight' /\ Counted' /\ IsFiniteSet(ledger')
           /\ states' \in [Concepts -> Nat]
<1>1. \A c \in Concepts : {e \in ledger' : Concept(e) = c} = {}
  OBVIOUS
<1>2. Counted'
  BY <1>1, FS_EmptySet DEF Counted, Ledger, Concept
<1> QED BY <1>2, FS_EmptySet DEF AnswersRight, ShortOnly, OneAttempt, EvidenceOfAttempts

(* The learning is deleted: the seeded session alone is active, and a      *)
(* start that the reset overtook goes on to insert another one.            *)
LEMMA ResetKeeps ==
    ASSUME SessionInv, Reset
    PROVE  SessionInv'
<1>1. /\ sessions' = [s \in Sessions |-> IF s = Seeded THEN "active"
                                          ELSE IF sessions[s] = "none" THEN "none" ELSE "deleted"]
      /\ attempts' = {} /\ ledger' = {} /\ states' = [c \in Concepts |-> 0]
      /\ UNCHANGED <<bank, call>>
  BY DEF Reset
<1>2. sessions' \in [Sessions -> Statuses] /\ OnlyOne'
  BY <1>1 DEF Statuses, OnlyOne
<1>3. TabsRight'
  <2>1. CASE page' = page
    BY <1>1, <2>1, TabsStay DEF SessionInv
  <2>2. ASSUME NEW t \in Overtaken, Show(t, "starting") PROVE TabsRight'
    BY <1>1, <2>2, StartingRight DEF SessionInv, Overtaken
  <2> QED BY <2>1, <2>2 DEF Reset
<1> QED BY <1>1, <1>2, <1>3, NothingStored DEF SessionInv, RowsRight, RowsTyped, AnswersRight

-----------------------------------------------------------------------------
(* A step in which no start begins and no session becomes active. *)
LEMMA StartsStay ==
    ASSUME StartsExclude,
           \A t \in Tabs : page'[t].phase = "starting" => page[t].phase = "starting",
           \A s \in Sessions \ {Seeded} : sessions'[s] = "active" => sessions[s] = "active"
    PROVE  StartsExclude'
  BY DEF StartsExclude

(* A start begins when no other is under way and no session is active that *)
(* a start has opened.                                                     *)
LEMMA StartsAlone ==
    ASSUME SessionInv, NEW t \in Tabs, Starting = {}, Show(t, "starting"),
           \A s \in Sessions \ {Seeded} : sessions'[s] # "active"
    PROVE  StartsExclude'
<1>1. \A u \in Tabs : u # t => page'[u].phase # "starting"
  BY DEF Show, SessionInv, TabsRight, Starting
<1> QED BY <1>1 DEF StartsExclude

(* The steps of a tab with its own request. *)
LEMMA TabsExclude ==
    ASSUME SessionInv, StartsExclude, NEW t \in Tabs,
           Step(t) \/ Refresh(t) \/ Continue(t) \/ Fault(t)
    PROVE  StartsExclude'
<1>1. CASE Start(t)
  <2>1. UNCHANGED rows /\ Starting = {}
    BY <1>1 DEF Start
  <2>2. ASSUME NEW s \in Active, page' = [page EXCEPT ![t] = Opened(s)] PROVE StartsExclude'
    <3>1. Opened(s).phase \in {"load", "complete"}
      BY OpenedRight DEF Active
    <3>2. \A u \in Tabs : page'[u] = IF u = t THEN Opened(s) ELSE page[u]
      BY <2>2 DEF SessionInv, TabsRight
    <3>3. \A u \in Tabs : page'[u].phase = "starting" => page[u].phase = "starting"
      BY <3>1, <3>2
    <3> QED BY <2>1, <3>3, StartsStay DEF rows
  <2>3. CASE Active = {} /\ Show(t, "starting")
    <3>1. \A s \in Sessions : sessions'[s] # "active"
      BY <2>1, <2>3 DEF Active, rows
    <3> QED BY <2>1, <2>3, <3>1, StartsAlone
  <2> QED BY <1>1, <2>2, <2>3 DEF Start
<1>2. CASE Open(t)
  <2>1. PICK s \in Sessions : page' = [page EXCEPT ![t] = Opened(s)] /\ page[t].phase = "starting"
    BY <1>2 DEF Open, Fresh
  <2>2. Opened(s).phase # "starting"
    BY OpenedRight
  <2>3. \A u \in Tabs : page'[u] = IF u = t THEN Opened(s) ELSE page[u]
    BY <2>1 DEF SessionInv, TabsRight
  <2>4. \A u \in Tabs : page'[u].phase # "starting"
    BY <2>1, <2>2, <2>3 DEF StartsExclude
  <2> QED BY <2>4 DEF StartsExclude
<1>3. CASE Load(t)
  <2>1. Placement(page[t].session).status # "starting" /\ Blank.phase # "starting"
    BY DEF Placement, Blank
  <2>2. page'[t].phase # "starting" /\ \A u \in Tabs : u # t => page'[u] = page[u]
    BY <1>3, <2>1 DEF Load, SessionInv, TabsRight, Pages
  <2> QED BY <1>3, <2>2, StartsStay DEF Load, rows
<1>4. CASE Project(t) \/ Fault(t)
  <2>1. page' = page
        \/ page' = [page EXCEPT ![t] = [@ EXCEPT !.phase = "result", !.abstained = ~call[t].scored]]
    BY <1>4 DEF Project, Fault
  <2>2. \A u \in Tabs : page'[u].phase # "starting" \/ page'[u] = page[u]
    BY <2>1 DEF SessionInv, TabsRight, Pages
  <2>3. sessions' = sessions
    BY <1>4 DEF Project, Fault
  <2> QED BY <2>2, <2>3, StartsStay
<1>5. CASE Replace(t) \/ Refresh(t) \/ Continue(t)
  <2>1. page' = page \/ Show(t, "load")
    BY <1>5 DEF Replace, Refresh, Continue
  <2>2. \A u \in Tabs : page'[u].phase # "starting" \/ page'[u] = page[u]
    BY <2>1 DEF Show, SessionInv, TabsRight, Pages
  <2> QED BY <1>5, <2>2, StartsStay DEF Replace, Refresh, Continue, rows
<1> QED BY <1>1, <1>2, <1>3, <1>4, <1>5 DEF Step

(* Every step keeps the starts apart. *)
LEMMA StartsNext == SessionInv /\ StartsExclude /\ [Next]_vars => StartsExclude'
<1> SUFFICES ASSUME SessionInv, StartsExclude, [Next]_vars PROVE StartsExclude'
  OBVIOUS
<1>1. ASSUME NEW t \in Tabs, NEW a \in Answers \cup {Text}, Submit(t, a) PROVE StartsExclude'
  <2>1. page' = [page EXCEPT ![t] = [page[t] EXCEPT !.answer = a]] /\ sessions' = sessions
    BY <1>1 DEF Submit, SessionInv, TabsRight
  <2>2. \A u \in Tabs : page'[u].phase = page[u].phase
    BY <2>1 DEF SessionInv, TabsRight, Pages
  <2> QED BY <2>1, <2>2, StartsStay
<1>2. CASE GenerateBank \/ \E s \in Sessions : CompleteSession(s)
  <2>1. page' = page
        /\ (sessions' = sessions \/ \E s \in Sessions : sessions' = [sessions EXCEPT ![s] = "completed"])
    BY <1>2 DEF GenerateBank, CompleteSession
  <2>2. \A s \in Sessions : sessions'[s] = "active" => sessions[s] = "active"
    BY <2>1 DEF SessionInv, RowsRight, RowsTyped
  <2> QED BY <2>1, <2>2, StartsStay
<1>3. CASE \E c \in Concepts : AnswerElsewhere(c) \/ ProjectElsewhere(c)
  BY <1>3, StartsStay DEF AnswerElsewhere, ProjectElsewhere
<1>4. CASE Reset
  <2>1. \A s \in Sessions \ {Seeded} : sessions'[s] # "active"
    BY <1>4 DEF Reset
  <2>2. CASE page' = page
    BY <2>1, <2>2, StartsStay
  <2>3. ASSUME NEW t \in Overtaken, Show(t, "starting") PROVE StartsExclude'
    BY <2>1, <2>3, StartsAlone DEF Overtaken
  <2> QED BY <1>4, <2>2, <2>3 DEF Reset
<1>5. CASE UNCHANGED vars
  BY <1>5, StartsStay DEF vars, rows
<1> QED BY <1>1, <1>2, <1>3, <1>4, <1>5, TabsExclude DEF Next

(* Initially nothing is stored and every tab is closed. *)
LEMMA SessionInit == Init => SessionInv /\ StartsExclude
<1> SUFFICES ASSUME Init PROVE SessionInv /\ StartsExclude
  OBVIOUS
<1>1. \A c \in Concepts : Ledger(c) = {}
  BY DEF Init, Ledger
<1>2. Blank \in Pages /\ TabRight(Blank, None)
  BY StudyAssumption DEF Blank, Pages, Showing, TabRight, Requests, Sessions, Seeded
<1>3. TabsRight
  BY <1>2 DEF Init, TabsRight, Requests
<1>4. Counted
  BY <1>1, FS_EmptySet DEF Init, Counted
<1>5. StartsExclude
  BY DEF Init, StartsExclude, Blank
<1> QED BY <1>3, <1>4, <1>5, FS_EmptySet
     DEF Init, SessionInv, RowsRight, RowsTyped, Statuses, OnlyOne, ShortOnly, OneAttempt, EvidenceOfAttempts

(* Every step keeps the session, its attempts and its evidence sound. *)
LEMMA SessionNext == SessionInv /\ StartsExclude /\ [Next]_vars => SessionInv'
<1> SUFFICES ASSUME SessionInv, StartsExclude, [Next]_vars PROVE SessionInv'
  OBVIOUS
<1>1. ASSUME NEW t \in Tabs, Step(t) \/ Refresh(t) \/ Continue(t) \/ Fault(t) PROVE SessionInv'
  BY <1>1, StartKeeps, OpenKeeps, LoadKeeps, ProjectKeeps, ReplaceKeeps, TurnKeeps DEF Step
<1>2. ASSUME NEW t \in Tabs, NEW a \in Answers \cup {Text}, Submit(t, a) PROVE SessionInv'
  BY <1>2, SubmitKeeps
<1>3. CASE GenerateBank \/ \E s \in Sessions : CompleteSession(s)
  BY <1>3, SessionsKeep
<1>4. CASE Reset
  BY <1>4, ResetKeeps
<1>5. ASSUME NEW c \in Concepts, AnswerElsewhere(c) \/ ProjectElsewhere(c) PROVE SessionInv'
  BY <1>5, ElsewhereKeeps
<1>6. CASE UNCHANGED vars
  BY <1>6, RowsStay, TabsStay DEF vars, SessionInv
<1> QED BY <1>1, <1>2, <1>3, <1>4, <1>5, <1>6 DEF Next

(* What the run checks follows from the invariant. *)
LEMMA SessionImplies == SessionInv /\ StartsExclude => AttemptsSound
<1> SUFFICES ASSUME SessionInv, StartsExclude PROVE AttemptsSound
  OBVIOUS
<1>1. OneActive
  <2>1. ASSUME NEW S, \A x, y \in S : x = y PROVE Cardinality(S) <= 1
    <3>1. CASE S = {}
      BY <3>1, FS_EmptySet
    <3>2. CASE S # {}
      <4>1. PICK x \in S : S = {x}
        BY <2>1, <3>2
      <4> QED BY <4>1, FS_Singleton
    <3> QED BY <3>1, <3>2
  <2>2. \A x, y \in Active \ {Seeded} : x = y
    BY DEF SessionInv, RowsRight, OnlyOne, Active
  <2>3. \A x, y \in Starting : x = y
    BY DEF StartsExclude, Starting
  <2>4. Starting # {} => Active \subseteq {Seeded}
    BY DEF StartsExclude, Starting, Active
  <2> QED BY <2>1, <2>2, <2>3, <2>4 DEF OneActive
<1>2. \A c \in Concepts : states[c] \in 0..Cardinality(Ledger(c))
  <2> SUFFICES ASSUME NEW c \in Concepts PROVE states[c] \in 0..Cardinality(Ledger(c))
    OBVIOUS
  <2>1. Ledger(c) \subseteq ledger /\ IsFiniteSet(ledger)
    BY DEF SessionInv, RowsRight, RowsTyped, Ledger
  <2>2. Cardinality(Ledger(c)) \in Nat
    BY <2>1, FS_Subset, FS_CardinalityType
  <2>3. states[c] \in Nat /\ states[c] <= Cardinality(Ledger(c))
    BY DEF SessionInv, RowsRight, RowsTyped, Counted
  <2> QED BY <2>2, <2>3
<1>3. TypeOK
  BY <1>2 DEF SessionInv, RowsRight, RowsTyped, TabsRight, TabRight, TypeOK, Statuses, Outcomes,
              Given, Ids, Pages, Showing
<1> QED BY <1>1, <1>3 DEF SessionInv, RowsRight, AttemptsSound

(* Tabs, retries and resets: one active session of those that starts open, *)
(* although a start is overtaken by a reset, one attempt on a keyed        *)
(* question, and evidence only of attempts that are stored.                *)
THEOREM AttemptsAreSound == MCSpec => []AttemptsSound
<1> DEFINE Inv == SessionInv /\ StartsExclude
<1>1. MCInit => Inv
  BY SessionInit DEF MCInit
<1>2. Inv /\ [MCNext]_<<part, vars, viewVars>> => Inv'
  <2> SUFFICES ASSUME SessionInv, StartsExclude, [MCNext]_<<part, vars, viewVars>>
               PROVE  SessionInv' /\ StartsExclude'
    OBVIOUS
  <2>1. [Next]_vars
    BY DEF MCNext
  <2> QED BY <2>1, SessionNext, StartsNext
<1>3. Inv => AttemptsSound
  BY SessionImplies
<1> QED BY <1>1, <1>2, <1>3, PTL DEF MCSpec

(* The result that a tab comes to show is that of evidence which its       *)
(* concept accounts for, or that of an answer the grader abstained from.   *)
THEOREM ToldStaysStored == MCSpec => ToldIsStored
<1> DEFINE Told == \A t \in Tabs :
             page[t].phase = "question" /\ page'[t].phase = "result" =>
               LET id == Id(page[t].session, page[t].item, page[t].answer) IN
               page'[t].abstained \/ Projected(id)'
<1> DEFINE Inv == SessionInv /\ StartsExclude
<1>1. MCInit => Inv
  BY SessionInit DEF MCInit
<1>2. Inv /\ [MCNext]_<<part, vars, viewVars>> => Inv'
  <2> SUFFICES ASSUME SessionInv, StartsExclude, [MCNext]_<<part, vars, viewVars>>
               PROVE  SessionInv' /\ StartsExclude'
    OBVIOUS
  <2>1. [Next]_vars
    BY DEF MCNext
  <2> QED BY <2>1, SessionNext, StartsNext
<1>3. Inv /\ [MCNext]_<<part, vars, viewVars>> => [Told]_vars
  <2> SUFFICES ASSUME SessionInv, Next, NEW t \in Tabs,
                      page[t].phase = "question", page'[t].phase = "result"
               PROVE  LET id == Id(page[t].session, page[t].item, page[t].answer) IN
                      page'[t].abstained \/ Projected(id)'
    BY DEF MCNext
  <2>1. ASSUME NEW u \in Tabs, Project(u)
        PROVE  LET id == Id(page[t].session, page[t].item, page[t].answer) IN
               page'[t].abstained \/ Projected(id)'
    <3> DEFINE id == Id(page[t].session, page[t].item, page[t].answer)
    <3>1. u = t /\ Projectable(call[t].id)
      BY <2>1 DEF Project, SessionInv, TabsRight
    <3>2. /\ call[t] # None /\ Evidence(call[t])
          /\ page' = [page EXCEPT ![t] = [page[t] EXCEPT !.phase = "result", !.abstained = ~call[t].scored]]
      BY <2>1, <3>1 DEF Project, SessionInv, TabsRight
    <3>3. call[t] \in Requests /\ call[t].id = id /\ page[t] \in Pages
      BY <3>2 DEF SessionInv, TabsRight, TabRight
    <3>4. id \in Ids /\ call[t].scored \in BOOLEAN
      BY <3>2, <3>3 DEF Requests
    <3>5. CASE ~call[t].scored
      <4> DEFINE abstained == ~call[t].scored
      <4>1. page' = [page EXCEPT ![t] = [page[t] EXCEPT !.phase = "result", !.abstained = abstained]]
            /\ abstained \in BOOLEAN /\ abstained
        BY <3>2, <3>5
      <4> HIDE DEF abstained
      <4> QED BY <3>3, <4>1 DEF SessionInv, TabsRight, Pages
    <3>6. CASE call[t].scored
      <4>1. Record(id)
        BY <3>2, <3>3, <3>6 DEF Evidence
      <4>2. Concept(id) \in Concepts
        BY <3>4, StudyAssumption DEF Concept, Ids, Given, Items
      <4>3. id \in ledger'
            /\ states'[Concept(id)] = Cardinality({e \in ledger' : Concept(e) = Concept(id)})
        BY <4>1, <4>2 DEF Record, SessionInv, RowsRight, RowsTyped
      <4> DEFINE abstained == ~call[t].scored
      <4>4. page' = [page EXCEPT ![t] = [page[t] EXCEPT !.phase = "result", !.abstained = abstained]]
            /\ abstained \in BOOLEAN
        BY <3>2, <3>4
      <4> HIDE DEF abstained
      <4>5. /\ page'[t].session = page[t].session /\ page'[t].item = page[t].item
            /\ page'[t].answer = page[t].answer
        BY <3>3, <4>4 DEF SessionInv, TabsRight, Pages
      <4>6. Id(page'[t].session, page'[t].item, page'[t].answer) = id
        BY <4>5
      <4> QED BY <4>3, <4>6 DEF Projected, Ledger, Concept, Id
    <3> QED BY <3>4, <3>5, <3>6
  <2>2. ASSUME NEW u \in Tabs,
               \/ Start(u) \/ Open(u) \/ Load(u) \/ Replace(u)
               \/ Refresh(u) \/ Continue(u) \/ Fault(u)
        PROVE  FALSE
    <3>1. CASE page[u].phase # "question"
      <4>1. u # t /\ page'[t] = page[t]
        BY <2>2, <3>1 DEF Start, Open, Load, Replace, Refresh, Continue, Fault, Show,
           SessionInv, TabsRight
      <4> QED BY <4>1
    <3>2. CASE page[u].phase = "question"
      <4>1. page' = page \/ Show(u, "load")
        BY <2>2, <3>2 DEF Start, Open, Load, Replace, Refresh, Continue, Fault
      <4> QED BY <4>1 DEF Show, SessionInv, TabsRight, Pages
    <3> QED BY <3>1, <3>2
  <2>3. ASSUME NEW u \in Tabs, NEW a \in Answers \cup {Text}, Submit(u, a) PROVE FALSE
    <3>1. page' = [page EXCEPT ![u] = [page[u] EXCEPT !.answer = a]]
      BY <2>3 DEF Submit, SessionInv, TabsRight
    <3> QED BY <3>1 DEF SessionInv, TabsRight, Pages
  <2>4. ASSUME page' = page PROVE FALSE
    BY <2>4
  <2>5. ASSUME Reset PROVE FALSE
    <3>1. PICK u \in Tabs : Show(u, "starting")
      BY <2>4, <2>5 DEF Reset, Overtaken
    <3> QED BY <3>1 DEF Show, SessionInv, TabsRight, Pages
  <2>6. ASSUME \/ GenerateBank \/ \E s \in Sessions : CompleteSession(s)
               \/ \E c \in Concepts : AnswerElsewhere(c) \/ ProjectElsewhere(c)
        PROVE  FALSE
    BY <2>4, <2>6 DEF GenerateBank, CompleteSession, AnswerElsewhere, ProjectElsewhere
  <2> QED BY <2>1, <2>2, <2>3, <2>5, <2>6 DEF Next, Step
<1> QED BY <1>1, <1>2, <1>3, PTL DEF MCSpec, ToldIsStored

-----------------------------------------------------------------------------
(* The page.                                                               *)
(***************************************************************************)

Spinning == {"start", "continue", "nextAction", "completeLesson", "grade", "fallback"}

(* Functions whose failure leaves the page as it is. *)
Quiet == {"poll", "pollPlacement", "openLesson", "placementAnswer", "placementFallback",
          "refreshPlacement", "regeneratePlacement", "regenerateLesson"}
Awaited == {"preflight", "session", "placement", "placementPending", "pending", "lesson", "view",
            "viewPending", "next", "complete", "regenerate", "answer"}

Views == [phase : Page!Phases, view : {None, "retest", "other"}, courseLesson : BOOLEAN,
          question : BOOLEAN, assessment : {None, "abstained", "graded"},
          placement : {None, "question", "other"}, placementResult : {None, "abstained", "graded"},
          submissionRetry : {None, "short_answer", "replacement"}, nextRetry : BOOLEAN]
Flows == [kind : Page!Learners \cup Page!Background, at : Awaited, state : Page!Views \cup {None}]
         \cup {Page!Idle}

PageTyped == view \in Views /\ flow \in [Slots -> Flows] /\ crossed \in BOOLEAN

(* A page p at rest: it shows something, and what it offers has what it    *)
(* needs.                                                                  *)
Resting(p) ==
    /\ p.phase = "question" => p.view # None /\ p.question
    /\ p.phase = "result" => p.assessment # None /\ (p.assessment = "graded" => p.view # None)
    /\ p.phase = "lesson" => p.courseLesson \/ p.view = "retest"
    /\ p.phase = "summary" => p.view # None
    /\ p.phase \in {"placement_pending", "placement_failed", "placement_complete"} => p.placement # None
    /\ p.phase = "placement_question" => p.placement = "question"
    /\ p.phase = "placement_result" => p.placementResult # None
    /\ p.nextRetry => p.phase = "error" /\ p.submissionRetry = None /\ p.view # None

(* A function f that alone awaits a response can go on from the page p:    *)
(* whether it is answered or fails, it leaves a page at rest.              *)
Alive(f, p) ==
    /\ ~p.nextRetry
    /\ f.kind \in Quiet /\ f.at # "placementPending" => Resting(p)
    /\ f.kind \in Quiet /\ f.at \in {"view", "viewPending"} =>
         p.phase = "result" /\ p.assessment = "abstained"
    /\ f.at = "placementPending" => p.placement = "question"
    /\ f.at = "viewPending" => p.view # None /\ (f.state = "retest" => p.view = "retest")
    /\ f.kind = "nextAction" => p.view # None /\ f.at \in {"next", "lesson", "view", "viewPending"}
    /\ f.at = "next" => f.kind = "nextAction"
    /\ f.at = "complete" => f.kind = "completeLesson"
    /\ f.kind \in {"grade", "fallback"} => p.view # None /\ f.at = "answer"
    /\ f.kind = "regeneratePlacement" => p.placement # None
    /\ f.kind \in {"regenerateLesson", "regeneratePlacement"} <=> f.at = "regenerate"

PageAlive ==
    ~crossed =>
        /\ (\A s \in Slots : flow[s] = Page!Idle) => Resting(view)
        /\ \A s \in Slots : flow[s] # Page!Idle /\ Page!Alone(s) => Alive(flow[s], view)

PageInv == PageTyped /\ Page!BusyIsWaiting /\ PageAlive

(* A page p shows what the page shows now, except for its phase. *)
Kept(p) ==
    /\ p.view = view.view /\ p.courseLesson = view.courseLesson /\ p.question = view.question
    /\ p.assessment = view.assessment /\ p.placement = view.placement
    /\ p.placementResult = view.placementResult /\ p.submissionRetry = view.submissionRetry
    /\ p.nextRetry = view.nextRetry

Busy(p) == p.phase \in {"checking", "submitting"}

(* Another phase of the same page. *)
LEMMA PhaseSet ==
    ASSUME PageTyped, NEW x \in Page!Phases
    PROVE  Page!Phase(x) \in Views /\ Page!Phase(x).phase = x /\ Kept(Page!Phase(x))
  BY DEF PageTyped, Views, Page!Phase, Kept

(* A function that awaits a response. *)
LEMMA FlowIs ==
    ASSUME PageTyped, NEW s \in Slots, flow[s] # Page!Idle
    PROVE  /\ flow[s].kind \in Page!Learners \cup Page!Background /\ flow[s].at \in Awaited
           /\ flow[s].state \in Page!Views \cup {None}
  BY DEF PageTyped, Flows

(* A slot changes, and the page with it. *)
LEMMA SlotMoves ==
    ASSUME PageTyped, NEW s \in Slots, NEW f \in Flows, NEW p \in Views,
           flow' = [flow EXCEPT ![s] = f], view' = p, crossed' \in BOOLEAN
    PROVE  /\ PageTyped' /\ flow'[s] = f
           /\ \A u \in Slots : u # s => flow'[u] = flow[u]
  BY DEF PageTyped, Views

(* A function is started.  If nothing else runs, the page was at rest. *)
LEMMA CallKeeps ==
    ASSUME PageInv, NEW s \in Slots, NEW kind \in Page!Learners \cup Page!Background,
           NEW at \in Awaited, NEW p \in Views, Page!Call(s, kind, at, p),
           Busy(p) => kind \in Spinning \/ p.phase = view.phase,
           NEW f, f = [kind |-> kind, at |-> at, state |-> None],
           Resting(view) => Alive(f, p)
    PROVE  PageInv'
<1>1. /\ flow[s] = Page!Idle /\ flow' = [flow EXCEPT ![s] = f] /\ view' = p /\ crossed' = crossed
  <2>1. [Page!Idle EXCEPT !.kind = kind, !.at = at] = f
    <3> DEFINE i == [kind |-> None, at |-> None, state |-> None]
               g == [i EXCEPT !.kind = kind, !.at = at]
    <3>1. i \in [kind : {kind, None}, at : {at, None}, state : {None}]
      OBVIOUS
    <3> HIDE DEF i
    <3>2. g \in [kind : {kind, None}, at : {at, None}, state : {None}] /\ g.kind = kind /\ g.at = at
      BY <3>1
    <3> HIDE DEF g
    <3>3. g = [kind |-> kind, at |-> at, state |-> None]
      BY <3>2
    <3> QED BY <3>3 DEF g, i, Page!Idle
  <2> QED BY <2>1 DEF Page!Call
<1>2. f \in Flows /\ f # Page!Idle /\ f.kind = kind
  BY PageAssumption DEF Flows, Page!Idle
<1>3. /\ PageTyped' /\ flow'[s] = f /\ \A u \in Slots : u # s => flow'[u] = flow[u]
  BY <1>1, <1>2, SlotMoves DEF PageInv, PageTyped
<1>4. Page!BusyIsWaiting'
  <2> SUFFICES ASSUME Busy(p) PROVE \E u \in Slots : flow'[u].kind \in Spinning
    BY <1>1 DEF Page!BusyIsWaiting, Busy, Spinning
  <2>1. CASE kind \in Spinning
    BY <1>2, <1>3, <2>1
  <2>2. CASE p.phase = view.phase
    <3>1. PICK u \in Slots : flow[u].kind \in Spinning
      BY <2>2 DEF PageInv, Page!BusyIsWaiting, Busy, Spinning
    <3>2. u # s
      BY <1>1, <3>1, PageAssumption DEF Page!Idle, Spinning, Page!Learners
    <3> QED BY <1>3, <3>1, <3>2
  <2> QED BY <2>1, <2>2
<1>5. PageAlive'
  <2> SUFFICES ASSUME ~crossed, NEW u \in Slots, flow'[u] # Page!Idle,
                      \A o \in Slots \ {u} : flow'[o] = Page!Idle
               PROVE  Alive(flow'[u], view')
    BY <1>1, <1>2, <1>3 DEF PageAlive, Page!Alone, Page!Idle, Resting, Alive
  <2>1. u = s
    BY <1>2, <1>3
  <2>2. \A o \in Slots : flow[o] = Page!Idle
    BY <1>1, <1>3, <2>1
  <2>3. Resting(view)
    BY <2>2 DEF PageInv, PageAlive
  <2> QED BY <1>1, <1>3, <2>1, <2>3
<1> QED BY <1>3, <1>4, <1>5 DEF PageInv

(* A function goes on, or ends.  If nothing else runs, it was alive. *)
LEMMA AnswerKeeps ==
    ASSUME PageInv, NEW s \in Slots, flow[s] # Page!Idle, NEW f \in Flows, NEW p \in Views,
           flow' = [flow EXCEPT ![s] = f], view' = p,
           crossed' \in BOOLEAN, crossed \/ ~Page!Alone(s) => crossed',
           Busy(p) => p.phase = view.phase /\ (flow[s].kind \in Spinning => f.kind = flow[s].kind),
           ~crossed' /\ Alive(flow[s], view) => IF f = Page!Idle THEN Resting(p) ELSE Alive(f, p)
    PROVE  PageInv'
<1>1. /\ PageTyped' /\ flow'[s] = f /\ \A u \in Slots : u # s => flow'[u] = flow[u]
  BY SlotMoves DEF PageInv
<1>2. Page!BusyIsWaiting'
  <2> SUFFICES ASSUME Busy(p) PROVE \E u \in Slots : flow'[u].kind \in Spinning
    BY DEF Page!BusyIsWaiting, Busy, Spinning
  <2>1. PICK u \in Slots : flow[u].kind \in Spinning
    BY DEF PageInv, Page!BusyIsWaiting, Busy, Spinning
  <2>2. flow'[u].kind \in Spinning
    BY <1>1, <2>1
  <2> QED BY <2>2
<1>3. PageAlive'
  <2> SUFFICES ASSUME ~crossed'
               PROVE  /\ (\A u \in Slots : flow'[u] = Page!Idle) => Resting(p)
                      /\ \A u \in Slots : flow'[u] # Page!Idle /\ Page!Alone(u)' => Alive(flow'[u], p)
    BY DEF PageAlive, Page!Idle, Resting, Alive
  <2>1. Page!Alone(s) /\ ~crossed /\ Alive(flow[s], view)
    BY DEF PageInv, PageTyped, PageAlive
  <2>2. IF f = Page!Idle THEN Resting(p) ELSE Alive(f, p)
    BY <2>1
  <2>3. \A u \in Slots : u # s => flow'[u] = Page!Idle
    BY <1>1, <2>1 DEF Page!Alone
  <2> QED BY <1>1, <2>2, <2>3
<1> QED BY <1>1, <1>2, <1>3 DEF PageInv

(* A function ends. *)
LEMMA DoneKeeps ==
    ASSUME PageInv, NEW s \in Slots, flow[s] # Page!Idle, NEW p \in Views, Page!Done(s, p),
           crossed' \in BOOLEAN, crossed \/ ~Page!Alone(s) => crossed',
           ~Busy(p) \/ (p.phase = view.phase /\ flow[s].kind \notin Spinning),
           ~crossed' /\ Alive(flow[s], view) => Resting(p)
    PROVE  PageInv'
<1>1. Page!Idle \in Flows /\ flow' = [flow EXCEPT ![s] = Page!Idle] /\ view' = p
  BY DEF Page!Done, Flows
<1> QED BY <1>1, AnswerKeeps

(* A function goes on to its next request. *)
LEMMA GotoKeeps ==
    ASSUME PageInv, NEW s \in Slots, flow[s] # Page!Idle, NEW at \in Awaited, NEW p \in Views,
           Page!Goto(s, at, p),
           crossed' \in BOOLEAN, crossed \/ ~Page!Alone(s) => crossed',
           ~Busy(p) \/ p.phase = view.phase,
           NEW f, f = [flow[s] EXCEPT !.at = at],
           ~crossed' /\ Alive(flow[s], view) => Alive(f, p)
    PROVE  PageInv'
<1>1. f \in Flows /\ f.kind = flow[s].kind /\ f # Page!Idle
  BY FlowIs, PageAssumption DEF PageInv, PageTyped, Flows, Page!Idle
<1>2. flow' = [flow EXCEPT ![s] = f] /\ view' = p
  BY DEF Page!Goto, PageInv, PageTyped
<1> QED BY <1>1, <1>2, AnswerKeeps

-----------------------------------------------------------------------------
(* The learner starts a function: one that keeps the page as it is finds   *)
(* it at rest, and the others set what they need before they wait.         *)
LEMMA LearnerStarts ==
    ASSUME PageInv, NEW s \in Slots, Page!Press(s)
    PROVE  PageInv'
<1> USE PhaseSet DEF PageInv
<1> DEFINE F(kind, at) == [kind |-> kind, at |-> at, state |-> None]
<1>1. view \in Views /\ PageTyped
  BY DEF PageTyped
<1>2. CASE Page!Start(s)
  <2> DEFINE p == Page!Phase("checking")
  <2>1. p \in Views /\ p.phase = "checking" /\ Kept(p)
    BY <1>1 DEF Page!Phases
  <2>2. Page!Call(s, "start", "preflight", p)
    BY <1>2 DEF Page!Start
  <2>3. Resting(view) => ~view.nextRetry
    BY <1>2 DEF Page!Start, Resting
  <2> HIDE DEF p
  <2>4. Resting(view) => Alive(F("start", "preflight"), p)
    BY <2>1, <2>3 DEF Alive, Quiet, Kept
  <2> QED BY <2>1, <2>2, <2>4, CallKeeps DEF Page!Learners, Awaited, Spinning
<1>3. CASE Page!CheckPreparedLesson(s)
  <2>1. Page!Call(s, "check", "session", view) /\ view.phase = "preparing"
    BY <1>3 DEF Page!CheckPreparedLesson
  <2>2. Resting(view) => Alive(F("check", "session"), view)
    BY <2>1 DEF Alive, Quiet, Resting
  <2> QED BY <1>1, <2>1, <2>2, CallKeeps DEF Page!Learners, Awaited
<1>4. CASE Page!RegenerateLesson(s)
  <2>1. Page!Call(s, "regenerateLesson", "regenerate", view) /\ view.phase = "activation_failed"
    BY <1>4 DEF Page!RegenerateLesson
  <2>2. Resting(view) => Alive(F("regenerateLesson", "regenerate"), view)
    BY <2>1 DEF Alive, Quiet, Resting
  <2> QED BY <1>1, <2>1, <2>2, CallKeeps DEF Page!Learners, Awaited
<1>5. CASE Page!RefreshPlacement(s)
  <2>1. Page!Call(s, "refreshPlacement", "placement", view) /\ view.phase # "error"
    BY <1>5 DEF Page!RefreshPlacement
  <2>2. Resting(view) => Alive(F("refreshPlacement", "placement"), view)
    BY <2>1 DEF Alive, Quiet, Resting
  <2> QED BY <1>1, <2>1, <2>2, CallKeeps DEF Page!Learners, Awaited
<1>6. CASE Page!RegeneratePlacement(s)
  <2>1. /\ Page!Call(s, "regeneratePlacement", "regenerate", view)
        /\ view.phase # "error" /\ view.placement # None
    BY <1>6 DEF Page!RegeneratePlacement
  <2>2. Resting(view) => Alive(F("regeneratePlacement", "regenerate"), view)
    BY <2>1 DEF Alive, Quiet, Resting
  <2> QED BY <1>1, <2>1, <2>2, CallKeeps DEF Page!Learners, Awaited
<1>7. CASE Page!SubmitPlacementAnswer(s)
  <2>1. Page!Call(s, "placementAnswer", "answer", view) /\ view.phase # "error"
    BY <1>7 DEF Page!SubmitPlacementAnswer
  <2>2. Resting(view) => Alive(F("placementAnswer", "answer"), view)
    BY <2>1 DEF Alive, Quiet, Resting
  <2> QED BY <1>1, <2>1, <2>2, CallKeeps DEF Page!Learners, Awaited
<1>8. CASE Page!SubmitPlacementFallback(s)
  <2>1. Page!Call(s, "placementFallback", "answer", view) /\ view.phase # "error"
    BY <1>8 DEF Page!SubmitPlacementFallback
  <2>2. Resting(view) => Alive(F("placementFallback", "answer"), view)
    BY <2>1 DEF Alive, Quiet, Resting
  <2> QED BY <1>1, <2>1, <2>2, CallKeeps DEF Page!Learners, Awaited
<1>9. CASE Page!ContinueAfterPlacement(s)
  <2> DEFINE p == Page!Phase("checking")
  <2>1. p \in Views /\ p.phase = "checking" /\ Kept(p)
    BY <1>1 DEF Page!Phases
  <2>2. Page!Call(s, "continue", "session", p) /\ view.phase # "error"
    BY <1>9 DEF Page!ContinueAfterPlacement
  <2> HIDE DEF p
  <2>3. Resting(view) => Alive(F("continue", "session"), p)
    BY <2>1, <2>2 DEF Alive, Quiet, Kept, Resting
  <2> QED BY <2>1, <2>2, <2>3, CallKeeps DEF Page!Learners, Awaited, Spinning
<1>10. CASE Page!CompleteCourseLesson(s)
  <2> DEFINE p == Page!Phase("checking")
  <2>1. p \in Views /\ p.phase = "checking" /\ Kept(p)
    BY <1>1 DEF Page!Phases
  <2>2. Page!Call(s, "completeLesson", "complete", p) /\ view.phase # "error"
    BY <1>10 DEF Page!CompleteCourseLesson
  <2> HIDE DEF p
  <2>3. Resting(view) => Alive(F("completeLesson", "complete"), p)
    BY <2>1, <2>2 DEF Alive, Quiet, Kept, Resting
  <2> QED BY <2>1, <2>2, <2>3, CallKeeps DEF Page!Learners, Awaited, Spinning
<1>11. CASE Page!GradeShortAnswer(s)
  <2> DEFINE p == Page!Phase("submitting")
  <2>1. p \in Views /\ p.phase = "submitting" /\ Kept(p)
    BY <1>1 DEF Page!Phases
  <2>2. /\ Page!Call(s, "grade", "answer", p) /\ view.view # None
        /\ view.phase # "error" \/ view.submissionRetry # None
    BY <1>11, PageAssumption DEF Page!GradeShortAnswer
  <2> HIDE DEF p
  <2>3. Resting(view) => Alive(F("grade", "answer"), p)
    BY <2>1, <2>2 DEF Alive, Quiet, Kept, Resting
  <2> QED BY <2>1, <2>2, <2>3, CallKeeps DEF Page!Learners, Awaited, Spinning
<1>12. CASE Page!SubmitFallback(s)
  <2> DEFINE p == Page!Phase("submitting")
  <2>1. p \in Views /\ p.phase = "submitting" /\ Kept(p)
    BY <1>1 DEF Page!Phases
  <2>2. /\ Page!Call(s, "fallback", "answer", p) /\ view.view # None
        /\ view.phase # "error" \/ view.submissionRetry # None
    BY <1>12, PageAssumption DEF Page!SubmitFallback
  <2> HIDE DEF p
  <2>3. Resting(view) => Alive(F("fallback", "answer"), p)
    BY <2>1, <2>2 DEF Alive, Quiet, Kept, Resting
  <2> QED BY <2>1, <2>2, <2>3, CallKeeps DEF Page!Learners, Awaited, Spinning
<1>13. CASE Page!NextAction(s)
  <2> DEFINE p == [Page!Phase("checking") EXCEPT !.nextRetry = FALSE]
  <2>1. p \in Views /\ p.phase = "checking" /\ p.view = view.view /\ ~p.nextRetry
    <3>1. Page!Phase("checking") \in Views /\ Page!Phase("checking").phase = "checking"
          /\ Kept(Page!Phase("checking"))
      BY <1>1 DEF Page!Phases
    <3> QED BY <3>1 DEF Views, Kept
  <2>2. Page!Call(s, "nextAction", "next", p)
    BY <1>13 DEF Page!NextAction
  <2>3. Resting(view) => view.view # None
    BY <1>13, PageAssumption DEF Page!NextAction, Resting
  <2> HIDE DEF p
  <2>4. Resting(view) => Alive(F("nextAction", "next"), p)
    BY <2>1, <2>3 DEF Alive, Quiet
  <2> QED BY <2>1, <2>2, <2>4, CallKeeps DEF Page!Learners, Awaited, Spinning
<1>14. CASE Page!RetryOpen(s)
  <2>1. \/ Page!Call(s, "retryLesson", "lesson", view)
        \/ Page!Call(s, "retryView", "view", view)
    BY <1>14 DEF Page!RetryOpen
  <2>2. view.phase = "error" /\ ~view.nextRetry
    BY <1>14 DEF Page!RetryOpen
  <2>3. Alive(F("retryLesson", "lesson"), view) /\ Alive(F("retryView", "view"), view)
    BY <2>2 DEF Alive, Quiet
  <2>4. CASE Page!Call(s, "retryLesson", "lesson", view)
    BY <1>1, <2>2, <2>3, <2>4, CallKeeps DEF Page!Learners, Awaited, Busy
  <2>5. CASE Page!Call(s, "retryView", "view", view)
    BY <1>1, <2>2, <2>3, <2>5, CallKeeps DEF Page!Learners, Awaited, Busy
  <2> QED BY <2>1, <2>4, <2>5
<1> QED BY <1>2, <1>3, <1>4, <1>5, <1>6, <1>7, <1>8, <1>9, <1>10, <1>11, <1>12, <1>13, <1>14
     DEF Page!Press

(* A poll, a timer or an event of the stream starts a function. *)
LEMMA BackgroundStarts ==
    ASSUME PageInv, NEW s \in Slots,
           Page!Poll(s) \/ Page!PollPlacement(s) \/ Page!OpenLesson(s) \/ Page!ActivationFails(s)
    PROVE  PageInv'
<1> USE DEF PageInv
<1> DEFINE F(kind, at) == [kind |-> kind, at |-> at, state |-> None]
<1>1. view \in Views /\ PageTyped
  BY DEF PageTyped
<1>2. CASE Page!Poll(s)
  <2>1. Page!Call(s, "poll", "session", view) /\ view.phase # "error"
    BY <1>2 DEF Page!Poll, Page!Streaming
  <2>2. Resting(view) => Alive(F("poll", "session"), view)
    BY <2>1 DEF Alive, Quiet, Resting
  <2> QED BY <1>1, <2>1, <2>2, CallKeeps DEF Page!Background, Awaited
<1>3. CASE Page!PollPlacement(s)
  <2>1. Page!Call(s, "pollPlacement", "placement", view) /\ view.phase # "error"
    BY <1>3 DEF Page!PollPlacement
  <2>2. Resting(view) => Alive(F("pollPlacement", "placement"), view)
    BY <2>1 DEF Alive, Quiet, Resting
  <2> QED BY <1>1, <2>1, <2>2, CallKeeps DEF Page!Background, Awaited
<1>4. CASE Page!OpenLesson(s)
  <2>1. Page!Call(s, "openLesson", "lesson", view) /\ view.phase # "error"
    BY <1>4 DEF Page!OpenLesson
  <2>2. Resting(view) => Alive(F("openLesson", "lesson"), view)
    BY <2>1 DEF Alive, Quiet, Resting
  <2> QED BY <1>1, <2>1, <2>2, CallKeeps DEF Page!Background, Awaited
<1>5. CASE Page!ActivationFails(s)
  <2> DEFINE p == Page!Phase("activation_failed")
  <2>1. p \in Views /\ p.phase = "activation_failed" /\ Kept(p)
    BY <1>1, PhaseSet DEF Page!Phases
  <2>2. Page!Call(s, "poll", "session", p) /\ view.phase = "preparing"
    BY <1>5 DEF Page!ActivationFails
  <2> HIDE DEF p
  <2>3. Resting(view) => Alive(F("poll", "session"), p)
    BY <2>1, <2>2 DEF Alive, Quiet, Kept, Resting
  <2> QED BY <2>1, <2>2, <2>3, CallKeeps DEF Page!Background, Awaited, Busy
<1> QED BY <1>2, <1>3, <1>4, <1>5

-----------------------------------------------------------------------------
(* What a response changes of the page besides its phase. *)
LEMMA AssessmentShown ==
    ASSUME PageTyped, NEW outcome \in {"abstained", "graded"}, NEW p, p = Page!WithAssessment(outcome)
    PROVE  /\ p \in Views /\ p.phase = "result" /\ p.assessment = outcome
           /\ p.view = view.view /\ p.nextRetry = view.nextRetry
<1>1. Page!Phase("result") \in Views /\ Page!Phase("result").phase = "result" /\ Kept(Page!Phase("result"))
  BY PhaseSet DEF Page!Phases
<1> QED BY <1>1 DEF Page!WithAssessment, Views, Kept

(* A phase that has nothing to show follows; a learner who is told of an   *)
(* error can go back to the view, if there is one to go back to.           *)
LEMMA ErrorShown ==
    ASSUME PageTyped, NEW r \in {None, "short_answer", "replacement"}, NEW again \in BOOLEAN, NEW p,
           p = [Page!Phase("error") EXCEPT !.submissionRetry = r, !.nextRetry = again]
    PROVE  /\ p \in Views /\ p.phase = "error" /\ p.submissionRetry = r /\ p.nextRetry = again
           /\ p.view = view.view
<1>1. Page!Phase("error") \in Views /\ Page!Phase("error").phase = "error" /\ Kept(Page!Phase("error"))
  BY PhaseSet DEF Page!Phases
<1> QED BY <1>1 DEF Views, Kept

(* The same of an error that says nothing of what to do next. *)
LEMMA ErrorOnly ==
    ASSUME PageTyped, NEW r \in {None, "short_answer", "replacement"}, NEW p,
           p = [Page!Phase("error") EXCEPT !.submissionRetry = r]
    PROVE  /\ p \in Views /\ p.phase = "error" /\ p.nextRetry = view.nextRetry
<1>1. Page!Phase("error") \in Views /\ Page!Phase("error").phase = "error" /\ Kept(Page!Phase("error"))
  BY PhaseSet DEF Page!Phases
<1> QED BY <1>1 DEF Views, Kept

(* A request fails: the catch of the function leaves a page at rest. *)
LEMMA ThrowKeeps ==
    ASSUME PageInv, NEW s \in Slots, flow[s] # Page!Idle, Page!Throw(s),
           crossed' \in BOOLEAN, crossed \/ ~Page!Alone(s) => crossed',
           flow[s].at = "placementPending" => crossed'
    PROVE  PageInv'
<1> DEFINE kind == flow[s].kind
           p == Page!Failed(s)
<1>1. PageTyped /\ view \in Views /\ Page!Done(s, p)
  BY DEF PageInv, PageTyped, Page!Throw
<1>2. kind \in Page!Learners \cup Page!Background
  BY <1>1, FlowIs
<1>3. CASE kind \in {"start", "continue", "completeLesson", "retryLesson", "retryView"}
  <2>1. p = [Page!Phase("error") EXCEPT !.submissionRetry = None]
    BY <1>3 DEF Page!Failed
  <2>2. p \in Views /\ p.phase = "error" /\ p.nextRetry = view.nextRetry
    BY <1>1, <2>1, ErrorOnly
  <2> HIDE DEF p
  <2>3. Alive(flow[s], view) => Resting(p)
    BY <2>2 DEF Alive, Resting
  <2> QED BY <1>1, <2>2, <2>3, DoneKeeps DEF Busy
<1>4. CASE kind = "nextAction"
  <2>1. p = [Page!Phase("error") EXCEPT !.submissionRetry = None, !.nextRetry = TRUE]
    BY <1>4 DEF Page!Failed
  <2>2. p \in Views /\ p.phase = "error" /\ p.submissionRetry = None /\ p.view = view.view
    BY <1>1, <2>1, ErrorShown
  <2> HIDE DEF p
  <2>3. Alive(flow[s], view) => Resting(p)
    BY <1>4, <2>2 DEF Alive, Resting
  <2> QED BY <1>1, <2>2, <2>3, DoneKeeps DEF Busy
<1>5. CASE kind \in {"grade", "fallback"}
  <2> DEFINE r == IF kind = "grade" THEN "short_answer" ELSE "replacement"
  <2>1. p = [Page!Phase("error") EXCEPT !.submissionRetry = r] /\ r \in {"short_answer", "replacement"}
    BY <1>5 DEF Page!Failed
  <2> HIDE DEF r
  <2>2. p \in Views /\ p.phase = "error" /\ p.nextRetry = view.nextRetry
    BY <1>1, <2>1, ErrorOnly
  <2> HIDE DEF p
  <2>3. Alive(flow[s], view) => Resting(p)
    BY <2>2 DEF Alive, Resting
  <2> QED BY <1>1, <2>2, <2>3, DoneKeeps DEF Busy
<1>6. CASE kind = "check"
  <2>1. p = Page!Phase("preparing")
    BY <1>6 DEF Page!Failed
  <2>2. p \in Views /\ p.phase = "preparing" /\ Kept(p)
    BY <1>1, <2>1, PhaseSet DEF Page!Phases
  <2> HIDE DEF p
  <2>3. Alive(flow[s], view) => Resting(p)
    BY <2>2 DEF Alive, Resting, Kept
  <2> QED BY <1>1, <2>2, <2>3, DoneKeeps DEF Busy
<1>7. CASE kind \in Quiet
  <2>1. p = view
    BY <1>7 DEF Page!Failed, Quiet
  <2>2. kind \notin Spinning
    BY <1>7 DEF Quiet, Spinning
  <2> HIDE DEF p
  <2>3. ~crossed' /\ Alive(flow[s], view) => Resting(p)
    BY <1>7, <2>1 DEF Alive
  <2> QED BY <1>1, <2>1, <2>2, <2>3, DoneKeeps
<1> QED BY <1>2, <1>3, <1>4, <1>5, <1>6, <1>7 DEF Page!Learners, Page!Background, Quiet

(* A function ends with a phase that shows what is there. *)
LEMMA PhaseKeeps ==
    ASSUME PageInv, NEW s \in Slots, flow[s] # Page!Idle,
           NEW x \in Page!Phases \ {"checking", "submitting"}, Page!Done(s, Page!Phase(x)),
           crossed' \in BOOLEAN, crossed \/ ~Page!Alone(s) => crossed',
           ~crossed' /\ Alive(flow[s], view) =>
             \/ x \in {"blocked", "activation_failed", "preparing"}
             \/ x = "placement_question" /\ view.placement = "question"
             \/ x = "placement_pending" /\ view.placement # None
             \/ x = "summary" /\ view.view # None
             \/ x = "lesson" /\ view.view = "retest"
    PROVE  PageInv'
<1> DEFINE p == Page!Phase(x)
<1>1. p \in Views /\ p.phase = x /\ Kept(p)
  BY PhaseSet DEF PageInv
<1>2. Page!Done(s, p)
  OBVIOUS
<1> HIDE DEF p
<1>3. ~crossed' /\ Alive(flow[s], view) => Resting(p)
  BY <1>1 DEF Alive, Resting, Kept
<1> QED BY <1>1, <1>2, <1>3, DoneKeeps DEF Busy

(* A function goes on with the page as it is. *)
LEMMA PassKeeps ==
    ASSUME PageInv, NEW s \in Slots, flow[s] # Page!Idle,
           NEW at \in {"session", "placement", "pending", "lesson", "view"}, Page!Goto(s, at, view),
           crossed' \in BOOLEAN, crossed \/ ~Page!Alone(s) => crossed',
           flow[s].at \in {"preflight", "session", "pending", "lesson", "next", "complete"},
           at = "view" => flow[s].kind \notin Quiet,
           flow[s].at \in {"lesson", "next"} => at \in {"lesson", "view"}
    PROVE  PageInv'
<1>1. view \in Views /\ PageTyped
  BY DEF PageInv, PageTyped
<1> DEFINE f == [flow[s] EXCEPT !.at = at]
<1>2. f.kind = flow[s].kind /\ f.at = at
  BY <1>1, FlowIs DEF PageTyped, Flows, Page!Idle
<1> HIDE DEF f
<1>3. Alive(flow[s], view) => Alive(f, view)
  BY <1>2, Zenon DEF Alive, Quiet
<1> QED BY <1>1, <1>3, GotoKeeps DEF f, Awaited

(* An assessment is shown, of a view that is open if it was graded. *)
LEMMA AssessmentKeeps ==
    ASSUME PageInv, NEW s \in Slots, flow[s] # Page!Idle, NEW outcome \in {"abstained", "graded"},
           Page!Done(s, Page!WithAssessment(outcome)),
           crossed' \in BOOLEAN, crossed \/ ~Page!Alone(s) => crossed',
           outcome = "graded" /\ Alive(flow[s], view) => view.view # None
    PROVE  PageInv'
<1> DEFINE p == Page!WithAssessment(outcome)
<1>1. /\ p \in Views /\ p.phase = "result" /\ p.assessment = outcome
      /\ p.view = view.view /\ p.nextRetry = view.nextRetry
  BY AssessmentShown DEF PageInv
<1>2. Page!Done(s, p)
  OBVIOUS
<1> HIDE DEF p
<1>3. Alive(flow[s], view) => Resting(p)
  BY <1>1, PageAssumption DEF Alive, Resting
<1> QED BY <1>1, <1>2, <1>3, DoneKeeps DEF Busy

(* The result of an answer to the placement quiz is shown. *)
LEMMA ResultKeeps ==
    ASSUME PageInv, NEW s \in Slots, flow[s] # Page!Idle, NEW result \in {"abstained", "graded"},
           Page!Done(s, [Page!Phase("placement_result") EXCEPT !.placementResult = result]),
           crossed' \in BOOLEAN, crossed \/ ~Page!Alone(s) => crossed'
    PROVE  PageInv'
<1> DEFINE o == Page!Phase("placement_result")
           p == [o EXCEPT !.placementResult = result]
<1>1. o \in Views /\ o.phase = "placement_result" /\ Kept(o)
  BY PhaseSet DEF PageInv, Page!Phases
<1>2. Page!Done(s, p)
  OBVIOUS
<1> HIDE DEF o
<1>3. /\ p \in Views /\ p.phase = "placement_result" /\ p.placementResult = result
      /\ p.nextRetry = view.nextRetry
  BY <1>1 DEF Views, Kept
<1> HIDE DEF p
<1>4. Alive(flow[s], view) => Resting(p)
  BY <1>3, PageAssumption DEF Alive, Resting
<1> QED BY <1>2, <1>3, <1>4, DoneKeeps DEF Busy

(* A lesson of the course is shown. *)
LEMMA LessonKeeps ==
    ASSUME PageInv, NEW s \in Slots, flow[s] # Page!Idle,
           Page!Done(s, [Page!Phase("lesson") EXCEPT !.courseLesson = TRUE, !.view = None,
                                                     !.assessment = None]),
           crossed' \in BOOLEAN, crossed \/ ~Page!Alone(s) => crossed'
    PROVE  PageInv'
<1> DEFINE o == Page!Phase("lesson")
           p == [o EXCEPT !.courseLesson = TRUE, !.view = None, !.assessment = None]
<1>1. o \in Views /\ o.phase = "lesson" /\ Kept(o)
  BY PhaseSet DEF PageInv, Page!Phases
<1>2. Page!Done(s, p)
  OBVIOUS
<1> HIDE DEF o
<1>3. p \in Views /\ p.phase = "lesson" /\ p.courseLesson /\ p.nextRetry = view.nextRetry
  BY <1>1 DEF Views, Kept
<1> HIDE DEF p
<1>4. Alive(flow[s], view) => Resting(p)
  BY <1>3 DEF Alive, Resting
<1> QED BY <1>2, <1>3, <1>4, DoneKeeps DEF Busy

(* A question of the view that is open is shown, or that it repeats. *)
LEMMA QuestionKeeps ==
    ASSUME PageInv, NEW s \in Slots, flow[s] # Page!Idle, NEW stage, Page!ShowQuestion(s, stage),
           crossed' \in BOOLEAN, crossed \/ ~Page!Alone(s) => crossed',
           Alive(flow[s], view) => view.view # None
    PROVE  PageInv'
<1>1. CASE Page!Done(s, [Page!Phase("error") EXCEPT !.submissionRetry = None])
  <2> DEFINE p == [Page!Phase("error") EXCEPT !.submissionRetry = None]
  <2>1. p \in Views /\ p.phase = "error" /\ p.nextRetry = view.nextRetry
    BY ErrorOnly DEF PageInv
  <2>2. Page!Done(s, p)
    BY <1>1
  <2> HIDE DEF p
  <2>3. Alive(flow[s], view) => Resting(p)
    BY <2>1 DEF Alive, Resting
  <2> QED BY <2>1, <2>2, <2>3, DoneKeeps DEF Busy
<1>2. CASE Page!Done(s, [Page!Phase("question") EXCEPT !.question = TRUE, !.assessment = None])
  <2> DEFINE o == Page!Phase("question")
             p == [o EXCEPT !.question = TRUE, !.assessment = None]
  <2>1. o \in Views /\ o.phase = "question" /\ Kept(o)
    BY PhaseSet DEF PageInv, Page!Phases
  <2>2. Page!Done(s, p)
    BY <1>2
  <2> HIDE DEF o
  <2>3. p \in Views /\ p.phase = "question" /\ p.question /\ p.nextRetry = view.nextRetry
        /\ p.view = view.view
    BY <2>1 DEF Views, Kept
  <2> HIDE DEF p
  <2>4. Alive(flow[s], view) => Resting(p)
    BY <2>3 DEF Alive, Resting
  <2> QED BY <2>2, <2>3, <2>4, DoneKeeps DEF Busy
<1> QED BY <1>1, <1>2 DEF Page!ShowQuestion

(* A view is loaded; what is pending in it follows. *)
LEMMA ViewKeeps ==
    ASSUME PageInv, NEW s \in Slots, flow[s] # Page!Idle, Page!View(s),
           crossed' \in BOOLEAN, crossed \/ ~Page!Alone(s) => crossed'
    PROVE  PageInv'
<1>1. PICK state \in Page!Views :
        /\ flow' = [flow EXCEPT ![s] = [flow[s] EXCEPT !.at = "viewPending", !.state = state]]
        /\ view' = [view EXCEPT !.view = IF state = "retest" THEN state ELSE "other", !.courseLesson = FALSE]
  BY DEF Page!View, PageInv, PageTyped
<1> DEFINE f == [flow[s] EXCEPT !.at = "viewPending", !.state = state]
           v == IF state = "retest" THEN state ELSE "other"
           p == [view EXCEPT !.view = v, !.courseLesson = FALSE]
<1>2. v \in {"retest", "other"} /\ (state = "retest" => v = "retest") /\ v # None
  BY PageAssumption
<1>3. flow' = [flow EXCEPT ![s] = f] /\ view' = p /\ flow[s].at = "view"
  BY <1>1 DEF Page!View
<1> HIDE DEF v
<1>4. /\ p \in Views /\ p.view = v /\ p.phase = view.phase /\ p.assessment = view.assessment
      /\ p.nextRetry = view.nextRetry /\ p.placement = view.placement
  BY <1>2 DEF Views, PageInv, PageTyped
<1>5. f \in Flows /\ f # Page!Idle /\ f.kind = flow[s].kind /\ f.at = "viewPending" /\ f.state = state
  BY FlowIs, PageAssumption DEF PageInv, PageTyped, Flows, Page!Idle, Awaited
<1> HIDE DEF f, p
<1>6. Alive(flow[s], view) => Alive(f, p)
  BY <1>2, <1>3, <1>4, <1>5, PageAssumption DEF Alive, Resting
<1> QED BY <1>3, <1>4, <1>5, <1>6, AnswerKeeps

(* The tutor's decision, or the end of a lesson, opens a view or a lesson. *)
LEMMA NextPasses ==
    ASSUME PageInv, NEW s \in Slots, flow[s] # Page!Idle, flow[s].at \in {"next", "complete"},
           NEW at \in {"view", "lesson"}, Page!Goto(s, at, view),
           crossed' \in BOOLEAN, crossed \/ ~Page!Alone(s) => crossed'
    PROVE  PageInv'
<1>1. view \in Views /\ PageTyped
  BY DEF PageInv, PageTyped
<1> DEFINE f == [flow[s] EXCEPT !.at = at]
<1>2. f.kind = flow[s].kind /\ f.at = at
  BY <1>1, FlowIs DEF PageTyped, Flows, Page!Idle
<1> HIDE DEF f
<1>3. Alive(flow[s], view) => Alive(f, view)
  BY <1>2 DEF Alive, Quiet
<1> QED BY <1>1, <1>3, GotoKeeps DEF f, Awaited

-----------------------------------------------------------------------------
(* The responses, by what the function awaits. *)
LEMMA RespondKeeps ==
    ASSUME PageInv, NEW s \in Slots, Page!Respond(s)
    PROVE  PageInv'
<1> DEFINE kind == flow[s].kind
<1>1. /\ PageTyped /\ view \in Views /\ flow[s] # Page!Idle
      /\ crossed' \in BOOLEAN /\ (crossed \/ ~Page!Alone(s) => crossed')
  BY DEF PageInv, PageTyped, Page!Respond, Page!Alone
<1>2. kind \in Page!Learners \cup Page!Background
  BY <1>1, FlowIs
<1>3. CASE Page!Preflight(s)
  <2>1. CASE Page!Done(s, Page!Phase("blocked"))
    BY <1>1, <2>1, PhaseKeeps DEF Page!Phases
  <2>2. CASE Page!Goto(s, "session", view)
    BY <1>1, <1>3, <2>2, PassKeeps DEF Page!Preflight
  <2> QED BY <1>3, <2>1, <2>2 DEF Page!Preflight
<1>4. CASE Page!Session(s)
  <2>1. CASE Page!Goto(s, "placement", view) \/ Page!Goto(s, "pending", view)
    BY <1>1, <1>4, <2>1, PassKeeps DEF Page!Session
  <2>2. CASE Page!Done(s, Page!Phase("activation_failed")) \/ Page!Done(s, Page!Phase("preparing"))
    BY <1>1, <2>2, PhaseKeeps DEF Page!Phases
  <2> QED BY <1>4, <2>1, <2>2 DEF Page!Session
<1>5. CASE Page!Placement(s)
  <2>1. PICK status \in {"pending", "failed", "complete", "question"} :
          LET p == [view EXCEPT !.placement = IF status = "question" THEN status ELSE "other",
                                !.courseLesson = FALSE, !.view = None, !.assessment = None,
                                !.placementResult = None]
          IN  IF status = "question" THEN Page!Goto(s, "placementPending", p)
              ELSE Page!Done(s, [p EXCEPT !.phase = IF status = "pending" THEN "placement_pending"
                                                    ELSE IF status = "failed" THEN "placement_failed"
                                                    ELSE "placement_complete"])
    BY <1>5 DEF Page!Placement
  <2> DEFINE p == [view EXCEPT !.placement = IF status = "question" THEN status ELSE "other",
                               !.courseLesson = FALSE, !.view = None, !.assessment = None,
                               !.placementResult = None]
             x == IF status = "pending" THEN "placement_pending"
                  ELSE IF status = "failed" THEN "placement_failed" ELSE "placement_complete"
             q == [p EXCEPT !.phase = x]
             f == [flow[s] EXCEPT !.at = "placementPending"]
  <2>2. /\ p \in Views /\ p.phase = view.phase /\ p.nextRetry = view.nextRetry
        /\ p.placement = IF status = "question" THEN status ELSE "other"
    BY <1>1 DEF Views
  <2>3. x \in {"placement_pending", "placement_failed", "placement_complete"}
    OBVIOUS
  <2>4. IF status = "question" THEN Page!Goto(s, "placementPending", p) ELSE Page!Done(s, q)
    BY <2>1
  <2> HIDE DEF p, x
  <2>5. /\ q \in Views /\ q.phase = x /\ q.nextRetry = p.nextRetry /\ q.placement = p.placement
    BY <2>2, <2>3 DEF Views, Page!Phases
  <2> HIDE DEF q
  <2>6. CASE status = "question"
    <3>1. f.kind = kind /\ f.at = "placementPending" /\ flow[s].at = "placement"
      BY <1>1, <1>5, FlowIs DEF PageTyped, Flows, Page!Idle, Page!Placement
    <3> HIDE DEF f
    <3>2. Alive(flow[s], view) => Alive(f, p)
      BY <2>2, <2>6, <3>1, Zenon DEF Alive
    <3>3. Page!Goto(s, "placementPending", p)
      BY <2>4, <2>6
    <3> QED BY <1>1, <2>2, <3>2, <3>3, GotoKeeps DEF f, Awaited
  <2>7. CASE status # "question"
    <3>1. Alive(flow[s], view) => Resting(q)
      BY <2>2, <2>3, <2>5, <2>7, PageAssumption DEF Alive, Resting
    <3>2. Page!Done(s, q)
      BY <2>4, <2>7
    <3> QED BY <1>1, <2>3, <2>5, <3>1, <3>2, DoneKeeps DEF Busy
  <2> QED BY <2>6, <2>7
<1>6. CASE Page!PlacementPending(s)
  <2>1. flow[s].at = "placementPending"
    BY <1>6 DEF Page!PlacementPending
  <2>2. CASE Page!Done(s, Page!Phase("placement_question"))
    BY <1>1, <2>1, <2>2, PhaseKeeps DEF Page!Phases, Alive
  <2>3. CASE Page!Done(s, [Page!Phase("placement_result") EXCEPT !.placementResult = "abstained"])
    BY <1>1, <2>3, ResultKeeps
  <2> QED BY <1>6, <2>2, <2>3 DEF Page!PlacementPending
<1>7. CASE Page!Pending(s)
  <2> DEFINE p == Page!WithAssessment("abstained")
             f == [flow[s] EXCEPT !.at = "view"]
  <2>1. flow[s].at = "pending"
    BY <1>7 DEF Page!Pending
  <2>2. CASE Page!Goto(s, "lesson", view)
    BY <1>1, <2>1, <2>2, PassKeeps
  <2>3. CASE Page!Goto(s, "view", p)
    <3>1. /\ p \in Views /\ p.phase = "result" /\ p.assessment = "abstained"
          /\ p.view = view.view /\ p.nextRetry = view.nextRetry
      BY <1>1, AssessmentShown
    <3>2. f.kind = kind /\ f.at = "view"
      BY <1>1, FlowIs DEF PageTyped, Flows, Page!Idle
    <3> HIDE DEF p, f
    <3>3. Alive(flow[s], view) => Alive(f, p)
      BY <2>1, <3>1, <3>2, PageAssumption DEF Alive, Resting
    <3> QED BY <1>1, <2>3, <3>1, <3>3, GotoKeeps DEF f, Awaited, Busy
  <2> QED BY <1>7, <2>2, <2>3 DEF Page!Pending
<1>8. CASE Page!Lesson(s)
  <2>1. flow[s].at = "lesson"
    BY <1>8 DEF Page!Lesson
  <2>2. CASE Page!Done(s, [Page!Phase("lesson") EXCEPT !.courseLesson = TRUE, !.view = None,
                                                      !.assessment = None])
    BY <1>1, <2>2, LessonKeeps
  <2>3. CASE kind \in {"start", "continue", "nextAction"} /\ Page!Goto(s, "view", view)
    BY <1>1, <2>1, <2>3, PassKeeps DEF Quiet
  <2>4. CASE Page!Throw(s)
    BY <1>1, <2>1, <2>4, ThrowKeeps
  <2> QED BY <1>8, <2>2, <2>3, <2>4 DEF Page!Lesson
<1>9. CASE Page!View(s)
  BY <1>1, <1>9, ViewKeeps
<1>10. CASE Page!ViewPending(s)
  <2>1. flow[s].at = "viewPending"
    BY <1>10 DEF Page!ViewPending
  <2>2. CASE Page!Done(s, Page!WithAssessment("abstained"))
    BY <1>1, <2>2, AssessmentKeeps
  <2>3. CASE Page!Throw(s)
    BY <1>1, <2>1, <2>3, ThrowKeeps
  <2>4. CASE Page!Done(s, Page!Phase("summary"))
    BY <1>1, <2>1, <2>4, PhaseKeeps DEF Page!Phases, Alive
  <2>5. CASE flow[s].state = "retest" /\ Page!Done(s, Page!Phase("lesson"))
    BY <1>1, <2>1, <2>5, PhaseKeeps DEF Page!Phases, Alive
  <2>6. CASE Page!ShowQuestion(s, "initial")
    BY <1>1, <2>1, <2>6, QuestionKeeps DEF Alive
  <2> QED BY <1>10, <2>2, <2>3, <2>4, <2>5, <2>6 DEF Page!ViewPending
<1>11. CASE Page!Next_(s)
  <2>1. flow[s].at = "next"
    BY <1>11 DEF Page!Next_
  <2>2. CASE Page!Done(s, Page!Phase("summary"))
    BY <1>1, <2>1, <2>2, PhaseKeeps DEF Page!Phases, Alive
  <2>3. CASE Page!Goto(s, "view", view) \/ Page!Goto(s, "lesson", view)
    BY <1>1, <2>1, <2>3, NextPasses
  <2>4. CASE Page!ShowQuestion(s, "retest")
    BY <1>1, <2>1, <2>4, QuestionKeeps DEF Alive
  <2> QED BY <1>11, <2>2, <2>3, <2>4 DEF Page!Next_
<1>12. CASE Page!Complete(s)
  BY <1>1, <1>12, NextPasses DEF Page!Complete
<1>13. CASE Page!Regenerate(s)
  <2>1. flow[s].at = "regenerate"
        /\ Page!Done(s, Page!Phase(IF kind = "regenerateLesson" THEN "preparing" ELSE "placement_pending"))
    BY <1>13 DEF Page!Regenerate
  <2>2. CASE kind = "regenerateLesson"
    BY <1>1, <2>1, <2>2, PhaseKeeps DEF Page!Phases
  <2>3. CASE kind # "regenerateLesson"
    <3>1. Page!Done(s, Page!Phase("placement_pending"))
      BY <2>1, <2>3
    <3>2. Alive(flow[s], view) => view.placement # None
      BY <2>1, <2>3 DEF Alive
    <3> QED BY <1>1, <3>1, <3>2, PhaseKeeps DEF Page!Phases
  <2> QED BY <2>2, <2>3
<1>14. CASE Page!Answer(s)
  <2>1. CASE /\ kind \in {"grade", "fallback"}
             /\ \E outcome \in {"graded", "abstained"} : Page!Done(s, Page!WithAssessment(outcome))
    BY <1>1, <2>1, AssessmentKeeps DEF Alive
  <2>2. CASE \E result \in {"graded", "abstained"} :
               Page!Done(s, [Page!Phase("placement_result") EXCEPT !.placementResult = result])
    BY <1>1, <2>2, ResultKeeps
  <2> QED BY <1>14, <2>1, <2>2 DEF Page!Answer
<1> QED BY <1>3, <1>4, <1>5, <1>6, <1>7, <1>8, <1>9, <1>10, <1>11, <1>12, <1>13, <1>14
     DEF Page!Respond

-----------------------------------------------------------------------------
(* Initially the page is idle. *)
LEMMA PageInit == Page!Init => PageInv
<1> SUFFICES ASSUME Page!Init PROVE PageInv
  OBVIOUS
<1>1. view \in Views /\ view.phase = "idle" /\ ~view.nextRetry
  BY DEF Page!Init, Views, Page!Phases
<1>2. flow = [s \in Slots |-> Page!Idle] /\ crossed = FALSE
  BY DEF Page!Init
<1>3. Resting(view)
  BY <1>1 DEF Resting
<1> QED BY <1>1, <1>2, <1>3 DEF PageInv, PageTyped, Flows, Page!BusyIsWaiting, PageAlive

(* Every step of the page keeps its invariant. *)
LEMMA PageNext == PageInv /\ [Page!Next]_viewVars => PageInv'
<1> SUFFICES ASSUME PageInv, [Page!Next]_viewVars PROVE PageInv'
  OBVIOUS
<1>1. ASSUME NEW s \in Slots, Page!Press(s) PROVE PageInv'
  BY <1>1, LearnerStarts
<1>2. ASSUME NEW s \in Slots,
             Page!Poll(s) \/ Page!PollPlacement(s) \/ Page!OpenLesson(s) \/ Page!ActivationFails(s)
      PROVE  PageInv'
  BY <1>2, BackgroundStarts
<1>3. ASSUME NEW s \in Slots, Page!Respond(s) PROVE PageInv'
  BY <1>3, RespondKeeps
<1>4. ASSUME NEW s \in Slots, Page!Reject(s) PROVE PageInv'
  <2>1. /\ flow[s] # Page!Idle /\ Page!Throw(s)
        /\ crossed' \in BOOLEAN /\ (crossed \/ ~Page!Alone(s) => crossed')
        /\ flow[s].at = "placementPending" => crossed'
    BY <1>4 DEF Page!Reject, PageInv, PageTyped
  <2> QED BY <2>1, ThrowKeeps
<1>5. CASE UNCHANGED viewVars
  BY <1>5 DEF viewVars, PageInv, PageTyped, Page!BusyIsWaiting, PageAlive, Page!Alone, Resting,
     Alive
<1> QED BY <1>1, <1>2, <1>3, <1>4, <1>5 DEF Page!Next

(* What the run checks follows from the invariant. *)
LEMMA PageImplies == PageInv => PageSound
<1> SUFFICES ASSUME PageInv PROVE Page!PageSound
  BY DEF PageSound
<1>1. Page!TypeOK
  BY DEF PageInv, PageTyped, Views, Flows, Page!TypeOK, Page!Idle
<1>2. Page!NeverBlank
  BY DEF PageInv, PageAlive, Resting, Page!NeverBlank, Page!Rendered, Page!PlacementRendered,
     Page!AnswerRendered, Page!LessonRendered, Page!SummaryRendered
<1> QED BY <1>1, <1>2 DEF PageInv, Page!PageSound

(* Whatever the learner presses and the API answers, in any order: a page  *)
(* that says it is busy awaits something, and one that awaits nothing      *)
(* shows something, unless responses crossed (flow-b-study.tsx).           *)
THEOREM PageIsSound == MCSpec => []PageSound
<1>1. MCInit => PageInv
  BY PageInit DEF MCInit
<1>2. [MCNext]_<<part, vars, viewVars>> => [Page!Next]_viewVars
  BY DEF MCNext
<1>3. PageInv /\ [MCNext]_<<part, vars, viewVars>> => PageInv'
  BY <1>2, PageNext
<1> QED BY <1>1, <1>3, PageImplies, PTL DEF MCSpec

-----------------------------------------------------------------------------
(***************************************************************************)
(* The dashboard and the upload panel.                                     *)
(***************************************************************************)

(* What is read and what is in flight, whatever it is. *)
Chosen == Courses \cup {NoCourse}
Loadings == [phase : {"free", "asked", "answered", "body"}, preferred : Chosen,
             kind : {"initial", "refresh", "retry"}, answer : {"none", "ok", "error", "signed-out"},
             courses : SUBSET Courses]
Fetchings == [phase : {"free", "asked", "answered", "body"}, course : Chosen,
              answer : {"none", "ok", "error", "signed-out"}]
Shells == [screen : {"loading", "signed-out", "email-sent", "dashboard", "error", "callback", "expired"},
           courses : SUBSET Courses, selected : Chosen, progress : Chosen,
           progressScreen : {"idle", "loading", "error", "ready"}, retry : {"idle", "pending", "failed"}]

ShellTyped ==
    /\ server \in [signedIn : BOOLEAN, library : SUBSET Courses]
    /\ url \in Chosen /\ wanted \in Chosen /\ entries \subseteq Chosen
    /\ shell \in Shells /\ shell.selected \in shell.courses \cup {NoCourse}
    /\ loads \in [RequestIds -> Loadings] /\ newest \in RequestIds \cup {NoCourse}
    /\ fetches \in [RequestIds -> Fetchings] /\ newestFetch \in RequestIds \cup {NoCourse}
    /\ moves \in 0..MaxMoves - 1 /\ losses \in 0..MaxLosses

(* An answer of the library may be old, and then has the courses that were *)
(* archived since.                                                         *)
Outdated(l) == l.phase = "body" \/ (l.phase = "answered" /\ l.answer = "ok") => server.library \subseteq l.courses

(* The courses that a load has, or will have at the most. *)
Had(l) == IF l.phase = "asked" THEN server.library
          ELSE IF l.phase = "body" \/ l.answer = "ok" THEN l.courses ELSE {}

(* The newest load prefers what the learner asked for last, unless that is *)
(* in the library no longer.                                               *)
Prefers(l) == l.phase # "free" => l.preferred = wanted \/ wanted \notin Had(l)
LoadsRight ==
    /\ \A s \in RequestIds : Outdated(loads[s])
    /\ newest # NoCourse => Prefers(loads[newest])

(* So does the address, which a load that is tried again prefers. *)
AddressRight == url = wanted \/ wanted \notin server.library

(* The newest request for progress is about the course that is selected. *)
FetchRight ==
    shell.screen = "dashboard" /\ newestFetch # NoCourse /\ fetches[newestFetch].phase # "free" =>
        fetches[newestFetch].course = shell.selected /\ shell.selected # NoCourse

(* Nothing is being tried again on the dashboard, and nobody who follows a *)
(* link has asked for a course.                                            *)
ScreensRight ==
    /\ shell.screen = "dashboard" => shell.retry # "pending"
    /\ shell.screen \in {"callback", "expired"} => wanted = NoCourse

ShellInv ==
    /\ ShellTyped /\ LoadsRight /\ AddressRight /\ FetchRight /\ ScreensRight
    /\ Shell!ProgressMatches /\ Shell!AddressMatches /\ Shell!BusyIsWaiting

-----------------------------------------------------------------------------
(* The panel: a failed upload is archived with what replaces it.           *)
States == {"absent", "working", "outline_ready", "failed_retryable", "failed", "ocr_required"}
Existing == Uploads \cup {0}
Waits == {"none", "timer", "asked"}
Panels == [approvals : {"loading", "ready", "error", "closed"}, tracked : Existing, resolved : Existing,
           screen : {"idle", "loading", "ready", "error"},
           shown : [id : Existing, state : States \cup {"none"}], outline : Existing,
           submission : {"idle", "submitting", "tracking"}, guard : BOOLEAN, file : BOOLEAN]
Submissions ==
    {r \in [phase : {"free", "csrf", "post", "rejected", "refused", "created"} \cup Panel!InService,
            replaces : Existing, upload : Existing, lost : BOOLEAN] : r.phase = "created" => r.upload # 0}

PanelTyped ==
    /\ uploads \in [Uploads -> [state : States, archived : BOOLEAN, replaces : Existing]]
    /\ scheduled \subseteq Uploads /\ panel \in Panels
    /\ get \in Waits /\ poll \in Waits /\ outlineGet \in Waits
    /\ submits \in [Submits -> Submissions]

(* What is replaced is archived with its replacement, so that it is not    *)
(* replaced again, lease or no lease.                                      *)
ReplacedGone == \A u \in Uploads : uploads[u].replaces # 0 => uploads[uploads[u].replaces].archived

PanelInv == PanelTyped /\ ReplacedGone /\ Panel!ReplacedOnce /\ Panel!Polled

-----------------------------------------------------------------------------
(* A new page, a load and a request for progress are what they may be.     *)
LEMMA FreshTyped ==
    /\ Shell!Opened \in Shells /\ Shell!NoLoad \in Loadings /\ Shell!NoFetch \in Fetchings
    /\ \A p \in Chosen, k \in {"initial", "refresh", "retry"} :
         /\ Shell!Asked(p, k) \in Loadings /\ Shell!Asked(p, k).phase = "asked"
         /\ Shell!Asked(p, k).preferred = p
  BY DEF Shell!Opened, Shell!NoLoad, Shell!NoFetch, Shell!Asked, Shells, Loadings, Fetchings, Chosen

(* Steps that leave the page, its requests and its address alone, while    *)
(* courses may be archived.                                                *)
LEMMA LibraryShrinks ==
    ASSUME ShellInv, server' \in [signedIn : BOOLEAN, library : SUBSET Courses],
           server'.library \subseteq server.library, moves' \in 0..MaxMoves - 1, losses' \in 0..MaxLosses,
           UNCHANGED <<url, entries, shell, loads, newest, fetches, newestFetch, wanted>>
    PROVE  ShellInv'
<1>1. ShellTyped'
  BY DEF ShellInv, ShellTyped
<1>2. LoadsRight' /\ AddressRight'
  BY DEF ShellInv, LoadsRight, Outdated, Prefers, Had, AddressRight
<1>3. FetchRight' /\ ScreensRight'
  BY DEF ShellInv, FetchRight, ScreensRight
<1>4. Shell!ProgressMatches' /\ Shell!AddressMatches' /\ Shell!BusyIsWaiting'
  BY DEF ShellInv, Shell!ProgressMatches, Shell!AddressMatches, Shell!BusyIsWaiting
<1> QED BY <1>1, <1>2, <1>3, <1>4 DEF ShellInv

(* What the learner may still do, and what may still fail. *)
LEMMA BoundsKept ==
    ASSUME ShellTyped
    PROVE  /\ Shell!Moves => moves' \in 0..MaxMoves - 1 /\ losses' \in 0..MaxLosses
           /\ losses < MaxLosses /\ losses' = losses + 1 => losses' \in 0..MaxLosses
  BY WebAssumption DEF ShellTyped, Shell!Moves

(* Archiving a course, up to the load that follows; asking for a link; and *)
(* a session that lapses.                                                  *)
LEMMA ServerKeeps ==
    ASSUME ShellInv,
           \/ Shell!StartArchive \/ Shell!ArchiveToken \/ Shell!ArchiveCommits \/ Shell!ArchiveEnds
           \/ Shell!ArchiveRefused \/ Shell!ArchiveFails \/ Shell!RequestLink \/ Shell!SessionLapses
    PROVE  ShellInv'
<1>1. /\ ShellTyped /\ moves \in 0..MaxMoves - 1 /\ losses \in 0..MaxLosses
      /\ server \in [signedIn : BOOLEAN, library : SUBSET Courses]
  BY DEF ShellInv, ShellTyped
<1>2. UNCHANGED <<url, entries, shell, loads, newest, fetches, newestFetch, wanted>>
  BY DEF Shell!StartArchive, Shell!ArchiveToken, Shell!ArchiveCommits, Shell!ArchiveEnds,
         Shell!ArchiveRefused, Shell!ArchiveFails, Shell!RequestLink, Shell!SessionLapses
<1>3. moves' \in 0..MaxMoves - 1 /\ losses' \in 0..MaxLosses
  BY <1>1, BoundsKept
     DEF Shell!StartArchive, Shell!ArchiveToken, Shell!ArchiveCommits, Shell!ArchiveEnds,
         Shell!ArchiveRefused, Shell!ArchiveFails, Shell!RequestLink, Shell!SessionLapses
<1>4. \/ server' = server \/ server' = [server EXCEPT !.library = @ \ {archive.course}]
      \/ server' = [server EXCEPT !.signedIn = FALSE]
  BY DEF Shell!StartArchive, Shell!ArchiveToken, Shell!ArchiveCommits, Shell!ArchiveEnds,
         Shell!ArchiveRefused, Shell!ArchiveFails, Shell!RequestLink, Shell!SessionLapses
<1>5. server' \in [signedIn : BOOLEAN, library : SUBSET Courses] /\ server'.library \subseteq server.library
  BY <1>1, <1>4
<1> QED BY <1>2, <1>3, <1>5, LibraryShrinks

(* One load goes on: it stays what it was for, and the newest one is not   *)
(* over.                                                                   *)
LEMMA LoadMoves ==
    ASSUME ShellInv, NEW s \in RequestIds, NEW l \in Loadings, loads' = [loads EXCEPT ![s] = l],
           Outdated(l), s = newest => Prefers(l) /\ l.phase # "free" /\ loads[s].phase # "free",
           losses' \in 0..MaxLosses,
           UNCHANGED <<server, url, entries, shell, newest, fetches, newestFetch, wanted, moves>>
    PROVE  ShellInv'
<1>1. loads' \in [RequestIds -> Loadings] /\ loads'[s] = l /\ \A t \in RequestIds : t # s => loads'[t] = loads[t]
  BY DEF ShellInv, ShellTyped
<1>2. ShellTyped'
  BY <1>1 DEF ShellInv, ShellTyped
<1>3. LoadsRight' /\ AddressRight'
  BY <1>1 DEF ShellInv, ShellTyped, LoadsRight, Outdated, Prefers, Had, AddressRight
<1>4. FetchRight' /\ ScreensRight'
  BY DEF ShellInv, FetchRight, ScreensRight
<1>5. newest # NoCourse => newest \in RequestIds /\ (loads'[newest].phase = "free" <=> loads[newest].phase = "free")
  BY <1>1 DEF ShellInv, ShellTyped
<1>6. Shell!ProgressMatches' /\ Shell!AddressMatches' /\ Shell!BusyIsWaiting'
  BY <1>5 DEF ShellInv, Shell!ProgressMatches, Shell!AddressMatches, Shell!BusyIsWaiting
<1> QED BY <1>2, <1>3, <1>4, <1>6 DEF ShellInv

(* One request for progress goes on: it is for the same course, and the    *)
(* newest one is not over.                                                 *)
LEMMA FetchMoves ==
    ASSUME ShellInv, NEW s \in RequestIds, NEW l \in Fetchings, fetches' = [fetches EXCEPT ![s] = l],
           s = newestFetch => l.course = fetches[s].course /\ l.phase # "free" /\ fetches[s].phase # "free",
           losses' \in 0..MaxLosses,
           UNCHANGED <<server, url, entries, shell, newest, loads, newestFetch, wanted, moves>>
    PROVE  ShellInv'
<1>1. fetches' \in [RequestIds -> Fetchings] /\ fetches'[s] = l
      /\ \A t \in RequestIds : t # s => fetches'[t] = fetches[t]
  BY DEF ShellInv, ShellTyped
<1>2. ShellTyped'
  BY <1>1 DEF ShellInv, ShellTyped
<1>3. LoadsRight' /\ AddressRight' /\ ScreensRight'
  BY DEF ShellInv, LoadsRight, Outdated, Prefers, Had, AddressRight, ScreensRight
<1>4. newestFetch # NoCourse =>
        /\ newestFetch \in RequestIds
        /\ fetches'[newestFetch].phase = "free" <=> fetches[newestFetch].phase = "free"
        /\ fetches'[newestFetch].course = fetches[newestFetch].course
  BY <1>1 DEF ShellInv, ShellTyped
<1>5. FetchRight'
  BY <1>4 DEF ShellInv, FetchRight
<1>6. Shell!ProgressMatches' /\ Shell!AddressMatches' /\ Shell!BusyIsWaiting'
  BY <1>4 DEF ShellInv, Shell!ProgressMatches, Shell!AddressMatches, Shell!BusyIsWaiting
<1> QED BY <1>2, <1>3, <1>5, <1>6 DEF ShellInv

(* The server answers, or the answer is lost. *)
LEMMA AnswersKeep ==
    ASSUME ShellInv, NEW s \in RequestIds,
           Shell!AnswerLoad(s) \/ Shell!AnswerFetch(s) \/ Shell!AnswerLost(s)
    PROVE  ShellInv'
<1>1. /\ ShellTyped /\ loads[s] \in Loadings /\ fetches[s] \in Fetchings /\ losses \in 0..MaxLosses
      /\ server \in [signedIn : BOOLEAN, library : SUBSET Courses]
  BY DEF ShellInv, ShellTyped
<1>2. Outdated(loads[s]) /\ (s = newest => Prefers(loads[s]))
  BY WebAssumption DEF ShellInv, LoadsRight
<1>3. CASE Shell!AnswerLoad(s)
  <2> DEFINE l == [loads[s] EXCEPT !.phase = "answered", !.answer = Shell!Answers("ok"),
                                   !.courses = server.library]
  <2>1. loads' = [loads EXCEPT ![s] = l] /\ loads[s].phase = "asked"
        /\ UNCHANGED <<server, url, entries, shell, newest, fetches, newestFetch, wanted, moves, losses>>
    BY <1>1, <1>3 DEF Shell!AnswerLoad, ShellTyped
  <2>2. l \in Loadings /\ l.phase = "answered" /\ l.courses = server.library /\ l.preferred = loads[s].preferred
    BY <1>1 DEF Loadings, Shell!Answers
  <2> HIDE DEF l
  <2>3. Outdated(l) /\ (s = newest => Prefers(l))
    BY <1>2, <2>1, <2>2 DEF Outdated, Prefers, Had
  <2> QED BY <1>1, <2>1, <2>2, <2>3, LoadMoves
<1>4. CASE Shell!AnswerFetch(s)
  <2> DEFINE l == [fetches[s] EXCEPT !.phase = "answered",
                     !.answer = Shell!Answers(IF fetches[s].course \in server.library THEN "ok" ELSE "error")]
  <2>1. fetches' = [fetches EXCEPT ![s] = l] /\ fetches[s].phase = "asked"
        /\ UNCHANGED <<server, url, entries, shell, newest, loads, newestFetch, wanted, moves, losses>>
    BY <1>1, <1>4 DEF Shell!AnswerFetch, ShellTyped
  <2>2. l \in Fetchings /\ l.phase = "answered" /\ l.course = fetches[s].course
    BY <1>1 DEF Fetchings, Shell!Answers
  <2> HIDE DEF l
  <2> QED BY <1>1, <2>1, <2>2, FetchMoves
<1>5. CASE Shell!AnswerLost(s)
  <2>1. losses' \in 0..MaxLosses /\ UNCHANGED <<server, url, entries, shell, newest, newestFetch, wanted, moves>>
    BY <1>1, <1>5, BoundsKept DEF Shell!AnswerLost
  <2>2. CASE loads[s].phase \in {"asked", "body"} /\ UNCHANGED fetches
             /\ loads' = [loads EXCEPT ![s] = [@ EXCEPT !.phase = "answered", !.answer = "error"]]
    <3> DEFINE l == [loads[s] EXCEPT !.phase = "answered", !.answer = "error"]
    <3>1. loads' = [loads EXCEPT ![s] = l]
      BY <1>1, <2>2 DEF ShellTyped
    <3>2. l \in Loadings /\ l.phase = "answered" /\ l.answer = "error" /\ l.courses = loads[s].courses
          /\ l.preferred = loads[s].preferred
      BY <1>1 DEF Loadings
    <3> HIDE DEF l
    <3>3. Outdated(l)
      BY <3>2 DEF Outdated
    <3>4. s = newest => Prefers(l)
      BY <1>2, <2>2, <3>2 DEF Prefers, Had
    <3> QED BY <2>1, <2>2, <3>1, <3>2, <3>3, <3>4, LoadMoves
  <2>3. CASE fetches[s].phase \in {"asked", "body"} /\ UNCHANGED loads
             /\ fetches' = [fetches EXCEPT ![s] = [@ EXCEPT !.phase = "answered", !.answer = "error"]]
    <3> DEFINE l == [fetches[s] EXCEPT !.phase = "answered", !.answer = "error"]
    <3>1. fetches' = [fetches EXCEPT ![s] = l]
      BY <1>1, <2>3 DEF ShellTyped
    <3>2. l \in Fetchings /\ l.phase = "answered" /\ l.course = fetches[s].course
      BY <1>1 DEF Fetchings
    <3> HIDE DEF l
    <3> QED BY <2>1, <2>3, <3>1, <3>2, FetchMoves
  <2> QED BY <1>5, <2>2, <2>3 DEF Shell!AnswerLost
<1> QED BY <1>3, <1>4, <1>5

(* A load begins: it prefers what the learner asked for last, or that is   *)
(* in the library no longer.                                               *)
LEMMA LoadStarts ==
    ASSUME ShellInv, NEW s \in RequestIds, NEW p \in Chosen, NEW k \in {"initial", "refresh", "retry"},
           Shell!Load(s, p, k), wanted' \in Chosen, url' \in Chosen, entries' \subseteq Chosen,
           p = wanted' \/ wanted' \notin server.library,
           url' = wanted' \/ wanted' \notin server.library,
           shell.screen \in {"callback", "expired"} => wanted' = NoCourse,
           moves' \in 0..MaxMoves - 1, losses' \in 0..MaxLosses,
           \/ shell' = shell
           \/ shell.screen = "error" /\ shell' = [shell EXCEPT !.retry = "pending"],
           UNCHANGED <<server, fetches, newestFetch>>
    PROVE  ShellInv'
<1> DEFINE l == Shell!Asked(p, k)
<1>1. l \in Loadings /\ l.phase = "asked" /\ l.preferred = p
  BY FreshTyped
<1>2. newest' = s /\ loads' = [loads EXCEPT ![s] = l]
  BY DEF Shell!Load
<1> HIDE DEF l
<1>3. loads' \in [RequestIds -> Loadings] /\ loads'[s] = l /\ \A t \in RequestIds : t # s => loads'[t] = loads[t]
  BY <1>1, <1>2 DEF ShellInv, ShellTyped
<1>4. /\ shell' \in Shells /\ shell'.screen = shell.screen /\ shell'.courses = shell.courses
      /\ shell'.selected = shell.selected /\ shell'.progress = shell.progress
      /\ shell'.progressScreen = shell.progressScreen
      /\ shell.screen = "dashboard" => shell'.retry = shell.retry
  BY DEF ShellInv, ShellTyped, Shells
<1>5. ShellTyped'
  BY <1>2, <1>3, <1>4 DEF ShellInv, ShellTyped
<1>6. LoadsRight'
  BY <1>1, <1>2, <1>3 DEF ShellInv, ShellTyped, LoadsRight, Outdated, Prefers, Had
<1>7. AddressRight' /\ FetchRight' /\ ScreensRight'
  BY <1>4 DEF ShellInv, AddressRight, FetchRight, ScreensRight
<1>8. newest' # NoCourse /\ loads'[newest'].phase # "free"
  BY <1>1, <1>2, <1>3, WebAssumption
<1>9. Shell!ProgressMatches' /\ Shell!AddressMatches' /\ Shell!BusyIsWaiting'
  BY <1>4, <1>8 DEF ShellInv, Shell!ProgressMatches, Shell!AddressMatches, Shell!BusyIsWaiting
<1> QED BY <1>5, <1>6, <1>7, <1>9 DEF ShellInv

(* Moves in the history, an uploaded course, another try, and the library  *)
(* after a course was archived.                                            *)
LEMMA LoadersKeep ==
    ASSUME ShellInv,
           \/ \E c \in Courses : Shell!OpenUploaded(c)
           \/ \E c \in Chosen : Shell!GoBack(c)
           \/ Shell!Retry \/ Shell!ArchiveReloads
    PROVE  ShellInv'
<1>1. /\ ShellTyped /\ moves \in 0..MaxMoves - 1 /\ losses \in 0..MaxLosses
      /\ url \in Chosen /\ wanted \in Chosen /\ entries \subseteq Chosen
      /\ server.library \subseteq Courses
  BY DEF ShellInv, ShellTyped
<1>2. NoCourse \in Chosen /\ NoCourse \notin server.library
  BY <1>1, WebAssumption DEF Chosen
<1>3. ASSUME NEW c \in Courses, Shell!OpenUploaded(c) PROVE ShellInv'
  <2>1. PICK s \in RequestIds : Shell!Load(s, c, "refresh")
    BY <1>3 DEF Shell!OpenUploaded
  <2>2. /\ wanted' = c /\ url' = c /\ entries' = entries \cup {c} /\ shell.screen = "dashboard"
        /\ Shell!Moves /\ UNCHANGED <<server, shell, fetches, newestFetch>>
    BY <1>3 DEF Shell!OpenUploaded
  <2>3. c \in Chosen /\ moves' \in 0..MaxMoves - 1 /\ losses' \in 0..MaxLosses
    BY <1>1, <2>2, BoundsKept DEF Chosen
  <2> QED BY <1>1, <2>1, <2>2, <2>3, LoadStarts
<1>4. ASSUME NEW c \in Chosen, Shell!GoBack(c) PROVE ShellInv'
  <2>1. PICK s \in RequestIds : Shell!Load(s, c, "refresh")
    BY <1>4 DEF Shell!GoBack
  <2>2. /\ wanted' = c /\ url' = c /\ entries' = entries /\ shell.screen \notin {"callback", "expired"}
        /\ Shell!Moves /\ UNCHANGED <<server, shell, fetches, newestFetch>>
    BY <1>4 DEF Shell!GoBack
  <2>3. moves' \in 0..MaxMoves - 1 /\ losses' \in 0..MaxLosses
    BY <1>1, <2>2, BoundsKept
  <2> QED BY <1>1, <2>1, <2>2, <2>3, LoadStarts
<1>5. CASE Shell!Retry
  <2>1. PICK s \in RequestIds : Shell!Load(s, url, "retry")
    BY <1>5 DEF Shell!Retry
  <2>2. /\ wanted' = wanted /\ url' = url /\ entries' = entries /\ shell.screen = "error"
        /\ shell' = [shell EXCEPT !.retry = "pending"]
        /\ Shell!Moves /\ UNCHANGED <<server, fetches, newestFetch>>
    BY <1>5 DEF Shell!Retry
  <2>3. moves' \in 0..MaxMoves - 1 /\ losses' \in 0..MaxLosses
    BY <1>1, <2>2, BoundsKept
  <2>4. url = wanted \/ wanted \notin server.library
    BY DEF ShellInv, AddressRight
  <2> QED BY <1>1, <2>1, <2>2, <2>3, <2>4, LoadStarts
<1>6. CASE Shell!ArchiveReloads
  <2>1. PICK s \in RequestIds : Shell!Load(s, NoCourse, "refresh")
    BY <1>6 DEF Shell!ArchiveReloads
  <2>2. /\ wanted' = NoCourse /\ moves' = moves /\ losses' = losses
        /\ UNCHANGED <<server, url, entries, shell, fetches, newestFetch>>
    BY <1>6 DEF Shell!ArchiveReloads
  <2> QED BY <1>1, <1>2, <2>1, <2>2, LoadStarts
<1> QED BY <1>3, <1>4, <1>5, <1>6

(* The page is left for one that is no dashboard, nor one that loads; it   *)
(* is still being tried again only if the newest load goes on.             *)
LEMMA ScreenLeaves ==
    ASSUME ShellInv, shell' \in Shells, shell'.screen \in {"signed-out", "email-sent", "error"},
           shell'.selected \in shell'.courses \cup {NoCourse},
           shell'.retry = "pending" => shell.retry = "pending" /\ loads' = loads,
           loads' \in [RequestIds -> Loadings], fetches' \in [RequestIds -> Fetchings],
           losses' \in 0..MaxLosses, LoadsRight',
           UNCHANGED <<server, url, entries, newest, newestFetch, wanted, moves>>
    PROVE  ShellInv'
<1>1. ShellTyped'
  BY DEF ShellInv, ShellTyped
<1>2. AddressRight' /\ FetchRight' /\ ScreensRight'
  BY DEF ShellInv, AddressRight, FetchRight, ScreensRight
<1>3. Shell!ProgressMatches' /\ Shell!AddressMatches' /\ Shell!BusyIsWaiting'
  BY DEF ShellInv, Shell!ProgressMatches, Shell!AddressMatches, Shell!BusyIsWaiting
<1> QED BY <1>1, <1>2, <1>3 DEF ShellInv

(* The response of a load is there.                                        *)
LEMMA LoadRespondsKeeps ==
    ASSUME ShellInv, NEW s \in RequestIds, Shell!LoadResponds(s)
    PROVE  ShellInv'
<1>1. /\ ShellTyped /\ loads[s] \in Loadings /\ losses \in 0..MaxLosses /\ shell \in Shells
      /\ shell.selected \in shell.courses \cup {NoCourse} /\ loads \in [RequestIds -> Loadings]
      /\ fetches \in [RequestIds -> Fetchings]
  BY DEF ShellInv, ShellTyped
<1>2. Outdated(loads[s]) /\ (s = newest => Prefers(loads[s]))
  BY WebAssumption DEF ShellInv, LoadsRight
<1>3. /\ loads[s].phase = "answered" /\ losses' = losses
      /\ UNCHANGED <<server, url, entries, newest, fetches, newestFetch, wanted, moves>>
  BY DEF Shell!LoadResponds
<1>4. Shell!NoLoad \in Loadings /\ Shell!NoLoad.phase = "free"
  BY FreshTyped DEF Shell!NoLoad
<1>5. CASE s # newest
  <2>1. shell' = shell /\ loads' = [loads EXCEPT ![s] = Shell!NoLoad]
    BY <1>5 DEF Shell!LoadResponds, Shell!Current
  <2>2. Outdated(Shell!NoLoad)
    BY <1>4 DEF Outdated
  <2> QED BY <1>1, <1>3, <1>4, <1>5, <2>1, <2>2, LoadMoves
<1>6. CASE s = newest /\ loads[s].answer = "ok"
  <2> DEFINE l == [loads[s] EXCEPT !.phase = "body"]
  <2>1. shell' = shell /\ loads' = [loads EXCEPT ![s] = l]
    BY <1>6 DEF Shell!LoadResponds, Shell!Current
  <2>2. l \in Loadings /\ l.phase = "body" /\ l.preferred = loads[s].preferred /\ l.courses = loads[s].courses
    BY <1>1 DEF Loadings
  <2> HIDE DEF l
  <2>3. Outdated(l) /\ Prefers(l)
    BY <1>2, <1>3, <1>6, <2>2 DEF Outdated, Prefers, Had
  <2> QED BY <1>1, <1>3, <2>1, <2>2, <2>3, LoadMoves
<1>7. CASE s = newest /\ loads[s].answer # "ok"
  <2>1. loads' = [loads EXCEPT ![s] = Shell!NoLoad]
        /\ (shell' = Shell!SignedOut \/ shell' = Shell!Failed(loads[s].kind))
    BY <1>1, <1>7 DEF Shell!LoadResponds, Shell!Current, Loadings
  <2>2. loads' \in [RequestIds -> Loadings] /\ loads'[s] = Shell!NoLoad
        /\ \A t \in RequestIds : t # s => loads'[t] = loads[t]
    BY <1>1, <1>4, <2>1
  <2>3. LoadsRight'
    BY <1>2, <1>3, <1>4, <1>7, <2>2 DEF ShellInv, LoadsRight, Outdated, Prefers, Had
  <2>4. /\ shell' \in Shells /\ shell'.screen \in {"signed-out", "email-sent", "error"}
        /\ shell'.selected = shell.selected /\ shell'.courses = shell.courses /\ shell'.retry # "pending"
    BY <1>1, <2>1 DEF Shell!SignedOut, Shell!Failed, Shells
  <2> QED BY <1>1, <1>3, <2>2, <2>3, <2>4, ScreenLeaves
<1> QED BY <1>5, <1>6, <1>7

(* Progress is asked for of the course that is selected now: the dashboard *)
(* shows it, and no load overtakes what it shows.                          *)
LEMMA FetchStarts ==
    ASSUME ShellInv, NEW f \in RequestIds, NEW c \in Courses, Shell!Fetch(f, c),
           shell' \in Shells, shell'.screen = "dashboard", shell'.selected = c, c \in shell'.courses,
           shell'.progressScreen = "loading", shell'.retry # "pending",
           loads' \in [RequestIds -> Loadings], newest' \in RequestIds \cup {NoCourse}, LoadsRight',
           url' \in Chosen, entries' \subseteq Chosen, wanted' \in Chosen, AddressRight',
           Shell!AddressMatches',
           moves' \in 0..MaxMoves - 1, losses' \in 0..MaxLosses, UNCHANGED server
    PROVE  ShellInv'
<1> DEFINE l == [phase |-> "asked", course |-> c, answer |-> "none"]
<1>1. l \in Fetchings /\ l.phase = "asked" /\ l.course = c
  BY DEF Fetchings, Chosen
<1>2. newestFetch' = f /\ fetches' = [fetches EXCEPT ![f] = l]
  BY DEF Shell!Fetch
<1> HIDE DEF l
<1>3. fetches' \in [RequestIds -> Fetchings] /\ fetches'[f] = l
  BY <1>1, <1>2 DEF ShellInv, ShellTyped
<1>4. ShellTyped'
  BY <1>2, <1>3 DEF ShellInv, ShellTyped
<1>5. c # NoCourse /\ f # NoCourse
  BY WebAssumption
<1>6. FetchRight' /\ ScreensRight'
  BY <1>1, <1>2, <1>3, <1>5 DEF FetchRight, ScreensRight
<1>7. Shell!ProgressMatches' /\ Shell!BusyIsWaiting'
  BY <1>1, <1>2, <1>3, <1>5 DEF Shell!ProgressMatches, Shell!BusyIsWaiting
<1> QED BY <1>4, <1>6, <1>7 DEF ShellInv

(* The body of a load is there.                                            *)
LEMMA LoadAppliesKeeps ==
    ASSUME ShellInv, NEW s \in RequestIds, Shell!LoadApplies(s)
    PROVE  ShellInv'
<1>1. /\ ShellTyped /\ loads[s] \in Loadings /\ losses \in 0..MaxLosses /\ moves \in 0..MaxMoves - 1
      /\ loads \in [RequestIds -> Loadings] /\ entries \subseteq Chosen /\ wanted \in Chosen
      /\ fetches \in [RequestIds -> Fetchings] /\ newest \in RequestIds \cup {NoCourse}
      /\ server.library \subseteq Courses
  BY DEF ShellInv, ShellTyped
<1>2. Outdated(loads[s]) /\ (s = newest => Prefers(loads[s]))
  BY WebAssumption DEF ShellInv, LoadsRight
<1>3. /\ loads[s].phase = "body" /\ loads' = [loads EXCEPT ![s] = Shell!NoLoad]
      /\ UNCHANGED <<server, newest, wanted, moves, losses>>
  BY DEF Shell!LoadApplies
<1>4. Shell!NoLoad \in Loadings /\ Shell!NoLoad.phase = "free"
  BY FreshTyped DEF Shell!NoLoad
<1>5. loads' \in [RequestIds -> Loadings] /\ loads'[s] = Shell!NoLoad
      /\ \A t \in RequestIds : t # s => loads'[t] = loads[t]
  BY <1>1, <1>3, <1>4
<1>6. CASE s # newest
  <2>1. UNCHANGED <<url, entries, shell, fetches, newestFetch>>
    BY <1>6 DEF Shell!LoadApplies, Shell!Current
  <2>2. Outdated(Shell!NoLoad)
    BY <1>4 DEF Outdated
  <2> QED BY <1>1, <1>3, <1>4, <1>6, <2>1, <2>2, LoadMoves
<1>7. CASE s = newest
  <2>1. PICK c \in Shell!Restored(loads[s].courses, loads[s].preferred) :
          /\ url' = c /\ entries' = (entries \ {url}) \cup {c}
          /\ shell' = [screen |-> "dashboard", courses |-> loads[s].courses, selected |-> c,
                       progress |-> NoCourse,
                       progressScreen |-> IF c = NoCourse THEN "idle" ELSE "loading", retry |-> "idle"]
          /\ IF c = NoCourse THEN newestFetch' = NoCourse /\ UNCHANGED fetches
             ELSE \E f \in RequestIds : Shell!Fetch(f, c)
    BY <1>7 DEF Shell!LoadApplies, Shell!Current
  <2>2. /\ loads[s].courses \subseteq Courses /\ c \in loads[s].courses \cup {NoCourse}
        /\ wanted \in loads[s].courses => c = wanted
        /\ c = NoCourse => c \notin loads[s].courses
    <3>1. loads[s].courses \subseteq Courses /\ NoCourse \notin Courses
      BY <1>1, WebAssumption DEF Loadings
    <3>2. loads[s].preferred = wanted \/ wanted \notin loads[s].courses
      BY <1>2, <1>3, <1>7 DEF Prefers, Had
    <3> QED BY <3>1, <3>2 DEF Shell!Restored
  <2>3. c \in Chosen /\ entries' \subseteq Chosen /\ (url' = wanted' \/ wanted' \notin server'.library)
    BY <1>1, <1>2, <1>3, <2>1, <2>2 DEF Chosen, Outdated
  <2>4. /\ shell' \in Shells /\ shell'.screen = "dashboard" /\ shell'.selected = c
        /\ shell'.courses = loads[s].courses /\ shell'.retry = "idle" /\ shell'.progress = NoCourse
        /\ shell'.progressScreen = IF c = NoCourse THEN "idle" ELSE "loading"
    BY <2>1, <2>2, <2>3 DEF Shells, Chosen
  <2>5. LoadsRight'
    BY <1>3, <1>4, <1>5 DEF ShellInv, LoadsRight, Outdated, Prefers, Had
  <2>6. AddressRight' /\ Shell!AddressMatches'
    BY <1>3, <2>1, <2>2, <2>3, <2>4 DEF AddressRight, Shell!AddressMatches
  <2>7. CASE c # NoCourse
    <3>1. PICK f \in RequestIds : Shell!Fetch(f, c)
      BY <2>1, <2>7
    <3>2. c \in Courses /\ c \in shell'.courses /\ shell'.progressScreen = "loading"
      BY <2>2, <2>4, <2>7
    <3> QED BY <1>1, <1>3, <1>5, <2>1, <2>3, <2>4, <2>5, <2>6, <3>1, <3>2, FetchStarts
  <2>8. CASE c = NoCourse
    <3>1. newestFetch' = NoCourse /\ fetches' = fetches /\ shell'.progressScreen = "idle"
      BY <2>1, <2>4, <2>8
    <3>2. ShellTyped'
      BY <1>1, <1>3, <1>5, <2>1, <2>3, <2>4, <2>8, <3>1 DEF ShellTyped
    <3>3. FetchRight' /\ ScreensRight' /\ Shell!ProgressMatches' /\ Shell!BusyIsWaiting'
      BY <2>4, <3>1 DEF FetchRight, ScreensRight, Shell!ProgressMatches, Shell!BusyIsWaiting
    <3> QED BY <2>5, <2>6, <3>2, <3>3 DEF ShellInv
  <2> QED BY <2>7, <2>8
<1> QED BY <1>6, <1>7

(* The learner selects a course, or asks for its progress again. *)
LEMMA SelectKeeps ==
    ASSUME ShellInv, (\E c \in Courses : Shell!SelectCourse(c)) \/ Shell!RefreshProgress
    PROVE  ShellInv'
<1>1. /\ ShellTyped /\ shell \in Shells /\ entries \subseteq Chosen /\ url \in Chosen /\ wanted \in Chosen
      /\ loads \in [RequestIds -> Loadings] /\ newest \in RequestIds \cup {NoCourse}
      /\ shell.selected \in shell.courses \cup {NoCourse} /\ shell.courses \subseteq Courses
  BY DEF ShellInv, ShellTyped, Shells
<1>2. ASSUME NEW c \in Courses, Shell!SelectCourse(c) PROVE ShellInv'
  <2>1. PICK f \in RequestIds : Shell!Fetch(f, c)
    BY <1>2 DEF Shell!SelectCourse
  <2>2. /\ newest' = NoCourse /\ wanted' = c /\ url' = c /\ entries' = entries \cup {c}
        /\ shell.screen = "dashboard" /\ c \in shell.courses
        /\ shell' = [shell EXCEPT !.selected = c, !.progress = NoCourse, !.progressScreen = "loading"]
        /\ Shell!Moves /\ UNCHANGED <<server, loads>>
    BY <1>2 DEF Shell!SelectCourse, Shell!Superseding
  <2>3. c \in Chosen /\ entries' \subseteq Chosen /\ moves' \in 0..MaxMoves - 1 /\ losses' \in 0..MaxLosses
    BY <1>1, <2>2, BoundsKept DEF Chosen
  <2>4. /\ shell' \in Shells /\ shell'.screen = "dashboard" /\ shell'.selected = c
        /\ shell'.courses = shell.courses /\ shell'.progressScreen = "loading"
        /\ shell'.retry = shell.retry
    BY <1>1, <2>2, <2>3, WebAssumption DEF Shells, Chosen
  <2>5. shell'.retry # "pending"
    BY <2>2, <2>4 DEF ShellInv, ScreensRight
  <2>6. LoadsRight' /\ AddressRight' /\ Shell!AddressMatches'
    BY <2>2, <2>4 DEF ShellInv, LoadsRight, Outdated, AddressRight, Shell!AddressMatches
  <2> QED BY <1>1, <2>1, <2>2, <2>3, <2>4, <2>5, <2>6, FetchStarts
<1>3. CASE Shell!RefreshProgress
  <2> DEFINE c == shell.selected
  <2>1. PICK f \in RequestIds : Shell!Fetch(f, c)
    BY <1>3 DEF Shell!RefreshProgress
  <2>2. /\ shell.screen = "dashboard" /\ c # NoCourse
        /\ shell' = [shell EXCEPT !.progress = NoCourse, !.progressScreen = "loading"]
        /\ Shell!Moves /\ UNCHANGED <<server, url, entries, loads, newest, wanted>>
    BY <1>3 DEF Shell!RefreshProgress
  <2>3. c \in Courses /\ c \in shell.courses /\ moves' \in 0..MaxMoves - 1 /\ losses' \in 0..MaxLosses
    BY <1>1, <2>2, BoundsKept
  <2>4. /\ shell' \in Shells /\ shell'.screen = "dashboard" /\ shell'.selected = c
        /\ shell'.courses = shell.courses /\ shell'.progressScreen = "loading"
        /\ shell'.retry = shell.retry
    BY <1>1, <2>2, WebAssumption DEF Shells, Chosen
  <2>5. shell'.retry # "pending"
    BY <2>2, <2>4 DEF ShellInv, ScreensRight
  <2>6. LoadsRight' /\ AddressRight' /\ Shell!AddressMatches'
    BY <2>2, <2>4 DEF ShellInv, LoadsRight, Outdated, Prefers, Had, AddressRight,
       Shell!AddressMatches
  <2> HIDE DEF c
  <2> QED BY <1>1, <2>1, <2>2, <2>3, <2>4, <2>5, <2>6, FetchStarts
<1> QED BY <1>2, <1>3

(* A request for progress is over: what the page shows of it is only about *)
(* the newest one.                                                         *)
LEMMA FetchEnds ==
    ASSUME ShellInv, NEW s \in RequestIds, fetches' = [fetches EXCEPT ![s] = Shell!NoFetch],
           shell' \in Shells, shell'.screen = shell.screen, shell'.courses = shell.courses,
           shell'.selected = shell.selected, shell'.retry = shell.retry,
           shell' = shell \/ (s = newestFetch /\ shell'.progressScreen # "loading"),
           s = newestFetch => shell'.progressScreen # "loading",
           shell'.progressScreen = "ready" /\ shell' # shell /\ shell.screen = "dashboard" =>
               shell'.progress = shell.selected /\ shell.selected # NoCourse,
           UNCHANGED <<server, url, entries, loads, newest, newestFetch, moves, losses, wanted>>
    PROVE  ShellInv'
<1>1. Shell!NoFetch \in Fetchings /\ Shell!NoFetch.phase = "free"
  BY FreshTyped DEF Shell!NoFetch
<1>2. fetches' \in [RequestIds -> Fetchings] /\ fetches'[s] = Shell!NoFetch
      /\ \A t \in RequestIds : t # s => fetches'[t] = fetches[t]
  BY <1>1 DEF ShellInv, ShellTyped
<1>3. ShellTyped'
  BY <1>2 DEF ShellInv, ShellTyped
<1>4. LoadsRight' /\ AddressRight' /\ ScreensRight'
  BY DEF ShellInv, LoadsRight, Outdated, Prefers, Had, AddressRight, ScreensRight
<1>5. newestFetch # NoCourse /\ newestFetch # s =>
        newestFetch \in RequestIds /\ fetches'[newestFetch] = fetches[newestFetch]
  BY <1>2 DEF ShellInv, ShellTyped
<1>6. FetchRight'
  BY <1>1, <1>2, <1>5 DEF ShellInv, FetchRight
<1>7. Shell!ProgressMatches' /\ Shell!AddressMatches'
  BY DEF ShellInv, Shell!ProgressMatches, Shell!AddressMatches
<1>8. Shell!BusyIsWaiting'
  BY <1>5 DEF ShellInv, Shell!BusyIsWaiting
<1> QED BY <1>3, <1>4, <1>6, <1>7, <1>8 DEF ShellInv

(* The response of a request for progress is there, and then its body.     *)
LEMMA FetchesKeep ==
    ASSUME ShellInv, NEW s \in RequestIds, Shell!FetchResponds(s) \/ Shell!FetchApplies(s)
    PROVE  ShellInv'
<1>1. /\ ShellTyped /\ shell \in Shells /\ fetches[s] \in Fetchings /\ losses \in 0..MaxLosses
      /\ loads \in [RequestIds -> Loadings] /\ fetches \in [RequestIds -> Fetchings]
      /\ shell.selected \in shell.courses \cup {NoCourse}
  BY DEF ShellInv, ShellTyped
<1>2. s # NoCourse
  BY WebAssumption
<1>3. fetches[s].phase # "free" /\ s = newestFetch /\ shell.screen = "dashboard" =>
        fetches[s].course = shell.selected /\ shell.selected # NoCourse
  BY <1>2 DEF ShellInv, FetchRight
<1>4. Shell!NoFetch \in Fetchings
  BY FreshTyped
<1>5. CASE Shell!FetchResponds(s)
  <2>1. fetches[s].phase = "answered"
        /\ UNCHANGED <<server, url, entries, loads, newest, newestFetch, moves, losses, wanted>>
    BY <1>5 DEF Shell!FetchResponds
  <2>2. CASE s # newestFetch
    <3>1. shell' = shell /\ fetches' = [fetches EXCEPT ![s] = Shell!NoFetch]
      BY <1>5, <2>2 DEF Shell!FetchResponds, Shell!CurrentFetch
    <3> QED BY <1>1, <2>1, <2>2, <3>1, FetchEnds
  <2>3. CASE s = newestFetch /\ fetches[s].answer = "ok"
    <3> DEFINE l == [fetches[s] EXCEPT !.phase = "body"]
    <3>1. shell' = shell /\ fetches' = [fetches EXCEPT ![s] = l]
      BY <1>5, <2>3 DEF Shell!FetchResponds, Shell!CurrentFetch
    <3>2. l \in Fetchings /\ l.phase = "body" /\ l.course = fetches[s].course
      BY <1>1 DEF Fetchings
    <3> HIDE DEF l
    <3> QED BY <1>1, <2>1, <3>1, <3>2, FetchMoves
  <2>4. CASE s = newestFetch /\ fetches[s].answer = "signed-out"
    <3>1. /\ shell' = [shell EXCEPT !.screen = "signed-out", !.progressScreen = "idle"]
          /\ fetches' = [fetches EXCEPT ![s] = Shell!NoFetch]
      BY <1>5, <2>4 DEF Shell!FetchResponds, Shell!CurrentFetch
    <3>2. /\ shell' \in Shells /\ shell'.screen = "signed-out" /\ shell'.courses = shell.courses
          /\ shell'.selected = shell.selected /\ shell'.retry = shell.retry
      BY <1>1, <3>1 DEF Shells
    <3>3. LoadsRight'
      BY <2>1 DEF ShellInv, LoadsRight, Outdated, Prefers, Had
    <3>4. fetches' \in [RequestIds -> Fetchings]
      BY <1>1, <1>4, <3>1
    <3> QED BY <1>1, <2>1, <3>2, <3>3, <3>4, ScreenLeaves
  <2>5. CASE s = newestFetch /\ fetches[s].answer \notin {"ok", "signed-out"}
    <3>1. /\ shell' = [shell EXCEPT !.progressScreen = "error"]
          /\ fetches' = [fetches EXCEPT ![s] = Shell!NoFetch]
      BY <1>5, <2>5 DEF Shell!FetchResponds, Shell!CurrentFetch
    <3>2. /\ shell' \in Shells /\ shell'.screen = shell.screen /\ shell'.courses = shell.courses
          /\ shell'.selected = shell.selected /\ shell'.retry = shell.retry
          /\ shell'.progressScreen = "error"
      BY <1>1, <3>1 DEF Shells
    <3> QED BY <2>1, <2>5, <3>1, <3>2, FetchEnds
  <2> QED BY <2>2, <2>3, <2>4, <2>5
<1>6. CASE Shell!FetchApplies(s)
  <2>1. /\ fetches[s].phase = "body" /\ fetches' = [fetches EXCEPT ![s] = Shell!NoFetch]
        /\ UNCHANGED <<server, url, entries, loads, newest, newestFetch, moves, losses, wanted>>
    BY <1>6 DEF Shell!FetchApplies
  <2>2. CASE s # newestFetch
    <3>1. shell' = shell
      BY <1>6, <2>2 DEF Shell!FetchApplies, Shell!CurrentFetch
    <3> QED BY <1>1, <2>1, <2>2, <3>1, FetchEnds
  <2>3. CASE s = newestFetch
    <3> DEFINE c == fetches[s].course
    <3>1. shell' = [shell EXCEPT !.progress = c, !.progressScreen = "ready"] /\ c \in Chosen
      BY <1>1, <1>6, <2>3 DEF Shell!FetchApplies, Shell!CurrentFetch, Fetchings
    <3>2. shell.screen = "dashboard" => c = shell.selected /\ shell.selected # NoCourse
      BY <1>3, <2>1, <2>3
    <3> HIDE DEF c
    <3>3. /\ shell' \in Shells /\ shell'.screen = shell.screen /\ shell'.courses = shell.courses
          /\ shell'.selected = shell.selected /\ shell'.retry = shell.retry
          /\ shell'.progressScreen = "ready" /\ shell'.progress = c
      BY <1>1, <3>1 DEF Shells
    <3> QED BY <2>1, <2>3, <3>2, <3>3, FetchEnds
  <2> QED BY <2>2, <2>3
<1> QED BY <1>5, <1>6

(* The form for a link is answered, whatever is shown by then. *)
LEMMA LinkKeeps ==
    ASSUME ShellInv, Shell!LinkRequested
    PROVE  ShellInv'
<1>1. /\ ShellTyped /\ shell \in Shells /\ losses \in 0..MaxLosses /\ loads \in [RequestIds -> Loadings]
      /\ fetches \in [RequestIds -> Fetchings] /\ shell.selected \in shell.courses \cup {NoCourse}
  BY DEF ShellInv, ShellTyped
<1>2. /\ shell' = [shell EXCEPT !.screen = "email-sent"] \/ shell' = [shell EXCEPT !.screen = "error"]
      /\ losses' \in 0..MaxLosses
      /\ UNCHANGED <<server, url, entries, loads, newest, fetches, newestFetch, moves, wanted>>
  BY <1>1, BoundsKept DEF Shell!LinkRequested
<1>3. /\ shell' \in Shells /\ shell'.screen \in {"email-sent", "error"} /\ shell'.courses = shell.courses
      /\ shell'.selected = shell.selected /\ shell'.retry = shell.retry
  BY <1>1, <1>2 DEF Shells
<1>4. LoadsRight'
  BY <1>2 DEF ShellInv, LoadsRight, Outdated, Prefers, Had
<1> QED BY <1>1, <1>2, <1>3, <1>4, ScreenLeaves

(* A page is opened by whoever followed a link: it loads the library.      *)
LEMMA PageOpens ==
    ASSUME ShellInv, NEW s \in RequestIds, Shell!OpenPage(s), shell.screen \in {"callback", "expired"},
           server' \in [signedIn : BOOLEAN, library : SUBSET Courses], server'.library = server.library,
           moves' \in 0..MaxMoves - 1, losses' \in 0..MaxLosses,
           UNCHANGED <<url, entries, fetches, newestFetch, wanted>>
    PROVE  ShellInv'
<1> DEFINE l == Shell!Asked(NoCourse, "initial")
<1>1. l \in Loadings /\ l.phase = "asked" /\ l.preferred = NoCourse /\ Shell!NoLoad \in Loadings
      /\ Shell!NoLoad.phase = "free"
  BY FreshTyped DEF Chosen, Shell!NoLoad
<1>2. /\ loads' = [t \in RequestIds |-> IF t = s THEN l ELSE Shell!NoLoad] /\ newest' = s
      /\ shell' = Shell!Opened
  BY DEF Shell!OpenPage
<1> HIDE DEF l
<1>3. loads' \in [RequestIds -> Loadings] /\ loads'[s] = l
      /\ \A t \in RequestIds : t # s => loads'[t] = Shell!NoLoad
  BY <1>1, <1>2
<1>4. /\ shell' \in Shells /\ shell'.screen = "loading" /\ shell'.selected = NoCourse /\ shell'.retry = "idle"
  BY <1>2, FreshTyped DEF Shell!Opened
<1>5. wanted = NoCourse /\ s # NoCourse
  BY WebAssumption DEF ShellInv, ScreensRight
<1>6. ShellTyped'
  BY <1>2, <1>3, <1>4 DEF ShellInv, ShellTyped
<1>7. LoadsRight'
  BY <1>1, <1>2, <1>3, <1>5 DEF LoadsRight, Outdated, Prefers, Had
<1>8. AddressRight' /\ FetchRight' /\ ScreensRight'
  BY <1>4 DEF ShellInv, AddressRight, FetchRight, ScreensRight
<1>9. Shell!ProgressMatches' /\ Shell!AddressMatches' /\ Shell!BusyIsWaiting'
  BY <1>1, <1>2, <1>3, <1>4, <1>5 DEF Shell!ProgressMatches, Shell!AddressMatches,
     Shell!BusyIsWaiting
<1> QED BY <1>6, <1>7, <1>8, <1>9 DEF ShellInv

(* The link of the mail is followed, and redeemed or refused. *)
LEMMA SigningInKeeps ==
    ASSUME ShellInv, Shell!FollowLink \/ Shell!Redeemed \/ Shell!BackToSignIn
    PROVE  ShellInv'
<1>1. /\ ShellTyped /\ shell \in Shells /\ losses \in 0..MaxLosses /\ moves \in 0..MaxMoves - 1
      /\ entries \subseteq Chosen /\ shell.selected \in shell.courses \cup {NoCourse}
      /\ server \in [signedIn : BOOLEAN, library : SUBSET Courses]
  BY DEF ShellInv, ShellTyped
<1>2. CASE Shell!FollowLink
  <2>1. /\ loads' = [s \in RequestIds |-> Shell!NoLoad] /\ newest' = NoCourse
        /\ fetches' = [s \in RequestIds |-> Shell!NoFetch] /\ newestFetch' = NoCourse
        /\ shell' = [Shell!Opened EXCEPT !.screen = "callback"] /\ url' = NoCourse
        /\ entries' = entries \cup {NoCourse} /\ wanted' = NoCourse /\ server' = server
    BY <1>2 DEF Shell!FollowLink, Shell!Away
  <2>2. moves' \in 0..MaxMoves - 1 /\ losses' \in 0..MaxLosses
    BY <1>1, <1>2, BoundsKept DEF Shell!FollowLink
  <2>3. shell' \in Shells /\ shell'.screen = "callback" /\ shell'.selected = NoCourse /\ shell'.retry = "idle"
    BY <2>1, FreshTyped DEF Shell!Opened, Shells
  <2>4. ShellTyped'
    BY <1>1, <2>1, <2>2, <2>3, FreshTyped DEF ShellTyped, Chosen
  <2>5. LoadsRight'
    BY <2>1, FreshTyped DEF LoadsRight, Outdated, Shell!NoLoad
  <2>6. AddressRight' /\ FetchRight' /\ ScreensRight'
    BY <2>1, <2>3 DEF AddressRight, FetchRight, ScreensRight
  <2>7. Shell!ProgressMatches' /\ Shell!AddressMatches' /\ Shell!BusyIsWaiting'
    BY <2>3 DEF Shell!ProgressMatches, Shell!AddressMatches, Shell!BusyIsWaiting
  <2> QED BY <2>4, <2>5, <2>6, <2>7 DEF ShellInv
<1>3. CASE Shell!Redeemed
  <2>1. shell.screen = "callback" /\ UNCHANGED <<url, entries, fetches, newestFetch, moves, wanted>>
    BY <1>3 DEF Shell!Redeemed
  <2>2. ASSUME server' = [server EXCEPT !.signedIn = TRUE], losses' = losses,
               NEW s \in RequestIds, Shell!OpenPage(s)
        PROVE  ShellInv'
    <3>1. server' \in [signedIn : BOOLEAN, library : SUBSET Courses] /\ server'.library = server.library
      BY <1>1, <2>2
    <3> QED BY <1>1, <2>1, <2>2, <3>1, PageOpens
  <2>3. ASSUME losses < MaxLosses, losses' = losses + 1, shell' = [shell EXCEPT !.screen = "expired"],
               UNCHANGED <<server, loads, newest>>
        PROVE  ShellInv'
    <3>1. losses' \in 0..MaxLosses
      BY <1>1, <2>3, BoundsKept
    <3>2. /\ shell' \in Shells /\ shell'.screen = "expired" /\ shell'.courses = shell.courses
          /\ shell'.selected = shell.selected /\ shell'.retry = shell.retry
      BY <1>1, <2>3 DEF Shells
    <3>3. ShellTyped'
      BY <2>1, <2>3, <3>1, <3>2 DEF ShellInv, ShellTyped
    <3>4. LoadsRight' /\ AddressRight' /\ FetchRight' /\ ScreensRight'
      BY <2>1, <2>3, <3>2
         DEF ShellInv, LoadsRight, Outdated, Prefers, Had, AddressRight, FetchRight, ScreensRight
    <3>5. Shell!ProgressMatches' /\ Shell!AddressMatches' /\ Shell!BusyIsWaiting'
      BY <2>1, <2>3, <3>2 DEF ShellInv, Shell!ProgressMatches, Shell!AddressMatches,
         Shell!BusyIsWaiting
    <3> QED BY <3>3, <3>4, <3>5 DEF ShellInv
  <2> QED BY <1>3, <2>2, <2>3 DEF Shell!Redeemed
<1>4. CASE Shell!BackToSignIn
  <2>1. PICK s \in RequestIds : Shell!OpenPage(s)
    BY <1>4 DEF Shell!BackToSignIn
  <2>2. shell.screen = "expired" /\ UNCHANGED <<server, url, entries, fetches, newestFetch, wanted>>
    BY <1>4 DEF Shell!BackToSignIn
  <2>3. moves' \in 0..MaxMoves - 1 /\ losses' \in 0..MaxLosses
    BY <1>1, <1>4, BoundsKept DEF Shell!BackToSignIn
  <2> QED BY <1>1, <2>1, <2>2, <2>3, PageOpens
<1> QED BY <1>2, <1>3, <1>4

(* The page begins with one load of the library, or is at rest.            *)
LEMMA ShellBegins == Shell!Init \/ ShellAtRest => ShellInv
<1>1. NoCourse \in Chosen /\ 0 \in 0..MaxMoves - 1 /\ 0 \in 0..MaxLosses
  BY WebAssumption DEF Chosen
<1>2. ASSUME Shell!Init PROVE ShellInv
  <2> DEFINE l == Shell!Asked(url, "initial")
  <2>1. newest \in RequestIds /\ newest # NoCourse
    BY <1>2, WebAssumption DEF Shell!Init
  <2>2. url \in Chosen /\ entries = {url} /\ wanted = url
    BY <1>2 DEF Shell!Init, Chosen
  <2>3. l \in Loadings /\ l.phase = "asked" /\ l.preferred = url /\ Shell!NoLoad \in Loadings
        /\ Shell!NoLoad.phase = "free" /\ Shell!NoFetch \in Fetchings
    BY <2>2, FreshTyped DEF Shell!NoLoad
  <2>4. loads = [s \in RequestIds |-> IF s = newest THEN l ELSE Shell!NoLoad]
    BY <1>2 DEF Shell!Init
  <2> HIDE DEF l
  <2>5. /\ loads \in [RequestIds -> Loadings] /\ loads[newest] = l
        /\ \A s \in RequestIds : s # newest => loads[s] = Shell!NoLoad
    BY <2>1, <2>3, <2>4
  <2>6. /\ shell \in Shells /\ shell.screen = "loading" /\ shell.selected = NoCourse /\ shell.retry = "idle"
    BY <1>2, FreshTyped DEF Shell!Init, Shell!Opened
  <2>7. ShellTyped
    BY <1>1, <1>2, <2>1, <2>2, <2>3, <2>5, <2>6 DEF Shell!Init, ShellTyped
  <2>8. LoadsRight /\ AddressRight /\ FetchRight /\ ScreensRight
    BY <2>2, <2>3, <2>5, <2>6 DEF LoadsRight, Outdated, Prefers, Had, AddressRight, FetchRight,
       ScreensRight
  <2>9. Shell!ProgressMatches /\ Shell!AddressMatches /\ Shell!BusyIsWaiting
    BY <2>1, <2>3, <2>5, <2>6 DEF Shell!ProgressMatches, Shell!AddressMatches, Shell!BusyIsWaiting
  <2> QED BY <2>7, <2>8, <2>9 DEF ShellInv
<1>3. ASSUME ShellAtRest PROVE ShellInv
  <2>1. /\ shell \in Shells /\ shell.screen = "dashboard" /\ shell.selected = NoCourse
        /\ shell.retry = "idle" /\ shell.progressScreen = "idle" /\ shell.courses = {}
    BY <1>3 DEF ShellAtRest, Shell!Opened, Shells, Chosen
  <2>2. ShellTyped
    BY <1>1, <1>3, <2>1, FreshTyped DEF ShellAtRest, ShellTyped
  <2>3. LoadsRight /\ AddressRight /\ FetchRight /\ ScreensRight
    BY <1>3, <2>1 DEF ShellAtRest, LoadsRight, Outdated, Shell!NoLoad, AddressRight,
       FetchRight, ScreensRight
  <2>4. Shell!ProgressMatches /\ Shell!AddressMatches /\ Shell!BusyIsWaiting
    BY <1>3, <2>1 DEF ShellAtRest, Shell!ProgressMatches, Shell!AddressMatches, Shell!BusyIsWaiting
  <2> QED BY <2>2, <2>3, <2>4 DEF ShellInv
<1> QED BY <1>2, <1>3

(* Every step of the page around the dashboard keeps its invariant. *)
LEMMA ShellNext == ShellInv /\ [Shell!Next]_shellVars => ShellInv'
<1> SUFFICES ASSUME ShellInv, [Shell!Next]_shellVars PROVE ShellInv'
  OBVIOUS
<1>1. CASE Shell!Continue
  <2>1. ASSUME NEW s \in RequestIds,
               \/ Shell!AnswerLoad(s) \/ Shell!LoadResponds(s) \/ Shell!LoadApplies(s)
               \/ Shell!AnswerFetch(s) \/ Shell!FetchResponds(s) \/ Shell!FetchApplies(s)
        PROVE  ShellInv'
    BY <2>1, AnswersKeep, LoadRespondsKeeps, LoadAppliesKeeps, FetchesKeep
  <2>2. CASE Shell!ArchiveToken \/ Shell!ArchiveCommits \/ Shell!ArchiveReloads \/ Shell!ArchiveEnds
             \/ Shell!ArchiveRefused
    BY <2>2, ServerKeeps, LoadersKeep
  <2>3. CASE Shell!LinkRequested \/ Shell!Redeemed
    BY <2>3, LinkKeeps, SigningInKeeps
  <2> QED BY <1>1, <2>1, <2>2, <2>3 DEF Shell!Continue
<1>2. ASSUME NEW s \in RequestIds, Shell!AnswerLost(s) PROVE ShellInv'
  BY <1>2, AnswersKeep
<1>3. CASE \E c \in Courses : Shell!SelectCourse(c) \/ Shell!OpenUploaded(c)
  BY <1>3, SelectKeeps, LoadersKeep
<1>4. CASE \E c \in Courses \cup {NoCourse} : Shell!GoBack(c)
  BY <1>4, LoadersKeep DEF Chosen
<1>5. CASE Shell!RefreshProgress \/ Shell!Retry \/ Shell!StartArchive \/ Shell!ArchiveFails
  BY <1>5, SelectKeeps, LoadersKeep, ServerKeeps
<1>6. CASE Shell!RequestLink \/ Shell!FollowLink \/ Shell!BackToSignIn \/ Shell!SessionLapses
  BY <1>6, ServerKeeps, SigningInKeeps
<1>7. CASE UNCHANGED shellVars
  <2>1. server \in [signedIn : BOOLEAN, library : SUBSET Courses] /\ moves \in 0..MaxMoves - 1
        /\ losses \in 0..MaxLosses
    BY DEF ShellInv, ShellTyped
  <2> QED BY <1>7, <2>1, LibraryShrinks DEF shellVars
<1> QED BY <1>1, <1>2, <1>3, <1>4, <1>5, <1>6, <1>7 DEF Shell!Next

(* What the run checks follows from the invariant. *)
LEMMA ShellImplies == ShellInv => Shell!DashboardMatches
<1> SUFFICES ASSUME ShellInv PROVE Shell!DashboardMatches
  OBVIOUS
<1>1. moves <= MaxMoves - 1 /\ losses <= MaxLosses
  BY WebAssumption DEF ShellInv, ShellTyped
<1>2. Shell!TypeOK
  BY <1>1 DEF ShellInv, ShellTyped, Shells, Chosen, Shell!TypeOK
<1> QED BY <1>2 DEF ShellInv, Shell!DashboardMatches

-----------------------------------------------------------------------------
(* The panel and its service.                                              *)

(* Steps that leave the uploads alone, and the panel at what it shows.     *)
LEMMA PanelStays ==
    ASSUME PanelInv, UNCHANGED uploads, scheduled' \subseteq Uploads,
           panel' \in Panels, panel'.shown = panel.shown,
           get' \in Waits, poll' \in Waits, outlineGet' \in Waits, submits' \in [Submits -> Submissions],
           poll' = "none" => poll = "none"
    PROVE  PanelInv'
<1>1. PanelTyped'
  BY DEF PanelInv, PanelTyped
<1>2. ReplacedGone' /\ Panel!ReplacedOnce'
  BY DEF PanelInv, ReplacedGone, Panel!ReplacedOnce
<1>3. Panel!Polled'
  BY DEF PanelInv, Panel!Polled
<1> QED BY <1>1, <1>2, <1>3 DEF PanelInv

(* Another upload is shown, or the same one anew: it is polled while it is *)
(* at work.                                                                *)
LEMMA PanelShows ==
    ASSUME PanelInv, NEW v \in [id : Existing, state : States \cup {"none"}], NEW rest \in Panels,
           Panel!Show(v, rest), UNCHANGED uploads, scheduled' \subseteq Uploads,
           get' \in Waits, submits' \in [Submits -> Submissions]
    PROVE  PanelInv'
<1> DEFINE locks == Panel!Locks(v.state)
<1>1. panel' \in Panels /\ panel'.shown = v
  <2>1. locks \in BOOLEAN /\ panel' = [rest EXCEPT !.shown = v, !.guard = locks]
    BY DEF Panel!Show, Panel!Locks
  <2> HIDE DEF locks
  <2> QED BY <2>1 DEF Panels
<1>2. poll' \in Waits /\ outlineGet' \in Waits /\ (v.state = "working" => poll' = "timer")
  BY DEF Panel!Show, Panel!PollOf, Panel!OutlineOf, Panel!PolledStates, Waits
<1>3. PanelTyped'
  BY <1>1, <1>2 DEF PanelInv, PanelTyped
<1>4. ReplacedGone' /\ Panel!ReplacedOnce'
  BY DEF PanelInv, ReplacedGone, Panel!ReplacedOnce
<1>5. Panel!Polled'
  BY <1>1, <1>2 DEF Panel!Polled, Panel!PolledStates
<1> QED BY <1>3, <1>4, <1>5 DEF PanelInv

(* The views that there are. *)
LEMMA ViewsTyped ==
    ASSUME PanelTyped
    PROVE  /\ Panel!NoView \in [id : Existing, state : States \cup {"none"}]
           /\ Panel!RejectedView \in [id : Existing, state : States \cup {"none"}]
           /\ \A u \in Uploads : Panel!View(u) \in [id : Existing, state : States \cup {"none"}]
           /\ \A u \in Existing : Panel!Visible(u) => u \in Uploads
           /\ \A u \in Existing : Panel!Rescheduled(u) \subseteq Uploads
  BY DEF PanelTyped, Panel!NoView, Panel!RejectedView, Panel!View, Panel!Visible, Panel!None,
     Existing, States,
         Panel!Rescheduled, Panel!Recoverable

(* Loading the approvals, timers, requests that fail, what the learner     *)
(* does in the panel, and the beginning of what is tracked.                *)
LEMMA PanelWaits ==
    ASSUME PanelInv,
           \/ Panel!ApprovalsAnswered \/ Panel!ApprovalsFail \/ Panel!RetryApprovals
           \/ (\E u \in Existing : Panel!Track(u)) \/ Panel!TrackAgain \/ Panel!TrackedFails
           \/ Panel!PollTimer \/ Panel!PollFails \/ Panel!OutlineTimer \/ Panel!OutlineAnswered
           \/ Panel!OutlineFails \/ Panel!ChooseFile
    PROVE  PanelInv'
<1>1. /\ PanelTyped /\ scheduled \subseteq Uploads /\ panel \in Panels /\ submits \in [Submits -> Submissions]
      /\ get \in Waits /\ poll \in Waits /\ outlineGet \in Waits
  BY DEF PanelInv, PanelTyped
<1>2. UNCHANGED <<uploads, scheduled, submits>>
  BY DEF Panel!ApprovalsAnswered, Panel!ApprovalsFail, Panel!RetryApprovals, Panel!Track,
     Panel!TrackAgain,
         Panel!TrackedFails, Panel!PollTimer, Panel!PollFails, Panel!OutlineTimer, Panel!OutlineAnswered,
         Panel!OutlineFails, Panel!ChooseFile, Panel!serviceVars
<1>3. get' \in Waits /\ poll' \in Waits /\ outlineGet' \in Waits /\ (poll' = "none" => poll = "none")
  BY <1>1
     DEF Panel!ApprovalsAnswered, Panel!ApprovalsFail, Panel!RetryApprovals, Panel!Track, Panel!TrackAgain,
         Panel!TrackedFails, Panel!PollTimer, Panel!PollFails, Panel!OutlineTimer, Panel!OutlineAnswered,
         Panel!OutlineFails, Panel!ChooseFile, Waits
<1>4. panel' \in Panels /\ panel'.shown = panel.shown
  <2>1. CASE Panel!ApprovalsAnswered \/ Panel!ApprovalsFail \/ Panel!RetryApprovals
    <3>1. \E x \in {"ready", "error", "closed", "loading"} : panel' = [panel EXCEPT !.approvals = x]
      BY <2>1 DEF Panel!ApprovalsAnswered, Panel!ApprovalsFail, Panel!RetryApprovals
    <3> QED BY <1>1, <3>1 DEF Panels
  <2>2. ASSUME NEW u \in Existing, Panel!Track(u) PROVE panel' \in Panels /\ panel'.shown = panel.shown
    BY <1>1, <2>2 DEF Panel!Track, Panels
  <2>3. CASE Panel!TrackedFails
    <3> DEFINE u == panel.tracked
    <3>1. u \in Existing /\ panel' = [panel EXCEPT !.resolved = u, !.screen = "error"]
      BY <1>1, <2>3 DEF Panel!TrackedFails, Panels
    <3> HIDE DEF u
    <3> QED BY <1>1, <3>1 DEF Panels
  <2>4. CASE Panel!OutlineAnswered
    <3> DEFINE u == panel.shown.id
    <3>1. u \in Existing /\ (panel' = [panel EXCEPT !.outline = u, !.submission = "tracking"] \/ panel' = panel)
      BY <1>1, <2>4 DEF Panel!OutlineAnswered, Panels
    <3> HIDE DEF u
    <3> QED BY <1>1, <3>1 DEF Panels
  <2>5. CASE Panel!ChooseFile
    BY <1>1, <2>5 DEF Panel!ChooseFile, Panels
  <2>6. CASE Panel!TrackAgain \/ Panel!PollTimer \/ Panel!PollFails \/ Panel!OutlineTimer \/ Panel!OutlineFails
    BY <1>1, <2>6 DEF Panel!TrackAgain, Panel!PollTimer, Panel!PollFails, Panel!OutlineTimer,
       Panel!OutlineFails
  <2> QED BY <2>1, <2>2, <2>3, <2>4, <2>5, <2>6
<1> QED BY <1>1, <1>2, <1>3, <1>4, PanelStays

(* The panel starts to track a course, and a status that was asked for is  *)
(* answered.                                                               *)
LEMMA TrackingKeeps ==
    ASSUME PanelInv, Panel!StartTracking \/ Panel!TrackedAnswered \/ Panel!PollAnswered
    PROVE  PanelInv'
<1>1. /\ PanelTyped /\ scheduled \subseteq Uploads /\ panel \in Panels /\ submits \in [Submits -> Submissions]
      /\ get \in Waits /\ poll \in Waits /\ outlineGet \in Waits
      /\ panel.tracked \in Existing /\ panel.shown.id \in Existing
  BY DEF PanelInv, PanelTyped, Panels
<1>2. CASE Panel!StartTracking
  <2> DEFINE tracks == panel.tracked # 0
             screen == IF panel.tracked = 0 THEN "idle" ELSE "loading"
  <2>1. panel' = [panel EXCEPT !.resolved = 0, !.shown = Panel!NoView, !.outline = 0, !.file = FALSE,
                               !.submission = "idle", !.guard = tracks, !.screen = screen]
        /\ tracks \in BOOLEAN /\ screen \in {"idle", "loading"} /\ 0 \in Existing
    BY <1>2 DEF Panel!StartTracking, Panel!Emptied, Panel!None, Existing
  <2>2. /\ get' \in {"none", "asked"} /\ poll' = "none" /\ outlineGet' = "none"
        /\ UNCHANGED <<uploads, scheduled, submits>>
    BY <1>2 DEF Panel!StartTracking, Panel!serviceVars
  <2> HIDE DEF tracks, screen
  <2>3. panel' \in Panels /\ panel'.shown = Panel!NoView
    BY <1>1, <2>1, ViewsTyped DEF Panels
  <2>4. PanelTyped'
    BY <1>1, <2>2, <2>3 DEF PanelTyped, Waits
  <2>5. ReplacedGone' /\ Panel!ReplacedOnce'
    BY <2>2 DEF PanelInv, ReplacedGone, Panel!ReplacedOnce
  <2>6. Panel!Polled'
    BY <2>3 DEF Panel!Polled, Panel!PolledStates, Panel!NoView
  <2> QED BY <2>4, <2>5, <2>6 DEF PanelInv
<1>3. ASSUME NEW u \in Existing, Panel!Got(u) PROVE uploads' = uploads /\ scheduled' \subseteq Uploads
  BY <1>1, <1>3, ViewsTyped DEF Panel!Got, Panel!serviceVars
<1>4. CASE Panel!TrackedAnswered
  <2> DEFINE u == panel.tracked
             rest == [panel EXCEPT !.resolved = u, !.submission = "tracking", !.screen = "ready"]
  <2>1. /\ Panel!Got(u) /\ get' = "none" /\ UNCHANGED submits
        /\ \/ Panel!Visible(u) /\ Panel!Show(Panel!View(u), rest)
           \/ panel' = [panel EXCEPT !.resolved = u, !.screen = "error"] /\ UNCHANGED <<poll, outlineGet>>
    BY <1>1, <1>4 DEF Panel!TrackedAnswered, Panels
  <2>2. u \in Existing
    BY <1>1
  <2> HIDE DEF u
  <2>3. rest \in Panels
    BY <1>1, <2>2 DEF Panels
  <2> HIDE DEF rest
  <2>4. uploads' = uploads /\ scheduled' \subseteq Uploads /\ get' \in Waits
    BY <1>3, <2>1, <2>2 DEF Waits
  <2>5. CASE Panel!Visible(u) /\ Panel!Show(Panel!View(u), rest)
    <3>1. Panel!View(u) \in [id : Existing, state : States \cup {"none"}]
      BY <1>1, <2>2, <2>5, ViewsTyped
    <3> QED BY <1>1, <2>1, <2>3, <2>4, <2>5, <3>1, PanelShows
  <2>6. CASE panel' = [panel EXCEPT !.resolved = u, !.screen = "error"] /\ UNCHANGED <<poll, outlineGet>>
    <3>1. panel' \in Panels /\ panel'.shown = panel.shown
      BY <1>1, <2>2, <2>6 DEF Panels
    <3> QED BY <1>1, <2>1, <2>4, <2>6, <3>1, PanelStays
  <2> QED BY <2>1, <2>5, <2>6
<1>5. CASE Panel!PollAnswered
  <2> DEFINE u == panel.shown.id
  <2>1. /\ Panel!Got(u) /\ UNCHANGED <<get, submits>>
        /\ \/ Panel!Visible(u) /\ Panel!Show(Panel!View(u), panel)
           \/ poll' = "timer" /\ UNCHANGED <<panel, outlineGet>>
    BY <1>5 DEF Panel!PollAnswered
  <2>2. u \in Existing
    BY <1>1
  <2> HIDE DEF u
  <2>3. uploads' = uploads /\ scheduled' \subseteq Uploads
    BY <1>3, <2>1, <2>2
  <2>4. CASE Panel!Visible(u) /\ Panel!Show(Panel!View(u), panel)
    <3>1. Panel!View(u) \in [id : Existing, state : States \cup {"none"}]
      BY <1>1, <2>2, <2>4, ViewsTyped
    <3> QED BY <1>1, <2>1, <2>3, <2>4, <3>1, PanelShows
  <2>5. CASE poll' = "timer" /\ UNCHANGED <<panel, outlineGet>>
    BY <1>1, <2>1, <2>3, <2>5, PanelStays DEF Waits
  <2> QED BY <2>1, <2>4, <2>5
<1> QED BY <1>2, <1>4, <1>5

(* A submission goes on. *)
LEMMA Goes ==
    ASSUME PanelTyped, NEW s \in Submits,
           NEW x \in {"free", "csrf", "post", "rejected", "refused", "created"} \cup Panel!InService,
           x = "created" => submits[s].upload # 0, Panel!Goes(s, x)
    PROVE  submits' \in [Submits -> Submissions]
<1> DEFINE l == [submits[s] EXCEPT !.phase = x]
<1>1. submits' = [submits EXCEPT ![s] = l] /\ submits[s] \in Submissions
  BY DEF PanelTyped, Panel!Goes
<1>2. l \in Submissions
  BY <1>1 DEF Submissions
<1> HIDE DEF l
<1> QED BY <1>1, <1>2 DEF PanelTyped

(* Sending the form, up to the transaction, and what may fail of it. *)
LEMMA SubmissionsKeep ==
    ASSUME PanelInv, NEW s \in Submits,
           \/ Panel!Submit(s) \/ Panel!SubmitToken(s) \/ Panel!Create(s) \/ Panel!Check(s) \/ Panel!Put(s)
           \/ Panel!Reread(s) \/ Panel!SubmitFails(s) \/ Panel!SubmitLost(s) \/ Panel!SubmitUnread(s)
           \/ Panel!SubmitAnswered(s)
    PROVE  PanelInv'
<1>1. /\ PanelTyped /\ scheduled \subseteq Uploads /\ panel \in Panels /\ submits \in [Submits -> Submissions]
      /\ get \in Waits /\ poll \in Waits /\ outlineGet \in Waits
      /\ panel.shown.id \in Existing /\ submits[s] \in Submissions
      /\ submits[s].upload \in Existing
  BY DEF PanelInv, PanelTyped, Panels, Submissions
<1>2. CASE Panel!Submit(s)
  <2> DEFINE r == Panel!Replaced
             l == [Panel!NoSubmit EXCEPT !.phase = "csrf", !.replaces = r]
  <2>1. r \in Existing
    BY <1>1 DEF Panel!Replaced, Panel!None, Existing
  <2>2. /\ panel' = [panel EXCEPT !.guard = TRUE, !.outline = 0, !.submission = "submitting"]
        /\ submits' = [submits EXCEPT ![s] = l]
        /\ UNCHANGED <<uploads, scheduled, get, poll, outlineGet>>
    BY <1>2 DEF Panel!Submit, Panel!serviceVars, Panel!None
  <2> HIDE DEF r
  <2>3. l \in Submissions
    BY <2>1 DEF Panel!NoSubmit, Panel!None, Submissions, Existing
  <2> HIDE DEF l
  <2>4. panel' \in Panels /\ panel'.shown = panel.shown
    BY <1>1, <2>2 DEF Panels, Existing
  <2>5. submits' \in [Submits -> Submissions]
    BY <1>1, <2>2, <2>3
  <2> QED BY <1>1, <2>2, <2>4, <2>5, PanelStays
<1>3. CASE Panel!SubmitToken(s) \/ Panel!Create(s) \/ Panel!Check(s) \/ Panel!Put(s) \/ Panel!SubmitFails(s)
  <2>1. \E x \in {"post", "put", "rejected", "check", "refused", "create"} : Panel!Goes(s, x)
    BY <1>3 DEF Panel!SubmitToken, Panel!Create, Panel!Check, Panel!Put, Panel!SubmitFails
  <2>2. submits' \in [Submits -> Submissions]
    BY <1>1, <2>1, Goes DEF Panel!InService
  <2>3. UNCHANGED <<uploads, scheduled, panel, get, poll, outlineGet>>
    BY <1>3 DEF Panel!SubmitToken, Panel!Create, Panel!Check, Panel!Put, Panel!SubmitFails,
       Panel!serviceVars
  <2> QED BY <1>1, <2>2, <2>3, PanelStays
<1>4. CASE Panel!Reread(s)
  <2>1. \E x \in {"created", "refused"} : (x = "created" => submits[s].upload # 0) /\ Panel!Goes(s, x)
    BY <1>4 DEF Panel!Reread, Panel!Visible, Panel!None
  <2>2. submits' \in [Submits -> Submissions]
    BY <1>1, <2>1, Goes
  <2>3. UNCHANGED <<uploads, panel, get, poll, outlineGet>>
    BY <1>4 DEF Panel!Reread
  <2>4. scheduled' \subseteq Uploads
    BY <1>1, <1>4, ViewsTyped DEF Panel!Reread
  <2> QED BY <1>1, <2>2, <2>3, <2>4, PanelStays
<1>5. CASE Panel!SubmitAnswered(s)
  <2> DEFINE rest == [panel EXCEPT !.submission = "tracking"]
             u == submits[s].upload
  <2>1. submits' = [submits EXCEPT ![s] = Panel!NoSubmit] /\ UNCHANGED <<uploads, scheduled, get>>
    BY <1>5 DEF Panel!SubmitAnswered, Panel!serviceVars
  <2>2. submits' \in [Submits -> Submissions]
    <3>1. Panel!NoSubmit \in Submissions
      BY DEF Panel!NoSubmit, Panel!None, Submissions, Existing
    <3> QED BY <1>1, <2>1, <3>1
  <2>3. rest \in Panels
    BY <1>1 DEF Panels
  <2>4. \/ submits[s].phase = "created" /\ Panel!Show(Panel!View(u), rest)
        \/ Panel!Show(Panel!RejectedView, rest)
        \/ /\ UNCHANGED <<poll, outlineGet>>
           /\ panel' = [panel EXCEPT !.guard = FALSE, !.submission = "idle"]
        \/ UNCHANGED <<panel, poll, outlineGet>>
    BY <1>5 DEF Panel!SubmitAnswered, Panel!Told
  <2> HIDE DEF rest
  <2>5. CASE submits[s].phase = "created" /\ Panel!Show(Panel!View(u), rest)
    <3>1. u \in Uploads
      BY <1>1, <2>5 DEF Submissions, Existing
    <3>2. Panel!View(u) \in [id : Existing, state : States \cup {"none"}]
      BY <1>1, <3>1, ViewsTyped
    <3> QED BY <1>1, <2>1, <2>2, <2>3, <2>5, <3>2, PanelShows
  <2>6. CASE Panel!Show(Panel!RejectedView, rest)
    <3>1. Panel!RejectedView \in [id : Existing, state : States \cup {"none"}]
      BY <1>1, ViewsTyped
    <3> QED BY <1>1, <2>1, <2>2, <2>3, <2>6, <3>1, PanelShows
  <2>7. CASE UNCHANGED <<poll, outlineGet>> /\ panel' = [panel EXCEPT !.guard = FALSE, !.submission = "idle"]
    <3>1. panel' \in Panels /\ panel'.shown = panel.shown
      BY <1>1, <2>7 DEF Panels
    <3> QED BY <1>1, <2>1, <2>2, <2>7, <3>1, PanelStays
  <2>8. CASE UNCHANGED <<panel, poll, outlineGet>>
    BY <1>1, <2>1, <2>2, <2>8, PanelStays
  <2> QED BY <2>4, <2>5, <2>6, <2>7, <2>8
<1>6. CASE Panel!SubmitLost(s)
  <2> DEFINE l == [submits[s] EXCEPT !.lost = TRUE]
  <2>1. /\ submits' = [submits EXCEPT ![s] = l]
        /\ panel' = [panel EXCEPT !.guard = FALSE, !.submission = "idle"]
        /\ UNCHANGED <<uploads, scheduled, get, poll, outlineGet>>
    BY <1>6 DEF Panel!SubmitLost, Panel!serviceVars
  <2>2. l \in Submissions
    BY <1>1 DEF Submissions
  <2> HIDE DEF l
  <2>3. submits' \in [Submits -> Submissions]
    BY <1>1, <2>1, <2>2
  <2>4. panel' \in Panels /\ panel'.shown = panel.shown
    BY <1>1, <2>1 DEF Panels
  <2> QED BY <1>1, <2>1, <2>3, <2>4, PanelStays
<1>7. CASE Panel!SubmitUnread(s)
  <2>1. submits' = [submits EXCEPT ![s] = Panel!NoSubmit]
        /\ UNCHANGED <<uploads, scheduled, panel, get, poll, outlineGet>>
    BY <1>7 DEF Panel!SubmitUnread, Panel!serviceVars
  <2>2. Panel!NoSubmit \in Submissions
    BY DEF Panel!NoSubmit, Panel!None, Submissions, Existing
  <2>3. submits' \in [Submits -> Submissions]
    BY <1>1, <2>1, <2>2
  <2> QED BY <1>1, <2>1, <2>3, PanelStays
<1> QED BY <1>2, <1>3, <1>4, <1>5, <1>6, <1>7

(* Steps of the service that change uploads: what is shown stays.          *)
LEMMA UploadsMove ==
    ASSUME PanelInv, uploads' \in [Uploads -> [state : States, archived : BOOLEAN, replaces : Existing]],
           ReplacedGone', Panel!ReplacedOnce', scheduled' \subseteq Uploads,
           submits' \in [Submits -> Submissions], UNCHANGED <<panel, get, poll, outlineGet>>
    PROVE  PanelInv'
<1>1. PanelTyped'
  BY DEF PanelInv, PanelTyped
<1>2. Panel!Polled'
  BY DEF PanelInv, Panel!Polled
<1> QED BY <1>1, <1>2 DEF PanelInv

(* PostgresDemoUploadRepository.create: what is replaced was not replaced  *)
(* before, because it would be archived.                                   *)
LEMMA CommitKeeps ==
    ASSUME PanelInv, NEW s \in Submits, Panel!Commit(s)
    PROVE  PanelInv'
<1> DEFINE r == submits[s].replaces
           made == [state |-> "working", archived |-> FALSE, replaces |-> r]
<1>1. /\ PanelTyped /\ scheduled \subseteq Uploads /\ submits \in [Submits -> Submissions]
      /\ submits[s] \in Submissions /\ r \in Existing
      /\ uploads \in [Uploads -> [state : States, archived : BOOLEAN, replaces : Existing]]
  BY DEF PanelInv, PanelTyped, Submissions
<1>2. UNCHANGED <<scheduled, panel, get, poll, outlineGet>>
  BY DEF Panel!Commit
<1>3. CASE Panel!Goes(s, "refused") /\ UNCHANGED uploads
  <2>1. submits' \in [Submits -> Submissions]
    BY <1>1, <1>3, Goes
  <2>2. ReplacedGone' /\ Panel!ReplacedOnce'
    BY <1>3 DEF PanelInv, ReplacedGone, Panel!ReplacedOnce
  <2> QED BY <1>1, <1>2, <1>3, <2>1, <2>2, UploadsMove
<1>4. ASSUME NEW u \in Uploads, uploads[u] = Panel!Absent, r # 0 => Panel!Replaceable(r),
             uploads' = [v \in Uploads |->
                           IF v = u THEN made
                           ELSE IF v = r THEN Panel!Retired(uploads[v]) ELSE uploads[v]],
             submits' = [submits EXCEPT ![s].phase = "reread", ![s].upload = u]
      PROVE  PanelInv'
  <2>1. made \in [state : States, archived : BOOLEAN, replaces : Existing]
        /\ made.replaces = r /\ ~made.archived
    BY <1>1 DEF States
  <2>2. r # 0 => /\ r \in Uploads /\ r # u /\ ~uploads[r].archived
                 /\ Panel!Retired(uploads[r]) \in [state : States, archived : BOOLEAN, replaces : Existing]
                 /\ Panel!Retired(uploads[r]).archived
                 /\ Panel!Retired(uploads[r]).replaces = uploads[r].replaces
    <3> SUFFICES ASSUME r # 0
                 PROVE  /\ r \in Uploads /\ r # u /\ ~uploads[r].archived
                        /\ Panel!Retired(uploads[r]) \in [state : States, archived : BOOLEAN, replaces : Existing]
                        /\ Panel!Retired(uploads[r]).archived
                        /\ Panel!Retired(uploads[r]).replaces = uploads[r].replaces
      OBVIOUS
    <3>1. r \in Uploads
      BY <1>1 DEF Existing
    <3>2. ~uploads[r].archived /\ uploads[r].state = "failed_retryable"
      BY <1>4 DEF Panel!Replaceable, Panel!Visible
    <3>3. r # u
      BY <1>4, <3>2 DEF Panel!Absent
    <3> DEFINE l == Panel!Retired(uploads[r])
    <3>4. l \in [state : States, archived : BOOLEAN, replaces : Existing] /\ l.archived
          /\ l.replaces = uploads[r].replaces
      <4>1. uploads[r] \in [state : States, archived : BOOLEAN, replaces : Existing]
        BY <1>1, <3>1
      <4> QED BY <4>1 DEF Panel!Retired
    <3> HIDE DEF l
    <3> QED BY <3>1, <3>2, <3>3, <3>4 DEF l
  <2>3. uploads[u].replaces = 0 /\ 0 \notin Uploads
    BY <1>4, WebAssumption DEF Panel!Absent, Panel!None
  <2> HIDE DEF made
  <2>4. uploads' \in [Uploads -> [state : States, archived : BOOLEAN, replaces : Existing]]
    BY <1>1, <1>4, <2>1, <2>2, <2>3
  <2>5. /\ uploads'[u] = made
        /\ r # 0 => uploads'[r].archived
        /\ \A v \in Uploads : v # u => /\ uploads'[v].replaces = uploads[v].replaces
                                       /\ uploads[v].archived => uploads'[v].archived
    BY <1>1, <1>4, <2>2, <2>3
  <2>6. \A v \in Uploads : uploads[v].replaces # 0 =>
          uploads[v].replaces \in Uploads /\ uploads[uploads[v].replaces].archived
    BY <1>1 DEF PanelInv, ReplacedGone, Existing
  <2>7. \A v \in Uploads : uploads[v].replaces # 0 => uploads[v].replaces # u /\ uploads[v].replaces # r
    BY <1>4, <2>2, <2>6 DEF Panel!Absent
  <2>8. ReplacedGone'
    <3> SUFFICES ASSUME NEW v \in Uploads, uploads'[v].replaces # 0
                 PROVE  uploads'[uploads'[v].replaces].archived
      BY DEF ReplacedGone
    <3>1. CASE v = u
      BY <2>1, <2>5, <3>1
    <3>2. CASE v # u
      BY <2>5, <2>6, <2>7, <3>2
    <3> QED BY <3>1, <3>2
  <2>9. Panel!ReplacedOnce'
    <3>1. \A v, w \in Uploads : uploads[v].replaces # 0 /\ uploads[v].replaces = uploads[w].replaces => v = w
      BY DEF PanelInv, Panel!ReplacedOnce, Panel!None
    <3>2. \A v, w \in Uploads : uploads'[v].replaces # 0 /\ uploads'[v].replaces = uploads'[w].replaces => v = w
      BY <2>1, <2>5, <2>7, <3>1
    <3> QED BY <3>2 DEF Panel!ReplacedOnce, Panel!None
  <2>10. submits' \in [Submits -> Submissions]
    <3> DEFINE l == [submits[s] EXCEPT !.phase = "reread", !.upload = u]
    <3>1. submits' = [submits EXCEPT ![s] = l]
      BY <1>1, <1>4
    <3>2. l \in Submissions
      BY <1>1 DEF Submissions, Existing, Panel!InService
    <3> HIDE DEF l
    <3> QED BY <1>1, <3>1, <3>2
  <2> QED BY <1>1, <1>2, <2>4, <2>8, <2>9, <2>10, UploadsMove
<1> HIDE DEF made
<1>5. \/ Panel!Goes(s, "refused") /\ UNCHANGED uploads
      \/ \E u \in Uploads : /\ uploads[u] = Panel!Absent /\ (r # 0 => Panel!Replaceable(r))
                            /\ uploads' = [v \in Uploads |->
                                 IF v = u THEN made
                                 ELSE IF v = r THEN Panel!Retired(uploads[v]) ELSE uploads[v]]
                            /\ submits' = [submits EXCEPT ![s].phase = "reread", ![s].upload = u]
  BY DEF Panel!Commit, Panel!None, made
<1> QED BY <1>3, <1>4, <1>5

(* What becomes of uploads, of the process and of archived courses.        *)
LEMMA ServiceKeeps ==
    ASSUME PanelInv,
           Panel!Restart \/ \E u \in Uploads : Panel!Work(u) \/ Panel!WorkStops(u) \/ Panel!Archive(u)
    PROVE  PanelInv'
<1>1. /\ PanelTyped /\ scheduled \subseteq Uploads /\ submits \in [Submits -> Submissions]
      /\ uploads \in [Uploads -> [state : States, archived : BOOLEAN, replaces : Existing]]
  BY DEF PanelInv, PanelTyped
<1>2. UNCHANGED <<panel, get, poll, outlineGet>>
  BY DEF Panel!Restart, Panel!Work, Panel!WorkStops, Panel!Archive
<1>3. scheduled' \subseteq Uploads
  BY <1>1 DEF Panel!Restart, Panel!Work, Panel!WorkStops, Panel!Archive, Panel!Recoverable
<1>4. submits' \in [Submits -> Submissions]
  <2>1. CASE Panel!Restart
    <3>1. ASSUME NEW l \in Submissions PROVE [l EXCEPT !.phase = "refused"] \in Submissions
      BY DEF Submissions
    <3> QED BY <1>1, <2>1, <3>1 DEF Panel!Restart
  <2>2. CASE submits' = submits
    BY <1>1, <2>2
  <2> QED BY <2>1, <2>2 DEF Panel!Work, Panel!WorkStops, Panel!Archive
<1>5. /\ uploads' \in [Uploads -> [state : States, archived : BOOLEAN, replaces : Existing]]
      /\ \A v \in Uploads : /\ uploads'[v].replaces = uploads[v].replaces
                            /\ uploads[v].archived => uploads'[v].archived
  <2>1. ASSUME NEW u \in Uploads, NEW x \in States
        PROVE  LET l == [uploads[u] EXCEPT !.state = x] IN
               /\ l \in [state : States, archived : BOOLEAN, replaces : Existing]
               /\ l.replaces = uploads[u].replaces /\ l.archived = uploads[u].archived
    BY <1>1
  <2>2. ASSUME NEW u \in Uploads
        PROVE  LET l == [uploads[u] EXCEPT !.archived = TRUE] IN
               /\ l \in [state : States, archived : BOOLEAN, replaces : Existing]
               /\ l.replaces = uploads[u].replaces /\ l.archived
    BY <1>1
  <2>3. \/ uploads' = uploads
        \/ \E u \in Uploads, x \in States : uploads' = [uploads EXCEPT ![u] = [uploads[u] EXCEPT !.state = x]]
        \/ \E u \in Uploads : uploads' = [uploads EXCEPT ![u] = [uploads[u] EXCEPT !.archived = TRUE]]
    <3>1. CASE Panel!Restart \/ \E u \in Uploads : Panel!WorkStops(u)
      BY <3>1 DEF Panel!Restart, Panel!WorkStops
    <3>2. ASSUME NEW u \in Uploads, Panel!Work(u)
          PROVE  uploads' = uploads \/ \E x \in States : uploads' = [uploads EXCEPT ![u] = [uploads[u] EXCEPT !.state = x]]
      BY <1>1, <3>2 DEF Panel!Work, States
    <3>3. ASSUME NEW u \in Uploads, Panel!Archive(u)
          PROVE  uploads' = [uploads EXCEPT ![u] = [uploads[u] EXCEPT !.archived = TRUE]]
      BY <1>1, <3>3 DEF Panel!Archive
    <3> QED BY <3>1, <3>2, <3>3
  <2>4. CASE uploads' = uploads
    BY <1>1, <2>4
  <2>5. ASSUME NEW u \in Uploads, NEW x \in States, uploads' = [uploads EXCEPT ![u] = [uploads[u] EXCEPT !.state = x]]
        PROVE  /\ uploads' \in [Uploads -> [state : States, archived : BOOLEAN, replaces : Existing]]
               /\ \A v \in Uploads : /\ uploads'[v].replaces = uploads[v].replaces
                                     /\ uploads[v].archived => uploads'[v].archived
    <3> DEFINE l == [uploads[u] EXCEPT !.state = x]
    <3>1. /\ l \in [state : States, archived : BOOLEAN, replaces : Existing]
          /\ l.replaces = uploads[u].replaces /\ l.archived = uploads[u].archived
      BY <2>1
    <3>2. uploads' = [uploads EXCEPT ![u] = l]
      BY <2>5
    <3> HIDE DEF l
    <3> QED BY <1>1, <3>1, <3>2
  <2>6. ASSUME NEW u \in Uploads, uploads' = [uploads EXCEPT ![u] = [uploads[u] EXCEPT !.archived = TRUE]]
        PROVE  /\ uploads' \in [Uploads -> [state : States, archived : BOOLEAN, replaces : Existing]]
               /\ \A v \in Uploads : /\ uploads'[v].replaces = uploads[v].replaces
                                     /\ uploads[v].archived => uploads'[v].archived
    <3> DEFINE l == [uploads[u] EXCEPT !.archived = TRUE]
    <3>1. /\ l \in [state : States, archived : BOOLEAN, replaces : Existing]
          /\ l.replaces = uploads[u].replaces /\ l.archived
      BY <2>2
    <3>2. uploads' = [uploads EXCEPT ![u] = l]
      BY <2>6
    <3> HIDE DEF l
    <3> QED BY <1>1, <3>1, <3>2
  <2> QED BY <2>3, <2>4, <2>5, <2>6
<1>6. ReplacedGone'
  BY <1>1, <1>5 DEF PanelInv, ReplacedGone, Existing
<1>7. Panel!ReplacedOnce'
  BY <1>5 DEF PanelInv, Panel!ReplacedOnce
<1> QED BY <1>2, <1>3, <1>4, <1>5, <1>6, <1>7, UploadsMove

(* The panel begins with an upload that failed or is at work, or is at     *)
(* rest.                                                                   *)
LEMMA PanelBegins == Panel!Init \/ PanelAtRest => PanelInv
<1>1. 0 \in Existing /\ 0 \notin Uploads
  BY WebAssumption DEF Existing
<1>2. Panel!Absent \in [state : States, archived : BOOLEAN, replaces : Existing] /\ Panel!Absent.replaces = 0
      /\ \A x \in States : LET l == [Panel!Absent EXCEPT !.state = x] IN
           l \in [state : States, archived : BOOLEAN, replaces : Existing] /\ l.replaces = 0
  BY <1>1 DEF Panel!Absent, Panel!None, States
<1>3. Panel!NoSubmit \in Submissions
  BY <1>1 DEF Panel!NoSubmit, Panel!None, Submissions
<1>4. Panel!NoView \in [id : Existing, state : States \cup {"none"}] /\ Panel!NoView.state = "none"
  BY <1>1 DEF Panel!NoView, Panel!None
<1>5. ASSUME Panel!Init PROVE PanelInv
  <2>1. PICK state \in {"failed_retryable", "working"} :
          /\ uploads = [u \in Uploads |-> IF u = 1 THEN [Panel!Absent EXCEPT !.state = state] ELSE Panel!Absent]
          /\ scheduled = IF state = "working" THEN {1} ELSE {}
    BY <1>5 DEF Panel!Init
  <2> DEFINE l == [Panel!Absent EXCEPT !.state = state]
  <2>2. l \in [state : States, archived : BOOLEAN, replaces : Existing] /\ l.replaces = 0
    BY <1>2 DEF States
  <2>3. uploads = [u \in Uploads |-> IF u = 1 THEN l ELSE Panel!Absent]
    BY <2>1
  <2> HIDE DEF l
  <2>4. uploads \in [Uploads -> [state : States, archived : BOOLEAN, replaces : Existing]]
        /\ \A u \in Uploads : uploads[u].replaces = 0
    BY <1>2, <2>2, <2>3
  <2>5. scheduled \subseteq Uploads
    BY <2>1, WebAssumption
  <2>6. panel \in Panels /\ panel.shown = Panel!NoView
    BY <1>1, <1>4, <1>5 DEF Panel!Init, Panel!None, Panels
  <2>7. submits \in [Submits -> Submissions] /\ get \in Waits /\ poll \in Waits /\ outlineGet \in Waits
    BY <1>3, <1>5 DEF Panel!Init, Waits
  <2>8. PanelTyped
    BY <2>4, <2>5, <2>6, <2>7 DEF PanelTyped
  <2>9. ReplacedGone /\ Panel!ReplacedOnce /\ Panel!Polled
    BY <1>4, <2>4, <2>6 DEF ReplacedGone, Panel!ReplacedOnce, Panel!None, Panel!Polled,
       Panel!PolledStates
  <2> QED BY <2>8, <2>9 DEF PanelInv
<1>6. ASSUME PanelAtRest PROVE PanelInv
  <2>1. uploads \in [Uploads -> [state : States, archived : BOOLEAN, replaces : Existing]]
        /\ \A u \in Uploads : uploads[u].replaces = 0
    BY <1>2, <1>6 DEF PanelAtRest
  <2>2. panel \in Panels /\ panel.shown = Panel!NoView
    BY <1>1, <1>4, <1>6 DEF PanelAtRest, Panels
  <2>3. submits \in [Submits -> Submissions] /\ get \in Waits /\ poll \in Waits /\ outlineGet \in Waits
        /\ scheduled \subseteq Uploads
    BY <1>3, <1>6 DEF PanelAtRest, Waits
  <2>4. PanelTyped
    BY <2>1, <2>2, <2>3 DEF PanelTyped
  <2>5. ReplacedGone /\ Panel!ReplacedOnce /\ Panel!Polled
    BY <1>4, <2>1, <2>2 DEF ReplacedGone, Panel!ReplacedOnce, Panel!None, Panel!Polled,
       Panel!PolledStates
  <2> QED BY <2>4, <2>5 DEF PanelInv
<1> QED BY <1>5, <1>6

(* Every step of the panel and of its service keeps the invariant. *)
LEMMA PanelNext == PanelInv /\ [Panel!Next]_panelVars => PanelInv'
<1> SUFFICES ASSUME PanelInv, [Panel!Next]_panelVars PROVE PanelInv'
  OBVIOUS
<1>1. CASE Panel!Steps
  <2>1. CASE Panel!ApprovalsAnswered \/ Panel!OutlineTimer \/ Panel!OutlineAnswered
    BY <2>1, PanelWaits
  <2>2. CASE Panel!StartTracking \/ Panel!TrackedAnswered
    BY <2>2, TrackingKeeps
  <2>3. ASSUME NEW s \in Submits,
               \/ Panel!SubmitToken(s) \/ Panel!Create(s) \/ Panel!Check(s) \/ Panel!Put(s)
               \/ Panel!Commit(s) \/ Panel!Reread(s) \/ Panel!SubmitAnswered(s)
        PROVE  PanelInv'
    BY <2>3, SubmissionsKeep, CommitKeeps
  <2> QED BY <1>1, <2>1, <2>2, <2>3 DEF Panel!Steps
<1>2. CASE Panel!Polls
  BY <1>2, PanelWaits, TrackingKeeps DEF Panel!Polls
<1>3. CASE Panel!Works
  BY <1>3, ServiceKeeps DEF Panel!Works
<1>4. CASE \/ Panel!ApprovalsFail \/ Panel!RetryApprovals \/ Panel!TrackAgain \/ Panel!TrackedFails
           \/ Panel!PollFails \/ Panel!OutlineFails \/ Panel!ChooseFile
  BY <1>4, PanelWaits
<1>5. ASSUME NEW u \in Uploads \cup {Panel!None}, Panel!Track(u) PROVE PanelInv'
  BY <1>5, PanelWaits DEF Existing, Panel!None
<1>6. ASSUME NEW u \in Uploads, Panel!Archive(u) \/ Panel!WorkStops(u) PROVE PanelInv'
  BY <1>6, ServiceKeeps
<1>7. ASSUME NEW s \in Submits,
             Panel!Submit(s) \/ Panel!SubmitFails(s) \/ Panel!SubmitLost(s) \/ Panel!SubmitUnread(s)
      PROVE  PanelInv'
  BY <1>7, SubmissionsKeep
<1>8. CASE Panel!Restart
  BY <1>8, ServiceKeeps
<1>9. CASE UNCHANGED panelVars
  BY <1>9, PanelStays DEF panelVars, PanelInv, PanelTyped
<1> QED BY <1>1, <1>2, <1>3, <1>4, <1>5, <1>6, <1>7, <1>8, <1>9 DEF Panel!Next

(* What the run checks follows from the invariant. *)
LEMMA PanelImplies == PanelInv => Panel!UploadsTracked
  BY DEF PanelInv, PanelTyped, States, Existing, Panels, Waits, Panel!UploadsTracked,
     Panel!TypeOK, Panel!None

(* Loads, selections and moves in the history overlap, and the dashboard   *)
(* shows the selected course, of the address, with its own progress        *)
(* (account-shell.tsx); a failed upload is replaced once, and one that is  *)
(* shown at work is asked about (demo-upload-panel.tsx, demo-upload.ts).   *)
THEOREM DashboardIsSound == WebSpec => []DashboardSound
<1>1. WebInit => ShellInv /\ PanelInv
  BY ShellBegins, PanelBegins DEF WebInit
<1>2. ShellInv /\ PanelInv /\ [WebNext]_<<side, shellVars, panelVars>> => ShellInv' /\ PanelInv'
  <2>1. [WebNext]_<<side, shellVars, panelVars>> => [Shell!Next]_shellVars /\ [Panel!Next]_panelVars
    BY DEF WebNext
  <2> QED BY <2>1, ShellNext, PanelNext
<1>3. ShellInv /\ PanelInv => DashboardSound
  BY ShellImplies, PanelImplies DEF DashboardSound
<1> QED BY <1>1, <1>2, <1>3, PTL DEF WebSpec
=============================================================================

----------------------- MODULE CourseProcessingProofs -----------------------
(***************************************************************************)
(* The safety of CourseProcessing for any set of overlapping processes and *)
(* any budgets.  TypeOK, HistoriesAgree, DocumentFollows and CourseFollows *)
(* are inductive together with what a process may count on at its call:    *)
(* a process that generates has a parsed document, one that finalizes has  *)
(* an outcome to write.                                                    *)
(* The second part is about the builds of the curriculum that such         *)
(* processes run, CurriculumSound and CurriculumStands.                    *)
(***************************************************************************)
EXTENDS MCCourseProcessing, TLAPS

(* An operation row and its history. *)
RowOK(op, log, max) ==
    /\ op \in [state : OpStates, lease : {"none", "live", "lapsed"}, tries : 0..max]
    /\ log \in [1..max -> LogEntries]
    /\ op.state = "processing" <=> op.lease # "none"
    /\ LogAgrees(op, log)

RowsOK == RowOK(ing, ingLog, MaxIngest) /\ RowOK(gen, genLog, MaxGenerate)

(* The types of what is not a row. *)
RestOK ==
    /\ result \in Outcomes \cup {"none"}
    /\ source \in {"quarantined", "queued", "parsing", "parsed", "ocr_required", "failed"}
    /\ course \in {"generating", "ready", "failed", "archived"}
    /\ pc \in [Processes -> Calls]
    /\ round \in [Processes -> 1..(MaxIngest + 1)]
    /\ proposed \in [Processes -> Outcomes \cup {"none"}]

WorldOK == overdue \subseteq {"ing", "gen"} /\ allowed \in BOOLEAN /\ activated \in BOOLEAN

(* What is known at the call a process awaits. *)
CallsKnow ==
    \A p \in Processes :
        /\ pc[p] \in {"build", "complete", "fail"} => source = "parsed"
        /\ pc[p] \in {"publish", "finalize"} => proposed[p] # "none"

(* The inductive invariant. *)
CourseInv == RowsOK /\ RestOK /\ WorldOK /\ DocumentFollows /\ CourseFollows /\ CallsKnow

(* A row that is taken has the next attempt open in its history, and every *)
(* earlier one closed.                                                     *)
LEMMA TakenAgrees ==
    ASSUME NEW max \in Nat, NEW op, NEW log, RowOK(op, log, max),
           op.state \in Unfinished, op.tries < max
    PROVE  RowOK(Taken(op), Started(Closed(log, op, "retry_scheduled"), op), max)
  BY DEF RowOK, Taken, Started, Closed, LogAgrees, OpStates, Unfinished, Terminal, LogEntries

(* A row that is ended has its last attempt closed with the state it ends  *)
(* in, if that attempt was open.                                           *)
LEMMA EndedAgrees ==
    ASSUME NEW max \in Nat, NEW op, NEW log, NEW s \in Terminal \cup {"retry_scheduled"},
           RowOK(op, log, max),
           op.state = "processing" \/ (op.state \in Unfinished /\ s # "retry_scheduled")
    PROVE  RowOK(Ended(op, s), Closed(log, op, s), max)
  BY DEF RowOK, Ended, Closed, LogAgrees, OpStates, Unfinished, Terminal, LogEntries

(* A lease that lapses changes nothing else of the row. *)
LEMMA LapsedAgrees ==
    ASSUME NEW max \in Nat, NEW op, NEW log, RowOK(op, log, max), Live(op)
    PROVE  RowOK([op EXCEPT !.lease = "lapsed"], log, max)
  BY DEF RowOK, Live, LogAgrees

(* The rows create commits satisfy the invariant. *)
LEMMA InitHolds == Init => CourseInv
  <1> SUFFICES ASSUME Init PROVE CourseInv
    OBVIOUS
  <1>1. RowsOK
    BY BudgetAssumption DEF Init, Fresh, RowsOK, RowOK, LogAgrees, OpStates, LogEntries
  <1>2. RestOK
    BY BudgetAssumption DEF Init, RestOK, Calls, Outcomes
  <1>3. WorldOK
    BY Zenon DEF Init, WorldOK
  <1>4. DocumentFollows /\ CourseFollows /\ CallsKnow
    BY DEF Init, Fresh, DocumentFollows, CourseFollows, CallsKnow, Terminal
  <1> QED
    BY <1>1, <1>2, <1>3, <1>4 DEF CourseInv

(* The calls of the ingestion preserve the invariant. *)
LEMMA IngestsKeep ==
    ASSUME CourseInv, NEW p \in Processes, Ingests(p)
    PROVE  CourseInv'
  <1> USE BudgetAssumption DEF CourseInv
  <1>1. CASE IngestDone(p)
    <2>1. RowsOK'
      BY <1>1 DEF IngestDone, dbVars, RowsOK
    <2>2. RestOK'
      BY <1>1 DEF IngestDone, dbVars, worldVars, RestOK, Goto, Calls, Outcomes, Reports
    <2>3. WorldOK'
      BY <1>1, Zenon DEF IngestDone, worldVars, WorldOK
    <2>4. (DocumentFollows /\ CourseFollows /\ CallsKnow)'
      BY <1>1 DEF IngestDone, dbVars, worldVars, RestOK, Goto, DocumentFollows, CourseFollows,
         CallsKnow, Terminal, Outcomes, Reports
    <2> QED
      BY <2>1, <2>2, <2>3, <2>4 DEF CourseInv
  <1>2. CASE IngestExhausted(p)
    <2>1. RowsOK'
      BY <1>2, EndedAgrees, SMT DEF IngestExhausted, RowsOK, Terminal
    <2>2. RestOK'
      BY <1>2 DEF IngestExhausted, dbVars, worldVars, RestOK, Goto, Calls, Outcomes
    <2>3. WorldOK'
      BY <1>2, Zenon DEF IngestExhausted, worldVars, WorldOK
    <2>4. (DocumentFollows /\ CourseFollows /\ CallsKnow)'
      BY <1>2 DEF IngestExhausted, dbVars, worldVars, RestOK, Goto, DocumentFollows,
         CourseFollows, CallsKnow, Terminal, Outcomes, Ended, Unfinished
    <2> QED
      BY <2>1, <2>2, <2>3, <2>4 DEF CourseInv
  <1>3. CASE IngestClaim(p)
    <2>1. RowsOK'
      BY <1>3, TakenAgrees DEF IngestClaim, Spent, RowsOK, RowOK
    <2>2. RestOK'
      BY <1>3 DEF IngestClaim, dbVars, worldVars, RestOK, Goto, Calls, Outcomes
    <2>3. WorldOK'
      BY <1>3, Zenon DEF IngestClaim, worldVars, WorldOK
    <2>4. (DocumentFollows /\ CourseFollows /\ CallsKnow)'
      BY <1>3 DEF IngestClaim, dbVars, worldVars, RestOK, Goto, DocumentFollows,
         CourseFollows, CallsKnow, Terminal, Outcomes, Taken, Unfinished, OpStates
    <2> QED
      BY <2>1, <2>2, <2>3, <2>4 DEF CourseInv
  <1>4. CASE Resolve(p)
    <2>1. RowsOK'
      BY <1>4 DEF Resolve, RowsOK
    <2>2. RestOK'
      BY <1>4 DEF Resolve, dbVars, worldVars, RestOK, Goto, Calls, Outcomes, Propose
    <2>3. WorldOK'
      BY <1>4, Zenon DEF Resolve, worldVars, WorldOK
    <2>4. (DocumentFollows /\ CourseFollows /\ CallsKnow)'
      BY <1>4 DEF Resolve, dbVars, worldVars, RestOK, Goto, DocumentFollows, CourseFollows,
         CallsKnow, Terminal, Outcomes, Propose, Resolvable, Live
    <2> QED
      BY <2>1, <2>2, <2>3, <2>4 DEF CourseInv
  <1>5. CASE Parse(p)
    <2>1. RowsOK'
      BY <1>5 DEF Parse, dbVars, RowsOK
    <2>2. RestOK'
      BY <1>5 DEF Parse, dbVars, worldVars, RestOK, Goto, Calls, Outcomes, Propose
    <2>3. WorldOK'
      BY <1>5, Zenon DEF Parse, worldVars, WorldOK
    <2>4. (DocumentFollows /\ CourseFollows /\ CallsKnow)'
      BY <1>5 DEF Parse, dbVars, worldVars, RestOK, Goto, DocumentFollows, CourseFollows,
         CallsKnow, Terminal, Outcomes, Propose
    <2> QED
      BY <2>1, <2>2, <2>3, <2>4 DEF CourseInv
  <1>6. CASE Publish(p)
    <2>1. RowsOK'
      BY <1>6 DEF Publish, RowsOK
    <2>2. RestOK'
      BY <1>6 DEF Publish, dbVars, worldVars, RestOK, Goto, Calls, Outcomes, Propose
    <2>3. WorldOK'
      BY <1>6, Zenon DEF Publish, worldVars, WorldOK
    <2>4. (DocumentFollows /\ CourseFollows /\ CallsKnow)'
      BY <1>6 DEF Publish, dbVars, worldVars, RestOK, Goto, DocumentFollows, CourseFollows,
         CallsKnow, Terminal, Outcomes, Propose, Resolvable, Live
    <2> QED
      BY <2>1, <2>2, <2>3, <2>4 DEF CourseInv
  <1>7. CASE Finalize(p)
    <2>1. RowsOK'
      BY <1>7, EndedAgrees DEF Finalize, Finalizable, Live, IngestState, RowsOK, Terminal
    <2>2. RestOK'
      BY <1>7 DEF Finalize, dbVars, worldVars, RestOK, Goto, Calls, Outcomes, Reports, CallsKnow
    <2>3. WorldOK'
      BY <1>7, Zenon DEF Finalize, worldVars, WorldOK
    <2>4. (DocumentFollows /\ CourseFollows /\ CallsKnow)'
      BY <1>7 DEF Finalize, dbVars, worldVars, RestOK, Goto, DocumentFollows, CourseFollows,
         CallsKnow, Terminal, Outcomes, Reports, Finalizable, Live, Ended, IngestState
    <2> QED
      BY <2>1, <2>2, <2>3, <2>4 DEF CourseInv
  <1>8. CASE Readback(p)
    <2>1. RowsOK'
      BY <1>8 DEF Readback, dbVars, RowsOK
    <2>2. RestOK'
      BY <1>8 DEF Readback, dbVars, worldVars, RestOK, Goto, Calls, Outcomes, Reports
    <2>3. WorldOK'
      BY <1>8, Zenon DEF Readback, worldVars, WorldOK
    <2>4. (DocumentFollows /\ CourseFollows /\ CallsKnow)'
      BY <1>8 DEF Readback, dbVars, worldVars, RestOK, Goto, DocumentFollows, CourseFollows,
         CallsKnow, Terminal, Outcomes, Reports
    <2> QED
      BY <2>1, <2>2, <2>3, <2>4 DEF CourseInv
  <1> QED
    BY <1>1, <1>2, <1>3, <1>4, <1>5, <1>6, <1>7, <1>8 DEF Ingests

(* The calls of the generation preserve the invariant. *)
LEMMA GeneratesKeep ==
    ASSUME CourseInv, NEW p \in Processes, Generates(p)
    PROVE  CourseInv'
  <1> USE BudgetAssumption DEF CourseInv
  <1>1. CASE GenerateDone(p)
    <2>1. RowsOK'
      BY <1>1, EndedAgrees DEF GenerateDone, RowsOK, Terminal
    <2>2. RestOK'
      BY <1>1 DEF GenerateDone, dbVars, worldVars, RestOK, Goto, Calls, Outcomes
    <2>3. WorldOK'
      BY <1>1, Zenon DEF GenerateDone, Activates, WorldOK
    <2>4. (DocumentFollows /\ CourseFollows /\ CallsKnow)'
      BY <1>1 DEF GenerateDone, dbVars, worldVars, RestOK, Goto, DocumentFollows,
         CourseFollows, CallsKnow, Terminal, Outcomes, Ended, Unfinished
    <2> QED
      BY <2>1, <2>2, <2>3, <2>4 DEF CourseInv
  <1>2. CASE GenerateExhausted(p)
    <2>1. RowsOK'
      BY <1>2, EndedAgrees DEF GenerateExhausted, Generatable, RowsOK, Terminal
    <2>2. RestOK'
      BY <1>2 DEF GenerateExhausted, dbVars, worldVars, RestOK, Goto, Calls, Outcomes,
         Generatable, CourseFails
    <2>3. WorldOK'
      BY <1>2, Zenon DEF GenerateExhausted, Activates, WorldOK
    <2>4. (DocumentFollows /\ CourseFollows /\ CallsKnow)'
      BY <1>2 DEF GenerateExhausted, dbVars, worldVars, RestOK, Goto, DocumentFollows,
         CourseFollows, CallsKnow, Terminal, Outcomes, Generatable, CourseFails, Ended,
         Unfinished
    <2> QED
      BY <2>1, <2>2, <2>3, <2>4 DEF CourseInv
  <1>3. CASE GenerateClaim(p)
    <2>1. RowsOK'
      BY <1>3, TakenAgrees DEF GenerateClaim, Generatable, Spent, RowsOK, RowOK
    <2>2. RestOK'
      BY <1>3 DEF GenerateClaim, dbVars, worldVars, RestOK, Goto, Calls, Outcomes, Generatable
    <2>3. WorldOK'
      BY <1>3, Zenon DEF GenerateClaim, worldVars, WorldOK
    <2>4. (DocumentFollows /\ CourseFollows /\ CallsKnow)'
      BY <1>3 DEF GenerateClaim, dbVars, worldVars, RestOK, Goto, DocumentFollows,
         CourseFollows, CallsKnow, Terminal, Outcomes, Generatable, Taken, Unfinished,
         OpStates
    <2> QED
      BY <2>1, <2>2, <2>3, <2>4 DEF CourseInv
  <1>4. CASE Build(p)
    <2>1. RowsOK'
      BY <1>4 DEF Build, RowsOK
    <2>2. RestOK'
      BY <1>4 DEF Build, dbVars, worldVars, RestOK, Goto, Calls, Outcomes, Propose
    <2>3. WorldOK'
      BY <1>4, Zenon DEF Build, worldVars, WorldOK
    <2>4. (DocumentFollows /\ CourseFollows /\ CallsKnow)'
      BY <1>4 DEF Build, dbVars, worldVars, RestOK, Goto, DocumentFollows, CourseFollows,
         CallsKnow, Terminal, Outcomes, Propose
    <2> QED
      BY <2>1, <2>2, <2>3, <2>4 DEF CourseInv
  <1>5. CASE Complete(p)
    <2>1. RowsOK'
      BY <1>5, EndedAgrees DEF Complete, Live, RowsOK, Terminal
    <2>2. RestOK'
      BY <1>5 DEF Complete, dbVars, worldVars, RestOK, Goto, Calls, Outcomes, Propose
    <2>3. WorldOK'
      BY <1>5, Zenon DEF Complete, Activates, WorldOK
    <2>4. (DocumentFollows /\ CourseFollows /\ CallsKnow)'
      BY <1>5 DEF Complete, dbVars, worldVars, RestOK, Goto, DocumentFollows, CourseFollows,
         CallsKnow, Terminal, Outcomes, Propose, Ended, Live
    <2> QED
      BY <2>1, <2>2, <2>3, <2>4 DEF CourseInv
  <1>6. CASE FailGeneration(p)
    <2>1. RowsOK'
      BY <1>6, EndedAgrees DEF FailGeneration, Live, RowsOK, Terminal
    <2>2. RestOK'
      BY <1>6 DEF FailGeneration, dbVars, worldVars, RestOK, Goto, Calls, Outcomes, CourseFails
    <2>3. WorldOK'
      BY <1>6, Zenon DEF FailGeneration, worldVars, WorldOK
    <2>4. (DocumentFollows /\ CourseFollows /\ CallsKnow)'
      BY <1>6 DEF FailGeneration, dbVars, worldVars, RestOK, Goto, DocumentFollows,
         CourseFollows, CallsKnow, Terminal, Outcomes, CourseFails, Ended, Live
    <2> QED
      BY <2>1, <2>2, <2>3, <2>4 DEF CourseInv
  <1> QED
    BY <1>1, <1>2, <1>3, <1>4, <1>5, <1>6 DEF Generates

(* Scheduling, dropping and refusing work preserve the invariant. *)
LEMMA CallsKeep ==
    ASSUME CourseInv, NEW p \in Processes, Schedule(p) \/ Drop(p) \/ Refused(p)
    PROVE  CourseInv'
  <1> USE BudgetAssumption DEF CourseInv
  <1>1. CASE Schedule(p)
    <2>1. RowsOK'
      BY <1>1 DEF Schedule, dbVars, RowsOK
    <2>2. RestOK'
      BY <1>1 DEF Schedule, dbVars, worldVars, RestOK, Goto, Calls, Outcomes
    <2>3. WorldOK'
      BY <1>1, Zenon DEF Schedule, worldVars, WorldOK
    <2>4. (DocumentFollows /\ CourseFollows /\ CallsKnow)'
      BY <1>1 DEF Schedule, dbVars, worldVars, RestOK, Goto, DocumentFollows, CourseFollows,
         CallsKnow, Terminal, Outcomes
    <2> QED
      BY <2>1, <2>2, <2>3, <2>4 DEF CourseInv
  <1>2. CASE Drop(p)
    <2>1. RowsOK'
      BY <1>2 DEF Drop, dbVars, RowsOK
    <2>2. RestOK'
      BY <1>2 DEF Drop, dbVars, worldVars, RestOK, Goto, Calls, Outcomes
    <2>3. WorldOK'
      BY <1>2, Zenon DEF Drop, worldVars, WorldOK
    <2>4. (DocumentFollows /\ CourseFollows /\ CallsKnow)'
      BY <1>2 DEF Drop, dbVars, worldVars, RestOK, Goto, DocumentFollows, CourseFollows,
         CallsKnow, Terminal, Outcomes
    <2> QED
      BY <2>1, <2>2, <2>3, <2>4 DEF CourseInv
  <1>3. CASE Refused(p)
    <2>1. RowsOK'
      BY <1>3 DEF Refused, dbVars, RowsOK
    <2>2. RestOK'
      BY <1>3 DEF Refused, dbVars, worldVars, RestOK, Goto, Calls, Outcomes
    <2>3. WorldOK'
      BY <1>3, Zenon DEF Refused, worldVars, WorldOK
    <2>4. (DocumentFollows /\ CourseFollows /\ CallsKnow)'
      BY <1>3 DEF Refused, dbVars, worldVars, RestOK, Goto, DocumentFollows, CourseFollows,
         CallsKnow, Terminal, Outcomes
    <2> QED
      BY <2>1, <2>2, <2>3, <2>4 DEF CourseInv
  <1> QED
    BY <1>1, <1>2, <1>3

(* Time, withdrawal of access and a replacement preserve the invariant. *)
LEMMA WorldKeeps ==
    ASSUME CourseInv, LeaseLapse \/ DeadlinePass \/ Withdraw \/ Replace
    PROVE  CourseInv'
  <1> USE BudgetAssumption DEF CourseInv
  <1>1. CASE LeaseLapse
    <2>1. RowsOK'
      BY <1>1, LapsedAgrees DEF LeaseLapse, RowsOK
    <2>2. RestOK'
      BY <1>1 DEF LeaseLapse, dbVars, worldVars, RestOK, Goto, Calls, Outcomes
    <2>3. WorldOK'
      BY <1>1, Zenon DEF LeaseLapse, worldVars, WorldOK
    <2>4. (DocumentFollows /\ CourseFollows /\ CallsKnow)'
      BY <1>1 DEF LeaseLapse, dbVars, worldVars, RestOK, Goto, DocumentFollows, CourseFollows,
         CallsKnow, Terminal, Outcomes, Live, RowsOK, RowOK, OpStates
    <2> QED
      BY <2>1, <2>2, <2>3, <2>4 DEF CourseInv
  <1>2. CASE DeadlinePass
    <2>1. RowsOK'
      BY <1>2 DEF DeadlinePass, dbVars, RowsOK
    <2>2. RestOK'
      BY <1>2 DEF DeadlinePass, dbVars, worldVars, RestOK, Goto, Calls, Outcomes
    <2>3. WorldOK'
      BY <1>2, Zenon DEF DeadlinePass, WorldOK
    <2>4. (DocumentFollows /\ CourseFollows /\ CallsKnow)'
      BY <1>2 DEF DeadlinePass, dbVars, worldVars, RestOK, Goto, DocumentFollows,
         CourseFollows, CallsKnow, Terminal, Outcomes
    <2> QED
      BY <2>1, <2>2, <2>3, <2>4 DEF CourseInv
  <1>3. CASE Withdraw
    <2>1. RowsOK'
      BY <1>3 DEF Withdraw, dbVars, RowsOK
    <2>2. RestOK'
      BY <1>3 DEF Withdraw, dbVars, worldVars, RestOK, Goto, Calls, Outcomes
    <2>3. WorldOK'
      BY <1>3, Zenon DEF Withdraw, WorldOK
    <2>4. (DocumentFollows /\ CourseFollows /\ CallsKnow)'
      BY <1>3 DEF Withdraw, dbVars, worldVars, RestOK, Goto, DocumentFollows, CourseFollows,
         CallsKnow, Terminal, Outcomes
    <2> QED
      BY <2>1, <2>2, <2>3, <2>4 DEF CourseInv
  <1>4. CASE Replace
    <2>1. RowsOK'
      BY <1>4 DEF Replace, RowsOK
    <2>2. RestOK'
      BY <1>4 DEF Replace, dbVars, worldVars, RestOK, Goto, Calls, Outcomes
    <2>3. WorldOK'
      BY <1>4, Zenon DEF Replace, worldVars, WorldOK
    <2>4. (DocumentFollows /\ CourseFollows /\ CallsKnow)'
      BY <1>4 DEF Replace, dbVars, worldVars, RestOK, Goto, DocumentFollows, CourseFollows,
         CallsKnow, Terminal, Outcomes
    <2> QED
      BY <2>1, <2>2, <2>3, <2>4 DEF CourseInv
  <1> QED
    BY <1>1, <1>2, <1>3, <1>4

(* Every step preserves the invariant, whichever processes overlap. *)
LEMMA NextKeeps == CourseInv /\ [Next]_vars => CourseInv'
  <1> SUFFICES ASSUME CourseInv, [Next]_vars PROVE CourseInv'
    OBVIOUS
  <1>1. CASE UNCHANGED vars
    BY <1>1 DEF vars, dbVars, worldVars, CourseInv, RowsOK, RestOK, WorldOK, DocumentFollows,
       CourseFollows, CallsKnow
  <1>2. CASE LeaseLapse \/ DeadlinePass \/ Withdraw \/ Replace
    BY <1>2, WorldKeeps
  <1>3. ASSUME NEW p \in Processes,
               Schedule(p) \/ Drop(p) \/ Refused(p) \/ Ingests(p) \/ Generates(p)
        PROVE  CourseInv'
    BY <1>3, CallsKeep, IngestsKeep, GeneratesKeep
  <1> QED
    BY <1>1, <1>2, <1>3 DEF Next

(* CourseInv is an invariant of the specification. *)
THEOREM CourseInvariant == Spec => []CourseInv
  BY InitHolds, NextKeeps, PTL DEF Spec

(* Every variable keeps its type, and a row has a lease just while it is   *)
(* processing.                                                             *)
THEOREM CourseTypes == Spec => []TypeOK
  <1>1. CourseInv => TypeOK
    BY DEF CourseInv, RowsOK, RowOK, RestOK, WorldOK, TypeOK
  <1> QED
    BY <1>1, CourseInvariant, PTL

(* HistoriesAgree for any number of processes and any budgets: overlapping *)
(* claims under one lease owner leave one consistent history of attempts.  *)
THEOREM HistoriesConsistent == Spec => []HistoriesAgree
  <1>1. CourseInv => HistoriesAgree
    BY DEF CourseInv, RowsOK, RowOK, HistoriesAgree
  <1> QED
    BY <1>1, CourseInvariant, PTL

(* DocumentFollows: the document and the stored outcome say what the       *)
(* ingestion operation says.                                               *)
THEOREM DocumentFollowsOperation == Spec => []DocumentFollows
  <1>1. CourseInv => DocumentFollows
    BY DEF CourseInv
  <1> QED
    BY <1>1, CourseInvariant, PTL

(* CourseFollows: a course is decided, or archived, only as its document   *)
(* and its generation operation say.                                       *)
THEOREM CourseFollowsOperation == Spec => []CourseFollows
  <1>1. CourseInv => CourseFollows
    BY DEF CourseInv
  <1> QED
    BY <1>1, CourseInvariant, PTL

(* A step keeps an outline that is committed and an operation that is      *)
(* finished: the guards of the calls look at the row they change.          *)
LEMMA StepKeepsDecided ==
    ASSUME CourseInv, [Next]_vars
    PROVE  /\ course = "ready" => course' = "ready"
           /\ course # "generating" => course' \in {course, "archived"}
           /\ ing.state \in Terminal => ing' = ing /\ source' = source
           /\ gen.state \in Terminal => gen' = gen
  <1> USE DEF CourseInv, DocumentFollows, CourseFollows, Terminal, Unfinished, OpStates
  <1>1. CASE UNCHANGED vars
    BY <1>1 DEF vars, dbVars
  <1>2. CASE LeaseLapse \/ DeadlinePass \/ Withdraw \/ Replace
    BY <1>2 DEF LeaseLapse, DeadlinePass, Withdraw, Replace, dbVars, Live
  <1>3. ASSUME NEW p \in Processes, Schedule(p) \/ Drop(p) \/ Refused(p)
        PROVE  UNCHANGED dbVars
    BY <1>3 DEF Schedule, Drop, Refused
  <1>4. ASSUME NEW p \in Processes, Ingests(p)
        PROVE  /\ UNCHANGED <<gen, course>>
               /\ ing.state \in Terminal => UNCHANGED <<ing, source>>
    BY <1>4 DEF Ingests, IngestDone, IngestExhausted, IngestClaim, Resolve, Parse, Publish,
       Finalize, Readback, Resolvable, Finalizable, Live, dbVars
  <1>5. ASSUME NEW p \in Processes, Generates(p)
        PROVE  /\ UNCHANGED <<ing, source>>
               /\ gen.state \in Terminal => gen' = gen
               /\ course' # course => course = "generating"
    BY <1>5 DEF Generates, GenerateDone, GenerateExhausted, GenerateClaim, Build, Complete,
       FailGeneration, Generatable, CourseFails, Live
  <1> QED
    BY <1>1, <1>2, <1>3, <1>4, <1>5 DEF Next, dbVars

(* DecidedStays: no stale process and no replacement reopens or reverses   *)
(* what is decided.                                                        *)
THEOREM DecidedForever == Spec => DecidedStays
  BY CourseInvariant, StepKeepsDecided, PTL DEF Spec, DecidedStays

(* RowsAgree, what the run of overlapping claims checks: the histories of  *)
(* both operations, the document and the course tell one story, whatever   *)
(* the number of processes, the budget of deliveries and the claims.       *)
THEOREM CourseRowsAgree == Spec => []RowsAgree
  BY CourseTypes, HistoriesConsistent, DocumentFollowsOperation,
     CourseFollowsOperation, PTL DEF RowsAgree

(***************************************************************************)
(* The builds of a curriculum (B, CurriculumBuild), which overlap at will. *)
(* CurriculumSound is inductive together with what a call may count on at  *)
(* its step (CallKnows), that an embedding belongs to one call, and that a *)
(* curriculum is over an embedding which was activated.                    *)
(***************************************************************************)
(* The steps at which a call is under way, and the phases of a segment     *)
(* that a worker has.                                                      *)
Places == {"embed", "record", "write", "activate", "partition", "segments", "persist", "ready"}
Working == {"claimed", "answered", "failing"}

(* A row that nobody made is empty; a lease is one of an attempt. *)
RowsSound ==
    \A g \in B!Generations, i \in B!Segments :
       /\ segment[g][i].state = "none" => segment[g][i] = B!NoSegment
       /\ segment[g][i].leased => segment[g][i].state = "processing"

(* An embedding is of a call that was made; a curriculum is over an        *)
(* embedding that was activated, and a retired one over a retired one.     *)
GenerationsSound ==
    \A g \in B!Generations :
       /\ embedding[g].status # "none" => g <= calls
       /\ curriculum[g].status # "none" => embedding[g].status \in {"active", "retired"}
       /\ curriculum[g].status = "retired" => embedding[g].status = "retired"

(* What a call may count on at its step. *)
CallKnows(b) ==
    LET c == build[b] IN
    /\ c.pc # "idle" => c.call \in 1..calls
    /\ c.pc \in {"ensure", "embed", "record"} => embedding[c.call].status = "none"
    /\ c.pc \in {"record", "write", "activate"} => c.gen = c.call
    /\ c.pc \in {"write", "activate"} => embedding[c.gen].status = "building"
    /\ c.pc = "activate" => c.gen \in vectors
    /\ c.pc \in {"partition", "segments", "persist", "ready"} =>
         c.gen \in B!Generations /\ embedding[c.gen].status \in {"active", "retired"}
    /\ c.pc \in {"write", "activate", "partition", "segments", "persist", "ready"} =>
         embedding[c.gen].document = c.document

(* No two calls are the same, so that no two make the same embedding. *)
CallsDiffer ==
    \A b, c \in Processes :
       b # c /\ ~B!At(b, "idle") /\ ~B!At(c, "idle") => build[b].call # build[c].call

(* What all the processes know. *)
BuildersKnow == CallsDiffer /\ \A b \in Processes : CallKnows(b)

(* Who works on a segment does so for a call that is at the segments, on   *)
(* an attempt that was made.                                               *)
WorkersSound ==
    \A b \in Processes, i \in B!Segments :
       task[b][i].phase \in Working => B!At(b, "segments") /\ task[b][i].attempt > 0

(* The inductive invariant of the builds. *)
BuildInv ==
    /\ B!TypeOK /\ RowsSound /\ GenerationsSound /\ BuildersKnow /\ WorkersSound
    /\ B!ActiveIsSearchable /\ B!CurriculaComplete /\ B!WorkedOnOnce /\ B!ToldIsStored

(* The rows and calls of nothing have their types. *)
LEMMA EmptyTyped ==
    /\ B!NoSegment \in B!Rows /\ B!NoCall \in B!CallStates
    /\ B!NoTasks \in [B!Segments -> B!TaskStates]
    /\ [document |-> "none", status |-> "none"] \in B!Embeddings
    /\ [status |-> "none", results |-> [i \in B!Segments |-> 0]] \in B!Curricula
  BY BuildAssumption DEF B!NoSegment, B!Rows, B!NoCall, B!CallStates, B!NoTasks, B!NoTask,
     B!TaskStates, B!Embeddings, B!Curricula

(* The first state satisfies the invariant. *)
LEMMA BuildInit == B!Init => BuildInv
  <1> SUFFICES ASSUME B!Init PROVE BuildInv
    OBVIOUS
  <1> USE BuildAssumption DEF B!Init
  <1>1. B!TypeOK
    BY EmptyTyped DEF B!TypeOK, B!Generations
  <1>2. RowsSound /\ GenerationsSound
    BY DEF RowsSound, GenerationsSound, B!NoSegment
  <1>3. BuildersKnow /\ WorkersSound /\ B!WorkedOnOnce /\ B!ToldIsStored
    BY DEF BuildersKnow, CallsDiffer, CallKnows, WorkersSound, B!WorkedOnOnce, B!ToldIsStored,
       B!At, B!NoCall, B!NoTasks, B!NoTask, Working, B!Busy, B!InPhase
  <1>4. B!ActiveIsSearchable /\ B!CurriculaComplete
    BY DEF B!ActiveIsSearchable, B!CurriculaComplete, B!Generations
  <1> QED
    BY <1>1, <1>2, <1>3, <1>4 DEF BuildInv

(* A call moves, or another begins in its place, and nothing is stored:    *)
(* enough that it knows what it must at its new step.                      *)
LEMMA CallMoves ==
    ASSUME BuildInv, NEW b \in Processes, NEW c \in B!CallStates,
           build' = [build EXCEPT ![b] = c],
           task' = task \/ task' = [task EXCEPT ![b] = B!NoTasks],
           \A i \in B!Segments : task'[b][i].phase \notin Working,
           calls' \in {calls, calls + 1}, calls' <= MaxCalls, faults' \in 0..MaxFaults,
           open' \in BOOLEAN, UNCHANGED B!stored,
           CallKnows(b)', c.pc # "ready",
           c.pc # "idle" => \/ c.call = build[b].call /\ build[b].pc # "idle"
                            \/ c.call = calls + 1
    PROVE  BuildInv'
  <1> USE BuildAssumption DEF BuildInv
  <1>1. /\ build'[b] = c /\ \A x \in Processes : x # b => build'[x] = build[x] /\ task'[x] = task[x]
        /\ build' \in [Processes -> B!CallStates]
    BY DEF B!TypeOK
  <1>2. B!TypeOK'
    <2>1. /\ embedding' = embedding /\ current' = current /\ vectors' = vectors
          /\ segment' = segment /\ curriculum' = curriculum /\ active' = active
      BY DEF B!stored
    <2>2. task' \in [Processes -> [B!Segments -> B!TaskStates]]
      BY EmptyTyped DEF B!TypeOK
    <2>3. calls' \in 0..MaxCalls
      BY DEF B!TypeOK
    <2> QED
      BY <1>1, <2>1, <2>2, <2>3 DEF B!TypeOK
  <1>3. RowsSound' /\ B!ActiveIsSearchable' /\ B!CurriculaComplete'
    BY DEF RowsSound, B!ActiveIsSearchable, B!CurriculaComplete, B!stored
  <1>4. GenerationsSound'
    BY DEF GenerationsSound, B!stored, B!TypeOK, B!Generations
  <1>5. BuildersKnow'
    <2>1. ASSUME NEW x \in Processes, x # b PROVE CallKnows(x)'
      BY <1>1, <2>1 DEF BuildersKnow, CallKnows, B!stored, B!TypeOK
    <2>2. CallsDiffer'
      BY <1>1 DEF BuildersKnow, CallsDiffer, CallKnows, B!At, B!TypeOK
    <2> QED
      BY <2>1, <2>2 DEF BuildersKnow
  <1>6. WorkersSound'
    BY <1>1 DEF WorkersSound, B!At
  <1>7. \A x \in Processes, i \in B!Segments :
           i \in B!Busy(x)' => x # b /\ i \in B!Busy(x) /\ task'[x][i] = task[x][i]
                             /\ build'[x] = build[x]
    BY <1>1 DEF B!Busy, B!InPhase, Working
  <1>8. B!WorkedOnOnce'
    BY <1>7 DEF B!WorkedOnOnce, B!Row, B!stored, B!Busy, B!InPhase
  <1>9. B!ToldIsStored'
    BY <1>1 DEF B!ToldIsStored, B!At, B!Worked, B!stored
  <1> QED
    BY <1>2, <1>3, <1>4, <1>5, <1>6, <1>8, <1>9

(* Nobody works for a call that is not at its segments. *)
LEMMA RestsElsewhere ==
    ASSUME BuildInv, NEW b \in Processes, ~B!At(b, "segments")
    PROVE  \A i \in B!Segments : task[b][i].phase \notin Working
  BY DEF BuildInv, WorkersSound

(* Where a call goes: to its next step, with what it is about.             *)
LEMMA CallGoes ==
    ASSUME BuildInv, NEW b \in Processes, NEW p \in Places, B!Goto(b, p)
    PROVE  \E c \in B!CallStates :
             /\ build' = [build EXCEPT ![b] = c] /\ build'[b] = c
             /\ c.pc = p /\ c.gen = build[b].gen
             /\ c.call = build[b].call /\ c.document = build[b].document
  <1>1. build \in [Processes -> B!CallStates]
    BY DEF BuildInv, B!TypeOK
  <1>2. PICK c \in B!CallStates : c = [build[b] EXCEPT !.pc = p]
    BY <1>1 DEF B!CallStates, Places
  <1>3. build' = [build EXCEPT ![b] = c]
    BY <1>1, <1>2 DEF B!Goto
  <1>4. c.pc = p /\ c.gen = build[b].gen /\ c.call = build[b].call
        /\ c.document = build[b].document
    BY <1>1, <1>2 DEF B!CallStates
  <1> QED
    BY <1>1, <1>3, <1>4

(* The same, for a generation that it takes up. *)
LEMMA CallTakesUp ==
    ASSUME BuildInv, NEW b \in Processes, NEW p \in Places, NEW g \in 0..MaxCalls,
           B!TakeUp(b, g, p)
    PROVE  \E c \in B!CallStates :
             /\ build' = [build EXCEPT ![b] = c] /\ build'[b] = c
             /\ c.pc = p /\ c.gen = g
             /\ c.call = build[b].call /\ c.document = build[b].document
  <1>1. build \in [Processes -> B!CallStates]
    BY DEF BuildInv, B!TypeOK
  <1>2. PICK c \in B!CallStates : c = [build[b] EXCEPT !.pc = p, !.gen = g]
    BY <1>1 DEF B!CallStates, Places
  <1>3. build' = [build EXCEPT ![b] = c]
    BY <1>1, <1>2 DEF B!TakeUp
  <1>4. c.pc = p /\ c.gen = g /\ c.call = build[b].call /\ c.document = build[b].document
    BY <1>1, <1>2 DEF B!CallStates
  <1> QED
    BY <1>1, <1>3, <1>4

(* The counters and the authorization. *)
LEMMA Counters ==
    ASSUME BuildInv
    PROVE  calls \in 0..MaxCalls /\ open \in BOOLEAN /\ faults \in 0..MaxFaults /\ calls \in Nat
  BY BuildAssumption DEF BuildInv, B!TypeOK

(* A call that ends, or is not yet there, knows enough. *)
LEMMA ThrowKeeps ==
    ASSUME BuildInv, NEW b \in Processes, B!Throw(b), UNCHANGED <<open, B!stored, calls>>,
           faults' \in 0..MaxFaults
    PROVE  BuildInv'
  <1>1. B!TypeOK
    BY DEF BuildInv
  <1>2. build'[b] = B!NoCall /\ task'[b] = B!NoTasks
    BY <1>1 DEF B!Throw, B!TypeOK
  <1>3. CallKnows(b)'
    BY <1>2 DEF CallKnows, B!NoCall
  <1>4. \A i \in B!Segments : task'[b][i].phase \notin Working
    BY <1>2 DEF B!NoTasks, B!NoTask, Working
  <1>5. B!NoCall \in B!CallStates /\ B!NoCall.pc = "idle"
    BY EmptyTyped DEF B!NoCall
  <1>6. build' = [build EXCEPT ![b] = B!NoCall] /\ task' = [task EXCEPT ![b] = B!NoTasks]
    BY DEF B!Throw
  <1>7. calls' \in {calls, calls + 1} /\ calls' <= MaxCalls /\ open' \in BOOLEAN
    BY Counters, BuildAssumption
  <1>8. UNCHANGED B!stored /\ B!NoCall.pc # "ready"
    BY <1>5
  <1> QED
    BY <1>3, <1>4, <1>5, <1>6, <1>7, <1>8, CallMoves

(* The steps of a call that store nothing preserve the invariant. *)
LEMMA MovesKeep ==
    ASSUME BuildInv, NEW b \in Processes,
           B!Start(b) \/ B!Ensure(b) \/ B!EmbedDocuments(b) \/ B!Compose(b) \/ B!Refuse(b)
             \/ B!CallFails(b)
    PROVE  BuildInv'
  <1> USE BuildAssumption
  <1>1. B!TypeOK /\ CallKnows(b) /\ GenerationsSound
    BY DEF BuildInv, BuildersKnow
  <1>c. {build[b].call, build[b].gen, current} \subseteq 0..MaxCalls
    BY <1>1 DEF B!TypeOK, B!CallStates
  <1>p. {"embed", "record", "partition", "persist"} \subseteq Places
    BY DEF Places
  <1>2. CASE B!Start(b)
    <2>1. PICK d \in Documents :
            build' = [build EXCEPT ![b] = [pc |-> "ensure", call |-> calls + 1, gen |-> 0,
                                           document |-> d]]
      BY <1>2 DEF B!Start
    <2> DEFINE c == [pc |-> "ensure", call |-> calls + 1, gen |-> 0, document |-> d]
    <2>2. /\ calls < MaxCalls /\ calls' = calls + 1 /\ task' = [task EXCEPT ![b] = B!NoTasks]
          /\ UNCHANGED <<open, B!stored, faults>>
      BY <1>2 DEF B!Start
    <2>3. c \in B!CallStates
      BY <1>1, <2>2 DEF B!CallStates, B!TypeOK
    <2>4. build'[b] = c /\ task'[b] = B!NoTasks
      BY <1>1, <2>1, <2>2 DEF B!TypeOK
    <2>5. embedding[calls + 1].status = "none"
      BY <1>1, <2>2 DEF B!TypeOK, GenerationsSound, B!Generations, B!Embeddings
    <2>6. CallKnows(b)'
      BY <1>1, <2>2, <2>4, <2>5 DEF CallKnows, B!stored, B!TypeOK
    <2>7. \A i \in B!Segments : task'[b][i].phase \notin Working
      BY <2>4 DEF B!NoTasks, B!NoTask, Working
    <2>8. /\ calls' \in {calls, calls + 1} /\ calls' <= MaxCalls /\ open' \in BOOLEAN
          /\ faults' \in 0..MaxFaults /\ UNCHANGED B!stored
      BY <2>2, Counters
    <2> QED
      BY <2>1, <2>2, <2>3, <2>6, <2>7, <2>8, CallMoves
  <1>3. CASE B!Ensure(b)
    <2>1. /\ B!At(b, "ensure") /\ UNCHANGED <<open, B!stored, task, calls, faults>>
          /\ IF B!Reusable(b) THEN B!TakeUp(b, current, "partition") ELSE B!Goto(b, "embed")
      BY <1>3 DEF B!Ensure
    <2>2. PICK c \in B!CallStates :
            /\ build' = [build EXCEPT ![b] = c] /\ c.call = build[b].call
            /\ c.document = build[b].document
            /\ \/ c.pc = "partition" /\ c.gen = current /\ B!Reusable(b)
               \/ c.pc = "embed"
      <3>1. CASE B!Reusable(b)
        BY <2>1, <3>1, <1>c, <1>p, CallTakesUp
      <3>2. CASE ~B!Reusable(b)
        BY <2>1, <3>2, <1>p, CallGoes
      <3> QED
        BY <3>1, <3>2
    <2>3. build'[b] = c
      BY <1>1, <2>2 DEF B!TypeOK
    <2>4. CallKnows(b)'
      BY <1>1, <2>1, <2>2, <2>3 DEF CallKnows, B!stored, B!TypeOK, B!Reusable, B!Generations,
         B!At
    <2>5. \A i \in B!Segments : task'[b][i].phase \notin Working
      BY <2>1, RestsElsewhere DEF B!At
    <2>6. /\ calls' \in {calls, calls + 1} /\ calls' <= MaxCalls /\ open' \in BOOLEAN
          /\ faults' \in 0..MaxFaults /\ UNCHANGED B!stored /\ task' = task
          /\ build[b].pc # "idle"
      BY <2>1, Counters DEF B!At
    <2> QED
      BY <2>2, <2>4, <2>5, <2>6, CallMoves
  <1>4. CASE B!EmbedDocuments(b)
    <2>1. /\ B!At(b, "embed") /\ UNCHANGED <<open, B!stored, task, calls, faults>>
          /\ B!TakeUp(b, build[b].call, "record")
      BY <1>4 DEF B!EmbedDocuments
    <2>2. PICK c \in B!CallStates :
            /\ build' = [build EXCEPT ![b] = c] /\ c.call = build[b].call
            /\ c.pc = "record" /\ c.gen = build[b].call
      BY <2>1, <1>c, <1>p, CallTakesUp
    <2>3. build'[b] = c
      BY <1>1, <2>2 DEF B!TypeOK
    <2>4. CallKnows(b)'
      BY <1>1, <2>1, <2>2, <2>3 DEF CallKnows, B!stored, B!At
    <2>5. \A i \in B!Segments : task'[b][i].phase \notin Working
      BY <2>1, RestsElsewhere DEF B!At
    <2>6. /\ calls' \in {calls, calls + 1} /\ calls' <= MaxCalls /\ open' \in BOOLEAN
          /\ faults' \in 0..MaxFaults /\ UNCHANGED B!stored /\ task' = task
          /\ build[b].pc # "idle"
      BY <2>1, Counters DEF B!At
    <2> QED
      BY <2>2, <2>4, <2>5, <2>6, CallMoves
  <1>5. CASE B!Compose(b)
    <2>1. /\ B!At(b, "segments") /\ B!Busy(b) = {} /\ UNCHANGED <<open, B!stored, calls, faults>>
          /\ B!Throw(b) \/ (B!Goto(b, "persist") /\ task' = task)
      BY <1>5 DEF B!Compose
    <2>2. CASE B!Throw(b)
      BY <1>1, <2>1, <2>2, ThrowKeeps DEF B!TypeOK
    <2>3. CASE B!Goto(b, "persist") /\ task' = task
      <3>1. PICK c \in B!CallStates :
              /\ build' = [build EXCEPT ![b] = c] /\ c.call = build[b].call
              /\ c.pc = "persist" /\ c.gen = build[b].gen /\ c.document = build[b].document
        BY <2>3, <1>p, CallGoes
      <3>2. build'[b] = c
        BY <1>1, <3>1 DEF B!TypeOK
      <3>3. CallKnows(b)'
        BY <1>1, <2>1, <3>1, <3>2 DEF CallKnows, B!stored, B!At
      <3>4. \A i \in B!Segments : task'[b][i].phase \notin Working
        BY <2>1, <2>3 DEF B!Busy, B!InPhase, Working
      <3>5. /\ calls' \in {calls, calls + 1} /\ calls' <= MaxCalls /\ open' \in BOOLEAN
            /\ faults' \in 0..MaxFaults /\ UNCHANGED B!stored /\ build[b].pc # "idle"
        BY <2>1, Counters DEF B!At
      <3> QED
        BY <2>3, <3>1, <3>3, <3>4, <3>5, CallMoves
    <2> QED
      BY <2>1, <2>2, <2>3
  <1>6. CASE B!Refuse(b)
    BY <1>1, <1>6, ThrowKeeps DEF B!Refuse, B!TypeOK
  <1>7. CASE B!CallFails(b)
    BY <1>1, <1>7, ThrowKeeps DEF B!CallFails, B!TypeOK
  <1> QED
    BY <1>2, <1>3, <1>4, <1>5, <1>6, <1>7

(* A call stores and goes on, or throws after it has stored.  What a call  *)
(* stores of an embedding is of its own, and nothing takes an embedding    *)
(* back; hence the others still know what they know.                       *)
LEMMA CallStores ==
    ASSUME BuildInv, NEW b \in Processes, NEW c \in B!CallStates,
           build' = [build EXCEPT ![b] = c], task' = task \/ task' = [task EXCEPT ![b] = B!NoTasks],
           build[b].pc \in Places \ {"segments", "ready"},
           c.call = build[b].call \/ c.pc = "idle",
           \A i \in B!Segments : task'[b][i].phase \notin Working,
           calls' = calls, CallKnows(b)', vectors \subseteq vectors',
           \A g \in B!Generations : g # build[b].gen \/ embedding[g].status # "none" =>
              /\ embedding'[g].document = embedding[g].document
              /\ embedding[g].status = "none" => embedding'[g].status = "none"
              /\ embedding[g].status \in {"active", "retired"} =>
                   embedding'[g].status \in {"active", "retired"}
              /\ embedding[g].status = "building" /\ g # build[b].gen =>
                   embedding'[g].status = "building",
           build[b].pc \in {"record", "activate"} \/ embedding' = embedding,
           \A g \in B!Generations, i \in B!Segments : segment'[g][i].attempt = segment[g][i].attempt
    PROVE  BuildersKnow' /\ WorkersSound' /\ B!WorkedOnOnce'
  <1> USE BuildAssumption DEF BuildInv
  <1>1. build'[b] = c
    BY DEF B!TypeOK
  <1>2. \A x \in Processes : x # b => build'[x] = build[x] /\ task'[x] = task[x]
    BY DEF B!TypeOK
  <1>3. CallsDiffer'
    BY <1>1, <1>2 DEF BuildersKnow, CallsDiffer, B!At, Places
  <1>4. ASSUME NEW x \in Processes, x # b PROVE CallKnows(x)'
    <2>1. build'[x] = build[x] /\ CallKnows(x) /\ CallKnows(b) /\ build[x] \in B!CallStates
      BY <1>2, <1>4 DEF BuildersKnow, B!TypeOK
    <2>2. build[x].pc # "idle" => build[x].call # build[b].call
      BY <1>4 DEF BuildersKnow, CallsDiffer, B!At, Places
    <2> QED
      BY <2>1, <2>2 DEF CallKnows, B!Generations, B!CallStates
  <1>5. BuildersKnow'
    BY <1>3, <1>4 DEF BuildersKnow
  <1>6. WorkersSound'
    BY <1>1, <1>2 DEF WorkersSound, B!At
  <1>7. \A x \in Processes, i \in B!Segments :
           i \in B!Busy(x)' => /\ x # b /\ i \in B!Busy(x) /\ task'[x][i] = task[x][i]
                             /\ build'[x] = build[x] /\ build[x].gen \in B!Generations
    BY <1>2 DEF B!Busy, B!InPhase, Working, WorkersSound, BuildersKnow, CallKnows, B!At
  <1>8. B!WorkedOnOnce'
    BY <1>7 DEF B!WorkedOnOnce, B!Row, B!Busy, B!InPhase
  <1> QED
    BY <1>5, <1>6, <1>8

(* The new embedding is recorded. *)
LEMMA RecordKeeps ==
    ASSUME BuildInv, NEW b \in Processes, B!RecordEmbeddingGeneration(b)
    PROVE  BuildInv'
  <1> USE BuildAssumption
  <1>1. /\ B!At(b, "record") /\ B!Goto(b, "write") /\ task' = task
        /\ embedding' = [embedding EXCEPT ![build[b].gen] =
                           [document |-> build[b].document, status |-> "building"]]
        /\ open' = open /\ current' = current /\ vectors' = vectors /\ segment' = segment
        /\ curriculum' = curriculum /\ active' = active /\ calls' = calls /\ faults' = faults
    BY DEF B!RecordEmbeddingGeneration
  <1>2. PICK c \in B!CallStates :
          /\ build' = [build EXCEPT ![b] = c] /\ build'[b] = c
          /\ c.pc = "write" /\ c.gen = build[b].gen
          /\ c.call = build[b].call /\ c.document = build[b].document
    BY <1>1, CallGoes DEF Places
  <1>3. B!TypeOK /\ CallKnows(b) /\ build[b] \in B!CallStates
    BY DEF BuildInv, BuildersKnow, B!TypeOK
  <1>4. /\ build[b].gen \in B!Generations /\ build[b].gen <= calls
        /\ embedding[build[b].gen].status = "none"
    BY <1>1, <1>3 DEF B!At, CallKnows, B!Generations, B!TypeOK, B!CallStates
  <1>5. PICK e \in B!Embeddings :
          /\ e.document = build[b].document /\ e.status = "building"
          /\ embedding' = [embedding EXCEPT ![build[b].gen] = e]
    BY <1>1, <1>3 DEF B!Embeddings, B!CallStates
  <1>6. /\ embedding' \in [B!Generations -> B!Embeddings] /\ embedding'[build[b].gen] = e
        /\ \A g \in B!Generations : g # build[b].gen => embedding'[g] = embedding[g]
    BY <1>3, <1>4, <1>5 DEF B!TypeOK
  <1>7. B!TypeOK'
    BY <1>1, <1>2, <1>3, <1>6 DEF B!TypeOK
  <1>8. CallKnows(b)'
    BY <1>1, <1>2, <1>3, <1>4, <1>5, <1>6 DEF CallKnows, B!At
  <1>9. (BuildersKnow /\ WorkersSound /\ B!WorkedOnOnce)'
    <2>1. build[b].pc \in Places \ {"segments", "ready"} /\ build[b].pc \in {"record", "activate"}
      BY <1>1 DEF B!At, Places
    <2>2. \A i \in B!Segments : task'[b][i].phase \notin Working
      BY <1>1, <2>1, RestsElsewhere DEF B!At
    <2>3. /\ vectors \subseteq vectors'
          /\ \A g \in B!Generations, i \in B!Segments : segment'[g][i].attempt = segment[g][i].attempt
      BY <1>1
    <2> QED
      BY <1>1, <1>2, <1>4, <1>6, <1>8, <2>1, <2>2, <2>3, CallStores
  <1>10. RowsSound' /\ B!CurriculaComplete'
    BY <1>1 DEF BuildInv, RowsSound, B!CurriculaComplete
  <1>11. GenerationsSound'
    BY <1>1, <1>4, <1>5, <1>6 DEF BuildInv, GenerationsSound
  <1>12. B!ActiveIsSearchable'
    BY <1>1, <1>4, <1>5, <1>6 DEF BuildInv, B!ActiveIsSearchable
  <1>13. B!ToldIsStored'
    <2>1. \A x \in Processes : x # b => build'[x] = build[x]
      BY <1>2, <1>3 DEF B!TypeOK
    <2>2. ASSUME NEW x \in Processes, B!At(x, "ready")' PROVE B!At(x, "ready") /\ x # b
      BY <1>2, <2>1, <2>2 DEF B!At
    <2>3. \A x \in Processes : B!At(x, "ready") => build[x].gen \in B!Generations
                                /\ build[x].gen # build[b].gen
      BY <1>4 DEF BuildInv, BuildersKnow, CallKnows, B!At
    <2> QED
      BY <1>1, <1>6, <2>1, <2>2, <2>3 DEF BuildInv, B!ToldIsStored, B!Worked, B!At
  <1> QED
    BY <1>7, <1>9, <1>10, <1>11, <1>12, <1>13 DEF BuildInv

(* Its vectors are written. *)
LEMMA WriteKeeps ==
    ASSUME BuildInv, NEW b \in Processes, B!WriteGeneration(b)
    PROVE  BuildInv'
  <1> USE BuildAssumption
  <1>1. /\ B!At(b, "write") /\ B!Goto(b, "activate") /\ task' = task
        /\ vectors' = vectors \cup {build[b].gen}
        /\ open' = open /\ current' = current /\ embedding' = embedding /\ segment' = segment
        /\ curriculum' = curriculum /\ active' = active /\ calls' = calls /\ faults' = faults
    BY DEF B!WriteGeneration
  <1>2. PICK c \in B!CallStates :
          /\ build' = [build EXCEPT ![b] = c] /\ build'[b] = c
          /\ c.pc = "activate" /\ c.gen = build[b].gen
          /\ c.call = build[b].call /\ c.document = build[b].document
    BY <1>1, CallGoes DEF Places
  <1>3. B!TypeOK /\ CallKnows(b) /\ build[b] \in B!CallStates
    BY DEF BuildInv, BuildersKnow, B!TypeOK
  <1>4. build[b].gen \in B!Generations
    BY <1>1, <1>3 DEF B!At, CallKnows, B!Generations, B!TypeOK, B!CallStates
  <1>5. B!TypeOK'
    BY <1>1, <1>2, <1>3, <1>4 DEF B!TypeOK
  <1>6. CallKnows(b)'
    BY <1>1, <1>2, <1>3 DEF CallKnows, B!At
  <1>7. (BuildersKnow /\ WorkersSound /\ B!WorkedOnOnce)'
    <2>1. build[b].pc \in Places \ {"segments", "ready"}
      BY <1>1 DEF B!At, Places
    <2>2. \A i \in B!Segments : task'[b][i].phase \notin Working
      BY <1>1, RestsElsewhere DEF B!At
    <2>3. vectors \subseteq vectors' /\ embedding' = embedding
          /\ \A g \in B!Generations, i \in B!Segments : segment'[g][i].attempt = segment[g][i].attempt
      BY <1>1
    <2> QED
      BY <1>1, <1>2, <1>6, <2>1, <2>2, <2>3, CallStores
  <1>8. RowsSound' /\ B!CurriculaComplete' /\ GenerationsSound' /\ B!ActiveIsSearchable'
    BY <1>1 DEF BuildInv, RowsSound, B!CurriculaComplete, GenerationsSound, B!ActiveIsSearchable
  <1>9. B!ToldIsStored'
    BY <1>1, <1>2, <1>3 DEF BuildInv, B!ToldIsStored, B!Worked, B!At, B!TypeOK
  <1> QED
    BY <1>5, <1>7, <1>8, <1>9 DEF BuildInv

(* The embedding is activated in the place of the others. *)
LEMMA ActivateKeeps ==
    ASSUME BuildInv, NEW b \in Processes, B!ActivateEmbeddingGeneration(b)
    PROVE  BuildInv'
  <1> USE BuildAssumption
  <1>1. /\ B!At(b, "activate") /\ B!Goto(b, "partition") /\ task' = task
        /\ open' = open /\ current' = build[b].gen /\ vectors' = vectors /\ segment' = segment
        /\ curriculum' = curriculum /\ active' = active /\ calls' = calls /\ faults' = faults
    BY DEF B!ActivateEmbeddingGeneration
  <1>2. PICK c \in B!CallStates :
          /\ build' = [build EXCEPT ![b] = c] /\ build'[b] = c
          /\ c.pc = "partition" /\ c.gen = build[b].gen
          /\ c.call = build[b].call /\ c.document = build[b].document
    BY <1>1, CallGoes DEF Places
  <1>3. B!TypeOK /\ CallKnows(b) /\ build[b] \in B!CallStates
    BY DEF BuildInv, BuildersKnow, B!TypeOK
  <1>4. /\ build[b].gen \in B!Generations /\ build[b].gen \in vectors /\ build[b].gen <= calls
        /\ embedding[build[b].gen].status = "building"
    BY <1>1, <1>3 DEF B!At, CallKnows, B!Generations, B!TypeOK, B!CallStates
  <1>5. \A g \in B!Generations :
          /\ embedding'[g] \in B!Embeddings /\ embedding'[g].document = embedding[g].document
          /\ embedding'[g].status = IF g = build[b].gen THEN "active"
                                    ELSE IF embedding[g].status = "active" THEN "retired"
                                    ELSE embedding[g].status
          /\ embedding[g].status = "retired" => embedding'[g] = embedding[g]
    BY <1>3, <1>4 DEF B!ActivateEmbeddingGeneration, B!TypeOK, B!Embeddings
  <1>6. embedding' \in [B!Generations -> B!Embeddings]
    BY <1>5 DEF B!ActivateEmbeddingGeneration
  <1>7. B!TypeOK'
    BY <1>1, <1>2, <1>3, <1>4, <1>6 DEF B!TypeOK, B!Generations
  <1>8. CallKnows(b)'
    BY <1>1, <1>2, <1>3, <1>4, <1>5 DEF CallKnows, B!At
  <1>9. (BuildersKnow /\ WorkersSound /\ B!WorkedOnOnce)'
    <2>1. build[b].pc \in Places \ {"segments", "ready"} /\ build[b].pc \in {"record", "activate"}
      BY <1>1 DEF B!At, Places
    <2>2. \A i \in B!Segments : task'[b][i].phase \notin Working
      BY <1>1, RestsElsewhere DEF B!At
    <2>3. /\ vectors \subseteq vectors'
          /\ \A g \in B!Generations, i \in B!Segments : segment'[g][i].attempt = segment[g][i].attempt
      BY <1>1
    <2>4. \A g \in B!Generations : g # build[b].gen \/ embedding[g].status # "none" =>
              /\ embedding'[g].document = embedding[g].document
              /\ embedding[g].status = "none" => embedding'[g].status = "none"
              /\ embedding[g].status \in {"active", "retired"} =>
                   embedding'[g].status \in {"active", "retired"}
              /\ embedding[g].status = "building" /\ g # build[b].gen =>
                   embedding'[g].status = "building"
      BY <1>5
    <2> QED
      BY <1>1, <1>2, <1>8, <2>1, <2>2, <2>3, <2>4, CallStores
  <1>10. RowsSound' /\ B!CurriculaComplete'
    BY <1>1 DEF BuildInv, RowsSound, B!CurriculaComplete
  <1>11. GenerationsSound'
    BY <1>1, <1>4, <1>5 DEF BuildInv, GenerationsSound
  <1>12. B!ActiveIsSearchable'
    BY <1>1, <1>3, <1>4, <1>5 DEF BuildInv, B!ActiveIsSearchable
  <1>13. B!ToldIsStored'
    <2>1. \A x \in Processes : x # b => build'[x] = build[x]
      BY <1>2, <1>3 DEF B!TypeOK
    <2>2. ASSUME NEW x \in Processes, B!At(x, "ready")' PROVE B!At(x, "ready") /\ x # b
      BY <1>2, <2>1, <2>2 DEF B!At
    <2>3. \A x \in Processes : B!At(x, "ready") => build[x].gen \in B!Generations
      BY DEF BuildInv, BuildersKnow, CallKnows, B!At
    <2> QED
      BY <1>1, <1>5, <2>1, <2>2, <2>3 DEF BuildInv, B!ToldIsStored, B!Worked, B!At
  <1> QED
    BY <1>7, <1>9, <1>10, <1>11, <1>12, <1>13 DEF BuildInv

(* The rows of the segments are made. *)
LEMMA PartitionKeeps ==
    ASSUME BuildInv, NEW b \in Processes, B!PersistCurriculumPartition(b)
    PROVE  BuildInv'
  <1> USE BuildAssumption
  <1>1. /\ B!At(b, "partition") /\ B!Goto(b, "segments") /\ task' = task
        /\ segment' = [segment EXCEPT ![build[b].gen] = [i \in B!Segments |->
                 IF @[i].state = "none" THEN B!Queued ELSE @[i]]]
        /\ open' = open /\ current' = current /\ embedding' = embedding /\ vectors' = vectors
        /\ curriculum' = curriculum /\ active' = active /\ calls' = calls /\ faults' = faults
    BY DEF B!PersistCurriculumPartition
  <1>2. PICK c \in B!CallStates :
          /\ build' = [build EXCEPT ![b] = c] /\ build'[b] = c
          /\ c.pc = "segments" /\ c.gen = build[b].gen
          /\ c.call = build[b].call /\ c.document = build[b].document
    BY <1>1, CallGoes DEF Places
  <1>3. B!TypeOK /\ CallKnows(b) /\ build[b] \in B!CallStates /\ RowsSound
    BY DEF BuildInv, BuildersKnow, B!TypeOK
  <1>4. build[b].gen \in B!Generations
    BY <1>1, <1>3 DEF B!At, CallKnows
  <1>5. /\ B!Queued \in B!Rows /\ B!Queued.state = "queued" /\ B!Queued.attempt = 0
        /\ B!Queued.leased = FALSE
    BY DEF B!Queued, B!Rows
  <1>6. /\ segment' \in [B!Generations -> [B!Segments -> B!Rows]]
        /\ \A g \in B!Generations, i \in B!Segments :
             \/ segment'[g][i] = segment[g][i]
             \/ segment[g][i].state = "none" /\ segment'[g][i] = B!Queued
    BY <1>1, <1>3, <1>4, <1>5 DEF B!TypeOK
  <1>8. B!TypeOK'
    BY <1>1, <1>2, <1>3, <1>6 DEF B!TypeOK
  <1>9. CallKnows(b)'
    BY <1>1, <1>2, <1>3 DEF CallKnows, B!At
  <1>10. (BuildersKnow /\ WorkersSound /\ B!WorkedOnOnce)'
    <2>1. build[b].pc \in Places \ {"segments", "ready"}
      BY <1>1 DEF B!At, Places
    <2>2. \A i \in B!Segments : task'[b][i].phase \notin Working
      BY <1>1, RestsElsewhere DEF B!At
    <2>3. vectors \subseteq vectors' /\ embedding' = embedding
      BY <1>1
    <2>4. \A g \in B!Generations, i \in B!Segments : segment'[g][i].attempt = segment[g][i].attempt
      BY <1>3, <1>5, <1>6 DEF RowsSound, B!NoSegment
    <2> QED
      BY <1>1, <1>2, <1>9, <2>1, <2>2, <2>3, <2>4, CallStores
  <1>11. RowsSound'
    BY <1>3, <1>5, <1>6 DEF RowsSound
  <1>12. GenerationsSound' /\ B!ActiveIsSearchable'
    BY <1>1 DEF BuildInv, GenerationsSound, B!ActiveIsSearchable
  <1>13. B!CurriculaComplete'
    BY <1>1, <1>6 DEF BuildInv, B!CurriculaComplete
  <1>14. B!ToldIsStored'
    BY <1>1, <1>2, <1>3 DEF BuildInv, B!ToldIsStored, B!Worked, B!At, B!TypeOK
  <1> QED
    BY <1>8, <1>10, <1>11, <1>12, <1>13, <1>14 DEF BuildInv

(* What a curriculum was composed from is what a second call composes it   *)
(* from; the curriculum before is over another embedding, a retired one.   *)
LEMMA PersistChanges ==
    ASSUME BuildInv, NEW b \in Processes, B!PersistCurriculum(b)
    PROVE  /\ build[b].gen \in B!Generations /\ build[b].gen = current
           /\ active' = build[b].gen /\ curriculum' \in [B!Generations -> B!Curricula]
           /\ \A i \in B!Segments : /\ segment[build[b].gen][i].state = "succeeded"
                                  /\ segment[build[b].gen][i].result = B!Worked(b)[i]
           /\ curriculum'[build[b].gen].status = "active"
           /\ curriculum'[build[b].gen].results = B!Worked(b)
           /\ \A g \in B!Generations :
                /\ curriculum[g].status # "none" => /\ curriculum'[g].status # "none"
                                                    /\ curriculum'[g].results = curriculum[g].results
                /\ g # build[b].gen =>
                     curriculum'[g].status = IF curriculum[g].status = "active" THEN "retired"
                                             ELSE curriculum[g].status
                /\ curriculum[g].status = "retired" => curriculum'[g] = curriculum[g]
  <1> DEFINE g0 == build[b].gen
  <1>1. B!TypeOK /\ CallKnows(b) /\ B!CurriculaComplete /\ GenerationsSound /\ B!ActiveIsSearchable
    BY DEF BuildInv, BuildersKnow
  <1>2. /\ B!At(b, "persist") /\ B!Persistable(b) /\ active' = g0
        /\ curriculum' = [h \in B!Generations |->
                        IF h = g0 THEN [status |-> "active", results |-> B!Worked(b)]
                        ELSE IF curriculum[h].status = "active"
                        THEN [curriculum[h] EXCEPT !.status = "retired"] ELSE curriculum[h]]
    BY DEF B!PersistCurriculum
  <1>3. g0 \in B!Generations /\ g0 = current
    BY <1>1, <1>2 DEF B!At, CallKnows, B!Persistable
  <1>4. \A i \in B!Segments : segment[g0][i].state = "succeeded" /\ segment[g0][i].result = B!Worked(b)[i]
    BY <1>2 DEF B!Persistable, B!Row, B!Worked
  <1>5. B!Worked(b) \in [B!Segments -> Nat]
    BY <1>1 DEF B!Worked, B!TypeOK, B!TaskStates
  <1>6. curriculum[g0].status # "retired"
    BY <1>1, <1>3 DEF GenerationsSound, B!ActiveIsSearchable
  <1>7. curriculum[g0].status # "none" => curriculum[g0].results = B!Worked(b)
    <2>1. curriculum[g0].results \in [B!Segments -> Nat]
      BY <1>1, <1>3 DEF B!TypeOK, B!Curricula
    <2> QED
      BY <1>1, <1>3, <1>4, <1>5, <2>1 DEF B!CurriculaComplete
  <1>8. curriculum'[g0].status = "active" /\ curriculum'[g0].results = B!Worked(b)
        /\ curriculum'[g0] \in B!Curricula
    BY <1>2, <1>3, <1>5 DEF B!Curricula
  <1>9. ASSUME NEW g \in B!Generations, g # g0
        PROVE  /\ curriculum'[g] \in B!Curricula /\ curriculum'[g].results = curriculum[g].results
               /\ curriculum'[g].status = IF curriculum[g].status = "active" THEN "retired"
                                          ELSE curriculum[g].status
               /\ curriculum[g].status = "retired" => curriculum'[g] = curriculum[g]
    BY <1>1, <1>2, <1>9 DEF B!TypeOK, B!Curricula
  <1>10. curriculum' \in [B!Generations -> B!Curricula]
    BY <1>2, <1>8, <1>9
  <1> QED
    BY <1>2, <1>3, <1>4, <1>6, <1>7, <1>8, <1>9, <1>10

(* The curriculum is stored. *)
LEMMA PersistKeeps ==
    ASSUME BuildInv, NEW b \in Processes, B!PersistCurriculum(b)
    PROVE  BuildInv'
  <1> USE BuildAssumption
  <1>1. /\ B!At(b, "persist")
        /\ (B!Goto(b, "ready") /\ task' = task) \/ B!Throw(b)
        /\ open' = open /\ current' = current /\ embedding' = embedding /\ vectors' = vectors
        /\ segment' = segment /\ calls' = calls /\ faults' = faults
    BY DEF B!PersistCurriculum
  <1>2. PICK c \in B!CallStates :
          /\ build' = [build EXCEPT ![b] = c] /\ build'[b] = c
          /\ \/ /\ c.pc = "ready" /\ c.gen = build[b].gen /\ task' = task
                /\ c.call = build[b].call /\ c.document = build[b].document
             \/ c = B!NoCall /\ task' = [task EXCEPT ![b] = B!NoTasks]
    <2>1. CASE B!Goto(b, "ready") /\ task' = task
      BY <2>1, CallGoes DEF Places
    <2>2. CASE B!Throw(b)
      BY <2>2, EmptyTyped DEF B!Throw, BuildInv, B!TypeOK
    <2> QED
      BY <1>1, <2>1, <2>2
  <1>3. B!TypeOK /\ CallKnows(b) /\ build[b] \in B!CallStates
    BY DEF BuildInv, BuildersKnow, B!TypeOK
  <1>4. task' \in [Processes -> [B!Segments -> B!TaskStates]]
    BY <1>2, <1>3, EmptyTyped DEF B!TypeOK
  <1>5. B!TypeOK'
    <2>1. active' \in 0..MaxCalls /\ curriculum' \in [B!Generations -> B!Curricula]
      BY PersistChanges DEF B!Generations
    <2>2. build' \in [Processes -> B!CallStates]
      BY <1>2, <1>3 DEF B!TypeOK
    <2> QED
      BY <1>1, <1>3, <1>4, <2>1, <2>2 DEF B!TypeOK
  <1>6. CallKnows(b)'
    BY <1>1, <1>2, <1>3 DEF CallKnows, B!At, B!NoCall
  <1>7. (BuildersKnow /\ WorkersSound /\ B!WorkedOnOnce)'
    <2>1. build[b].pc \in Places \ {"segments", "ready"}
      BY <1>1 DEF B!At, Places
    <2>2. \A i \in B!Segments : task'[b][i].phase \notin Working
      <3>1. CASE task' = task
        BY <1>1, <3>1, RestsElsewhere DEF B!At
      <3>2. CASE task' = [task EXCEPT ![b] = B!NoTasks]
        BY <1>3, <3>2 DEF B!TypeOK, B!NoTasks, B!NoTask, Working
      <3> QED
        BY <1>2, <3>1, <3>2
    <2>3. vectors \subseteq vectors' /\ embedding' = embedding
          /\ \A g \in B!Generations, i \in B!Segments : segment'[g][i].attempt = segment[g][i].attempt
      BY <1>1
    <2>4. (c.call = build[b].call \/ c.pc = "idle")
          /\ (task' = task \/ task' = [task EXCEPT ![b] = B!NoTasks])
      BY <1>2 DEF B!NoCall
    <2> QED
      BY <1>1, <1>2, <1>6, <2>1, <2>2, <2>3, <2>4, CallStores
  <1>8. RowsSound' /\ B!ActiveIsSearchable'
    BY <1>1 DEF BuildInv, RowsSound, B!ActiveIsSearchable
  <1>9. GenerationsSound'
    BY <1>1, <1>3, PersistChanges DEF BuildInv, GenerationsSound, B!ActiveIsSearchable,
       CallKnows, B!At
  <1>10. B!CurriculaComplete'
    BY <1>1, PersistChanges DEF BuildInv, B!CurriculaComplete
  <1>11. B!ToldIsStored'
    <2>1. ASSUME NEW x \in Processes, x # b, B!At(x, "ready")'
          PROVE  /\ curriculum'[build'[x].gen].status # "none"
                 /\ curriculum'[build'[x].gen].results = B!Worked(x)'
                 /\ embedding'[build'[x].gen].document = build'[x].document
      <3>1. build'[x] = build[x] /\ task'[x] = task[x] /\ B!At(x, "ready")
        BY <1>2, <1>3, <2>1 DEF B!TypeOK, B!At
      <3>2. build[x].gen \in B!Generations
        BY <3>1 DEF BuildInv, BuildersKnow, CallKnows, B!At
      <3> QED
        <4>1. /\ curriculum[build[x].gen].status # "none"
              /\ curriculum[build[x].gen].results = B!Worked(x)
              /\ embedding[build[x].gen].document = build[x].document
          BY <3>1 DEF BuildInv, B!ToldIsStored
        <4>2. B!Worked(x)' = B!Worked(x)
          BY <3>1 DEF B!Worked
        <4> QED
          BY <1>1, <3>1, <3>2, <4>1, <4>2, PersistChanges
    <2>2. ASSUME B!At(b, "ready")'
          PROVE  /\ curriculum'[build'[b].gen].status # "none"
                 /\ curriculum'[build'[b].gen].results = B!Worked(b)'
                 /\ embedding'[build'[b].gen].document = build'[b].document
      <3>1. build'[b].gen = build[b].gen /\ task' = task /\ build'[b].document = build[b].document
        BY <1>2, <2>2 DEF B!At, B!NoCall
      <3> QED
        BY <1>1, <1>3, <3>1, PersistChanges DEF CallKnows, B!At, B!Worked
    <2> QED
      BY <2>1, <2>2 DEF B!ToldIsStored
  <1> QED
    BY <1>5, <1>7, <1>8, <1>9, <1>10, <1>11 DEF BuildInv

(* A worker that sets its task changes no other. *)
LEMMA TaskSet ==
    ASSUME B!TypeOK, NEW b \in Processes, NEW i \in B!Segments, NEW t \in B!TaskStates,
           B!SetTask(b, i, t)
    PROVE  /\ task' \in [Processes -> [B!Segments -> B!TaskStates]]
           /\ task'[b][i] = t
           /\ \A c \in Processes, j \in B!Segments : c # b \/ j # i => task'[c][j] = task[c][j]
  BY DEF B!SetTask, B!TypeOK

(* A worker that sets the row of its segment, or leaves it, changes no     *)
(* other row.                                                              *)
LEMMA RowSet ==
    ASSUME B!TypeOK, NEW b \in Processes, NEW i \in B!Segments, build[b].gen \in B!Generations,
           NEW r \in B!Rows, B!SetRow(b, i, r) \/ (segment' = segment /\ r = B!Row(b, i))
    PROVE  /\ segment' \in [B!Generations -> [B!Segments -> B!Rows]]
           /\ segment'[build[b].gen][i] = r
           /\ \A g \in B!Generations, j \in B!Segments :
                g # build[b].gen \/ j # i => segment'[g][j] = segment[g][j]
  <1>1. CASE B!SetRow(b, i, r)
    BY <1>1 DEF B!SetRow, B!TypeOK
  <1>2. CASE segment' = segment /\ r = B!Row(b, i)
    BY <1>2 DEF B!Row, B!TypeOK
  <1> QED
    BY <1>1, <1>2

(* What a worker does to a row that it has for an attempt: the attempts    *)
(* grow, a result stands, and the attempt it is on is its own or new.      *)
WorksOn(b, i, r, t) ==
    /\ r.attempt >= B!Row(b, i).attempt
    /\ B!Row(b, i).state = "succeeded" => r = B!Row(b, i)
    /\ r.leased => r.state = "processing"
    /\ r.state # "none" \/ r = B!Row(b, i)
    /\ t.phase \in Working =>
         /\ t.attempt > 0 /\ t.attempt <= r.attempt
         /\ \/ t.attempt = task[b][i].attempt /\ task[b][i].phase \in Working
            \/ t.attempt > B!Row(b, i).attempt

(* Such a change preserves the invariant. *)
LEMMA WorkKeeps ==
    ASSUME BuildInv, NEW b \in Processes, NEW i \in B!Segments, B!At(b, "segments"),
           NEW r \in B!Rows, NEW t \in B!TaskStates,
           B!SetRow(b, i, r) \/ (segment' = segment /\ r = B!Row(b, i)), B!SetTask(b, i, t),
           B!KeepsTheRest, faults' \in 0..MaxFaults, WorksOn(b, i, r, t)
    PROVE  BuildInv'
  <1> USE BuildAssumption
  <1>1. B!TypeOK /\ build[b].gen \in B!Generations /\ RowsSound
    BY DEF BuildInv, BuildersKnow, CallKnows, B!At
  <1>2. /\ segment' \in [B!Generations -> [B!Segments -> B!Rows]] /\ segment'[build[b].gen][i] = r
        /\ \A g \in B!Generations, j \in B!Segments :
             g # build[b].gen \/ j # i => segment'[g][j] = segment[g][j]
    BY <1>1, RowSet
  <1>3. /\ task' \in [Processes -> [B!Segments -> B!TaskStates]] /\ task'[b][i] = t
        /\ \A c \in Processes, j \in B!Segments : c # b \/ j # i => task'[c][j] = task[c][j]
    BY <1>1, TaskSet
  <1>4. /\ open' = open /\ embedding' = embedding /\ current' = current /\ vectors' = vectors
        /\ curriculum' = curriculum /\ active' = active /\ build' = build /\ calls' = calls
    BY DEF B!KeepsTheRest
  <1>5. B!Row(b, i) = segment[build[b].gen][i] /\ B!Row(b, i) \in B!Rows
    BY <1>1 DEF B!Row, B!TypeOK
  <1>6. B!TypeOK'
    BY <1>1, <1>2, <1>3, <1>4 DEF B!TypeOK
  <1>7. RowsSound'
    BY <1>1, <1>2, <1>5 DEF RowsSound, WorksOn
  <1>8. GenerationsSound' /\ BuildersKnow' /\ B!ActiveIsSearchable'
    BY <1>4 DEF BuildInv, GenerationsSound, BuildersKnow, CallsDiffer, CallKnows,
       B!ActiveIsSearchable, B!At
  <1>9. WorkersSound'
    BY <1>3, <1>4 DEF BuildInv, WorkersSound, WorksOn, B!At
  <1>10. B!CurriculaComplete'
    BY <1>1, <1>2, <1>4, <1>5 DEF BuildInv, B!CurriculaComplete, WorksOn
  <1>11. B!ToldIsStored'
    BY <1>3, <1>4 DEF BuildInv, B!ToldIsStored, B!At, B!Worked
  <1>12. B!WorkedOnOnce'
    <2>1. \A c \in Processes, j \in B!Segments :
            task[c][j].phase \in Working =>
              /\ build[c].gen \in B!Generations
              /\ task[c][j].attempt <= segment[build[c].gen][j].attempt
              /\ \A x \in Processes :
                   x # c /\ task[x][j].phase \in Working /\ build[x].gen = build[c].gen =>
                     task[x][j].attempt # task[c][j].attempt
      BY DEF BuildInv, B!WorkedOnOnce, WorkersSound, BuildersKnow, CallKnows, B!At, B!Busy,
         B!InPhase, B!Row, Working
    <2>2. \A g \in B!Generations, j \in B!Segments : segment'[g][j].attempt >= segment[g][j].attempt
      <3>1. r.attempt >= B!Row(b, i).attempt
        BY DEF WorksOn
      <3>2. \A g \in B!Generations, j \in B!Segments : segment[g][j].attempt \in Nat
        BY <1>1 DEF B!TypeOK, B!Rows
      <3> QED
        BY <1>2, <1>5, <3>1, <3>2
    <2>3. \A c \in Processes, j \in B!Segments :
            /\ task'[c][j].attempt \in Nat /\ task[c][j].attempt \in Nat
            /\ \A g \in B!Generations : segment'[g][j].attempt \in Nat /\ segment[g][j].attempt \in Nat
      BY <1>1, <1>2, <1>3 DEF B!TypeOK, B!TaskStates, B!Rows
    <2>4. ASSUME NEW c \in Processes, NEW j \in B!Segments, task'[c][j].phase \in Working
          PROVE  /\ build[c].gen \in B!Generations
                 /\ task'[c][j].attempt <= segment'[build[c].gen][j].attempt
      BY <1>1, <1>2, <1>3, <2>1, <2>2, <2>3, <2>4 DEF WorksOn
    <2>5. ASSUME NEW c \in Processes, NEW x \in Processes, NEW j \in B!Segments, x # c,
                 task'[c][j].phase \in Working, task'[x][j].phase \in Working,
                 build[x].gen = build[c].gen
          PROVE  task'[x][j].attempt # task'[c][j].attempt
      <3>1. CASE c = b /\ j = i
        BY <1>1, <1>3, <1>5, <2>1, <2>3, <2>5, <3>1 DEF WorksOn
      <3>2. CASE x = b /\ j = i
        BY <1>1, <1>3, <1>5, <2>1, <2>3, <2>5, <3>2 DEF WorksOn
      <3>3. CASE j # i \/ (c # b /\ x # b)
        BY <1>3, <2>1, <2>5, <3>3
      <3> QED
        BY <3>1, <3>2, <3>3
    <2> QED
      BY <1>4, <2>4, <2>5 DEF B!WorkedOnOnce, B!Busy, B!InPhase, B!Row, Working
  <1> QED
    BY <1>6, <1>7, <1>8, <1>9, <1>10, <1>11, <1>12 DEF BuildInv

(* Each step of a worker is such a change. *)
LEMMA WorkersKeep ==
    ASSUME BuildInv, NEW b \in Processes, NEW i \in B!Segments,
           \/ B!Claim(b, i) \/ B!FindSucceeded(b, i) \/ B!ClaimRefused(b, i) \/ B!Answer(b, i)
           \/ B!Complete(b, i) \/ B!CompleteRefused(b, i) \/ B!Fail(b, i)
           \/ B!SegmentTransactionFails(b, i)
    PROVE  BuildInv'
  <1> USE BuildAssumption
  <1> DEFINE o == B!Row(b, i)
             w == task[b][i]
  <1>1. /\ B!TypeOK /\ RowsSound /\ faults \in 0..MaxFaults
        /\ w \in B!TaskStates
        /\ w.phase \in Working => /\ B!At(b, "segments") /\ w.attempt > 0
                                  /\ w.attempt <= o.attempt
    BY DEF BuildInv, B!TypeOK, WorkersSound, B!WorkedOnOnce, B!Busy, B!InPhase, Working
  <1>2. B!At(b, "segments") => /\ o \in B!Rows /\ o.attempt \in Nat
                               /\ o.leased => o.state = "processing"
    BY <1>1 DEF BuildInv, BuildersKnow, CallKnows, B!At, B!Row, B!TypeOK, B!Rows, RowsSound
  <1> HIDE DEF o, w
  <1>3. CASE B!Claim(b, i)
    <2>1. /\ B!At(b, "segments") /\ B!Claimable(o) /\ B!KeepsTheRest /\ UNCHANGED faults
          /\ B!SetRow(b, i, [o EXCEPT !.state = "processing", !.attempt = @ + 1, !.leased = TRUE])
          /\ B!SetTask(b, i, [B!NoTask EXCEPT !.phase = "claimed", !.attempt = o.attempt + 1])
      BY <1>3 DEF B!Claim, B!IsNext, o
    <2>0. o \in B!Rows /\ o.attempt \in Nat /\ o.attempt + 1 \in Nat
      BY <1>2, <2>1
    <2>2. PICK r \in B!Rows :
            /\ r = [o EXCEPT !.state = "processing", !.attempt = @ + 1, !.leased = TRUE]
            /\ r.state = "processing" /\ r.attempt = o.attempt + 1
      <3> DEFINE r0 == [o EXCEPT !.state = "processing", !.attempt = @ + 1, !.leased = TRUE]
      <3>1. r0 \in B!Rows /\ r0.state = "processing" /\ r0.attempt = o.attempt + 1
        BY <2>0 DEF B!Rows
      <3> QED
        BY <3>1
    <2>3. PICK t \in B!TaskStates :
            /\ t = [B!NoTask EXCEPT !.phase = "claimed", !.attempt = o.attempt + 1]
            /\ t.attempt = o.attempt + 1
      <3> DEFINE t0 == [B!NoTask EXCEPT !.phase = "claimed", !.attempt = o.attempt + 1]
      <3>1. t0 \in B!TaskStates /\ t0.attempt = o.attempt + 1
        BY <2>0 DEF B!TaskStates, B!NoTask
      <3> QED
        BY <3>1
    <2>4. B!SetRow(b, i, r) /\ B!SetTask(b, i, t) /\ faults' \in 0..MaxFaults
      BY <1>1, <2>1, <2>2, <2>3
    <2>5. WorksOn(b, i, r, t)
      BY <1>2, <2>1, <2>2, <2>3 DEF WorksOn, B!Claimable, o
    <2> QED
      BY <2>1, <2>4, <2>5, WorkKeeps
  <1>4. CASE B!FindSucceeded(b, i) \/ B!ClaimRefused(b, i)
    <2>1. /\ B!At(b, "segments") /\ B!KeepsTheRest /\ segment' = segment /\ UNCHANGED faults
          /\ \/ B!SetTask(b, i, [B!NoTask EXCEPT !.phase = "done", !.result = o.result])
             \/ B!SetTask(b, i, [B!NoTask EXCEPT !.phase = "thrown"])
      BY <1>4 DEF B!FindSucceeded, B!ClaimRefused, B!IsNext, o
    <2>2. PICK t \in B!TaskStates : B!SetTask(b, i, t) /\ t.phase \notin Working
      <3>1. /\ [B!NoTask EXCEPT !.phase = "done", !.result = o.result] \in B!TaskStates
            /\ [B!NoTask EXCEPT !.phase = "done", !.result = o.result].phase = "done"
            /\ [B!NoTask EXCEPT !.phase = "thrown"] \in B!TaskStates
            /\ [B!NoTask EXCEPT !.phase = "thrown"].phase = "thrown"
        BY <1>2, <2>1 DEF B!NoTask, B!TaskStates, B!Rows
      <3> QED
        BY <2>1, <3>1 DEF Working
    <2>3. WorksOn(b, i, B!Row(b, i), t)
      BY <1>2, <2>1, <2>2 DEF WorksOn, o
    <2> QED
      BY <1>1, <1>2, <2>1, <2>2, <2>3, WorkKeeps DEF o
  <1>5. CASE B!Answer(b, i)
    <2>1. /\ w.phase = "claimed" /\ B!KeepsTheRest /\ segment' = segment /\ UNCHANGED faults
          /\ \/ B!SetTask(b, i, [w EXCEPT !.phase = "answered"])
             \/ \E retryable \in BOOLEAN :
                  B!SetTask(b, i, [w EXCEPT !.phase = "failing", !.retryable = retryable])
      BY <1>5 DEF B!Answer, w
    <2>2. PICK t \in B!TaskStates : B!SetTask(b, i, t) /\ t.attempt = w.attempt
      <3>1. /\ [w EXCEPT !.phase = "answered"] \in B!TaskStates
            /\ [w EXCEPT !.phase = "answered"].attempt = w.attempt
        BY <1>1 DEF B!TaskStates
      <3>2. \A x \in BOOLEAN :
              /\ [w EXCEPT !.phase = "failing", !.retryable = x] \in B!TaskStates
              /\ [w EXCEPT !.phase = "failing", !.retryable = x].attempt = w.attempt
        BY <1>1 DEF B!TaskStates
      <3> QED
        BY <2>1, <3>1, <3>2
    <2>3. B!At(b, "segments") /\ w.phase \in Working
      BY <1>1, <2>1 DEF Working
    <2>4. WorksOn(b, i, B!Row(b, i), t)
      BY <1>1, <1>2, <2>2, <2>3 DEF WorksOn, o, w
    <2> QED
      BY <1>1, <1>2, <2>1, <2>2, <2>3, <2>4, WorkKeeps DEF o
  <1>6. CASE B!Complete(b, i)
    <2>1. /\ w.phase = "answered" /\ B!OwnLease(b, i) /\ B!KeepsTheRest
          /\ B!SetRow(b, i, [o EXCEPT !.state = "succeeded", !.leased = FALSE, !.result = w.attempt])
          /\ \/ /\ B!SetTask(b, i, [B!NoTask EXCEPT !.phase = "done", !.result = w.attempt])
                /\ UNCHANGED faults
             \/ /\ faults < MaxFaults /\ faults' = faults + 1
                /\ B!SetTask(b, i, [w EXCEPT !.phase = "failing"])
      BY <1>6 DEF B!Complete, o, w
    <2>2. B!At(b, "segments") /\ w.phase \in Working /\ o.state = "processing"
      BY <1>1, <2>1 DEF Working, B!OwnLease, o
    <2>3. PICK r \in B!Rows :
            /\ r = [o EXCEPT !.state = "succeeded", !.leased = FALSE, !.result = w.attempt]
            /\ r.state = "succeeded" /\ r.leased = FALSE /\ r.attempt = o.attempt
      <3> DEFINE r0 == [o EXCEPT !.state = "succeeded", !.leased = FALSE, !.result = w.attempt]
      <3>1. r0 \in B!Rows /\ r0.state = "succeeded" /\ r0.leased = FALSE /\ r0.attempt = o.attempt
        BY <1>1, <1>2, <2>2 DEF B!Rows, B!TaskStates
      <3> QED
        BY <3>1
    <2>4. PICK t \in B!TaskStates : /\ B!SetTask(b, i, t)
                                    /\ t.phase \in Working => t.attempt = w.attempt
      <3>1. /\ [B!NoTask EXCEPT !.phase = "done", !.result = w.attempt] \in B!TaskStates
            /\ [B!NoTask EXCEPT !.phase = "done", !.result = w.attempt].phase = "done"
        BY <1>1 DEF B!NoTask, B!TaskStates
      <3>2. /\ [w EXCEPT !.phase = "failing"] \in B!TaskStates
            /\ [w EXCEPT !.phase = "failing"].attempt = w.attempt
        BY <1>1 DEF B!TaskStates
      <3> QED
        BY <2>1, <3>1, <3>2 DEF Working
    <2>5. B!SetRow(b, i, r) /\ faults' \in 0..MaxFaults
      BY <1>1, <2>1, <2>3
    <2>6. WorksOn(b, i, r, t)
      BY <1>1, <1>2, <2>2, <2>3, <2>4 DEF WorksOn, o, w
    <2> QED
      BY <2>1, <2>2, <2>4, <2>5, <2>6, WorkKeeps
  <1>7. CASE B!CompleteRefused(b, i)
    <2>1. /\ w.phase = "answered" /\ B!KeepsTheRest /\ segment' = segment /\ UNCHANGED faults
          /\ B!SetTask(b, i, [w EXCEPT !.phase = "failing", !.retryable = open])
      BY <1>7 DEF B!CompleteRefused, w
    <2>2. PICK t \in B!TaskStates : B!SetTask(b, i, t) /\ t.attempt = w.attempt
      <3>1. /\ [w EXCEPT !.phase = "failing", !.retryable = open] \in B!TaskStates
            /\ [w EXCEPT !.phase = "failing", !.retryable = open].attempt = w.attempt
        BY <1>1 DEF B!TaskStates, B!TypeOK
      <3> QED
        BY <2>1, <3>1
    <2>3. B!At(b, "segments") /\ w.phase \in Working
      BY <1>1, <2>1 DEF Working
    <2>4. WorksOn(b, i, B!Row(b, i), t)
      BY <1>1, <1>2, <2>2, <2>3 DEF WorksOn, o, w
    <2> QED
      BY <1>1, <1>2, <2>1, <2>2, <2>3, <2>4, WorkKeeps DEF o
  <1>8. CASE B!Fail(b, i)
    <2>1. /\ w.phase = "failing" /\ B!KeepsTheRest /\ UNCHANGED faults
          /\ B!SetTask(b, i, [B!NoTask EXCEPT !.phase = "thrown"])
          /\ \/ segment' = segment
             \/ /\ o.state = "processing"
                /\ \E s \in {"retry_scheduled", "failed_permanent"} :
                     B!SetRow(b, i, [o EXCEPT !.leased = FALSE, !.state = s])
      BY <1>8 DEF B!Fail, o, w
    <2>2. B!At(b, "segments")
      BY <1>1, <2>1 DEF Working
    <2>3. PICK r \in B!Rows :
            /\ B!SetRow(b, i, r) \/ (segment' = segment /\ r = B!Row(b, i))
            /\ r = o \/ (/\ o.state = "processing" /\ r.leased = FALSE /\ r.attempt = o.attempt
                         /\ r.state \in {"retry_scheduled", "failed_permanent"})
      <3>1. CASE segment' = segment
        BY <1>2, <2>2, <3>1 DEF o
      <3>2. ASSUME NEW s \in {"retry_scheduled", "failed_permanent"}, o.state = "processing",
                   B!SetRow(b, i, [o EXCEPT !.leased = FALSE, !.state = s])
            PROVE  \E r \in B!Rows :
                     /\ B!SetRow(b, i, r)
                     /\ o.state = "processing" /\ r.leased = FALSE /\ r.attempt = o.attempt
                     /\ r.state \in {"retry_scheduled", "failed_permanent"}
        <4> DEFINE r0 == [o EXCEPT !.leased = FALSE, !.state = s]
        <4>1. r0 \in B!Rows /\ r0.state = s /\ r0.leased = FALSE /\ r0.attempt = o.attempt
          BY <1>2, <2>2 DEF B!Rows
        <4> QED
          BY <3>2, <4>1
      <3> QED
        BY <2>1, <3>1, <3>2
    <2>4. PICK t \in B!TaskStates : B!SetTask(b, i, t) /\ t.phase \notin Working
      <3>1. /\ [B!NoTask EXCEPT !.phase = "thrown"] \in B!TaskStates
            /\ [B!NoTask EXCEPT !.phase = "thrown"].phase = "thrown"
        BY DEF B!NoTask, B!TaskStates
      <3> QED
        BY <2>1, <3>1 DEF Working
    <2>5. WorksOn(b, i, r, t)
      BY <1>2, <2>2, <2>3, <2>4 DEF WorksOn, o
    <2> QED
      BY <1>1, <2>1, <2>2, <2>3, <2>4, <2>5, WorkKeeps
  <1>9. CASE B!SegmentTransactionFails(b, i)
    <2>1. /\ B!KeepsTheRest /\ segment' = segment /\ faults < MaxFaults /\ faults' = faults + 1
          /\ \/ w.phase = "failing" /\ B!SetTask(b, i, [B!NoTask EXCEPT !.phase = "thrown"])
             \/ w.phase = "answered" /\ B!SetTask(b, i, [w EXCEPT !.phase = "failing"])
      BY <1>9 DEF B!SegmentTransactionFails, w
    <2>2. PICK t \in B!TaskStates : /\ B!SetTask(b, i, t)
                                    /\ t.phase \in Working => t.attempt = w.attempt
      <3>1. /\ [B!NoTask EXCEPT !.phase = "thrown"] \in B!TaskStates
            /\ [B!NoTask EXCEPT !.phase = "thrown"].phase = "thrown"
        BY DEF B!NoTask, B!TaskStates
      <3>2. /\ [w EXCEPT !.phase = "failing"] \in B!TaskStates
            /\ [w EXCEPT !.phase = "failing"].attempt = w.attempt
        BY <1>1 DEF B!TaskStates
      <3> QED
        BY <2>1, <3>1, <3>2 DEF Working
    <2>3. B!At(b, "segments") /\ w.phase \in Working /\ faults' \in 0..MaxFaults
      BY <1>1, <2>1 DEF Working
    <2>4. WorksOn(b, i, B!Row(b, i), t)
      BY <1>1, <1>2, <2>2, <2>3 DEF WorksOn, o, w
    <2> QED
      BY <1>2, <2>1, <2>2, <2>3, <2>4, WorkKeeps DEF o
  <1> QED
    BY <1>3, <1>4, <1>5, <1>6, <1>7, <1>8, <1>9

(* What the invariant speaks of is all there is but the authorization. *)
LEMMA BuildUntouched ==
    ASSUME BuildInv, UNCHANGED <<B!stored, build, task, calls>>, open' \in BOOLEAN,
           faults' \in 0..MaxFaults
    PROVE  BuildInv'
  <1>1. /\ embedding' = embedding /\ current' = current /\ vectors' = vectors
        /\ segment' = segment /\ curriculum' = curriculum /\ active' = active
        /\ build' = build /\ task' = task /\ calls' = calls
    BY DEF B!stored
  <1>2. (B!TypeOK /\ RowsSound /\ GenerationsSound)'
    BY <1>1 DEF BuildInv, B!TypeOK, RowsSound, GenerationsSound
  <1>3. (BuildersKnow /\ WorkersSound)'
    BY <1>1 DEF BuildInv, BuildersKnow, CallsDiffer, CallKnows, WorkersSound, B!At
  <1>4. (B!ActiveIsSearchable /\ B!CurriculaComplete)'
    BY <1>1 DEF BuildInv, B!ActiveIsSearchable, B!CurriculaComplete
  <1>5. (B!WorkedOnOnce /\ B!ToldIsStored)'
    BY <1>1 DEF BuildInv, B!WorkedOnOnce, B!ToldIsStored, B!At, B!Worked, B!Row, B!Busy,
       B!InPhase
  <1> QED
    BY <1>2, <1>3, <1>4, <1>5 DEF BuildInv

(* A lease that lapses, and the loss of the authorization, take nothing    *)
(* that anybody counts on.                                                 *)
LEMMA EnvironmentKeeps ==
    ASSUME BuildInv,
           B!Revoke \/ \E g \in B!Generations, i \in B!Segments : B!LeaseLapses(g, i)
    PROVE  BuildInv'
  <1> USE BuildAssumption
  <1>1. CASE B!Revoke
    BY <1>1, BuildUntouched DEF B!Revoke, B!stored, BuildInv, B!TypeOK
  <1>2. ASSUME NEW g \in B!Generations, NEW i \in B!Segments, B!LeaseLapses(g, i) PROVE BuildInv'
    <2>1. /\ segment[g][i].leased /\ segment' = [segment EXCEPT ![g][i].leased = FALSE]
          /\ open' = open /\ embedding' = embedding /\ current' = current /\ vectors' = vectors
          /\ curriculum' = curriculum /\ active' = active /\ build' = build /\ task' = task
          /\ calls' = calls /\ faults' = faults
      BY <1>2 DEF B!LeaseLapses
    <2>2. B!TypeOK /\ RowsSound
      BY DEF BuildInv
    <2>3. /\ segment' \in [B!Generations -> [B!Segments -> B!Rows]]
          /\ \A h \in B!Generations, j \in B!Segments :
               /\ segment'[h][j].attempt = segment[h][j].attempt
               /\ segment'[h][j] = segment[h][j]
                    \/ (segment[h][j].leased /\ ~segment'[h][j].leased
                        /\ segment'[h][j].state = segment[h][j].state)
      <3>1. segment \in [B!Generations -> [B!Segments -> B!Rows]]
        BY <2>2 DEF B!TypeOK
      <3>2. PICK o \in B!Rows : o = segment[g][i]
        BY <3>1
      <3>3. PICK r \in B!Rows : r = [o EXCEPT !.leased = FALSE]
        BY DEF B!Rows
      <3>4. ~r.leased /\ r.attempt = o.attempt /\ r.state = o.state
        BY <3>3 DEF B!Rows
      <3>5. segment' = [segment EXCEPT ![g][i] = r]
        BY <2>1, <3>1, <3>2, <3>3
      <3>6. /\ segment' \in [B!Generations -> [B!Segments -> B!Rows]] /\ segment'[g][i] = r
            /\ \A h \in B!Generations, j \in B!Segments :
                 h # g \/ j # i => segment'[h][j] = segment[h][j]
        BY <3>1, <3>5
      <3> QED
        BY <2>1, <3>2, <3>4, <3>6
    <2>4. B!TypeOK'
      BY <2>1, <2>2, <2>3 DEF B!TypeOK
    <2>5. RowsSound'
      BY <2>2, <2>3 DEF RowsSound, B!NoSegment
    <2>6. GenerationsSound' /\ BuildersKnow' /\ B!ActiveIsSearchable' /\ WorkersSound'
      BY <2>1 DEF BuildInv, GenerationsSound, BuildersKnow, CallsDiffer, CallKnows,
         B!ActiveIsSearchable, WorkersSound, B!At
    <2>7. B!CurriculaComplete'
      BY <2>1, <2>2, <2>3 DEF BuildInv, B!CurriculaComplete, RowsSound
    <2>8. B!WorkedOnOnce'
      BY <2>1, <2>3 DEF BuildInv, B!WorkedOnOnce, B!Row, B!Busy, B!InPhase, BuildersKnow,
         CallKnows, WorkersSound, Working, B!At
    <2>9. B!ToldIsStored'
      BY <2>1 DEF BuildInv, B!ToldIsStored, B!At, B!Worked
    <2> QED
      BY <2>4, <2>5, <2>6, <2>7, <2>8, <2>9 DEF BuildInv
  <1> QED
    BY <1>1, <1>2

(* The invariant is inductive. *)
LEMMA BuildStep == BuildInv /\ [B!Next]_(B!vars) => BuildInv'
  <1> SUFFICES ASSUME BuildInv, [B!Next]_(B!vars) PROVE BuildInv'
    OBVIOUS
  <1>1. ASSUME NEW b \in Processes,
               \/ B!Start(b) \/ B!Ensure(b) \/ B!EmbedDocuments(b) \/ B!Compose(b) \/ B!Refuse(b)
               \/ B!CallFails(b) \/ B!RecordEmbeddingGeneration(b) \/ B!WriteGeneration(b)
               \/ B!ActivateEmbeddingGeneration(b) \/ B!PersistCurriculumPartition(b)
               \/ B!PersistCurriculum(b)
        PROVE  BuildInv'
    BY <1>1, MovesKeep, RecordKeeps, WriteKeeps, ActivateKeeps, PartitionKeeps, PersistKeeps
  <1>2. CASE UNCHANGED B!vars
    BY <1>2, BuildUntouched DEF B!vars, BuildInv, B!TypeOK
  <1> QED
    BY <1>1, <1>2, WorkersKeep, EnvironmentKeeps DEF B!Next

(* Every build, in any interleaving, leaves one active embedding with its  *)
(* vectors and one active and complete curriculum; no two calls work on    *)
(* one attempt; what a caller is told is stored.                           *)
THEOREM BuildsAreSound == B!Spec => []CurriculumSound
  <1>1. BuildInv => CurriculumSound
    BY DEF BuildInv, CurriculumSound, B!CurriculumSound
  <1> QED
    BY <1>1, BuildInit, BuildStep, PTL DEF B!Spec

(* What a step of a call does to what is stored. *)
LEMMA StandsStep ==
    ASSUME BuildInv, B!Next
    PROVE  /\ \A g \in B!Generations :
                /\ \A i \in B!Segments : segment[g][i].state \in {"succeeded", "failed_permanent"} =>
                                         segment'[g][i] = segment[g][i]
                /\ curriculum[g].status # "none" =>
                     curriculum'[g].results = curriculum[g].results
                /\ curriculum[g].status = "retired" => curriculum'[g] = curriculum[g]
                /\ embedding[g].status = "retired" => embedding'[g] = embedding[g]
           /\ active' # active => active' = current
  <1> USE BuildAssumption
  <1>1. B!TypeOK /\ RowsSound
    BY DEF BuildInv
  <1>2. ASSUME NEW b \in Processes,
               B!Start(b) \/ B!Ensure(b) \/ B!EmbedDocuments(b) \/ B!Compose(b) \/ B!Refuse(b)
                        \/ B!CallFails(b) \/ B!WriteGeneration(b)
        PROVE  segment' = segment /\ curriculum' = curriculum /\ embedding' = embedding
               /\ active' = active
    BY <1>2 DEF B!Start, B!Ensure, B!EmbedDocuments, B!Compose, B!Refuse, B!CallFails,
       B!WriteGeneration, B!stored
  <1>3. ASSUME NEW b \in Processes, B!RecordEmbeddingGeneration(b)
        PROVE  /\ segment' = segment /\ curriculum' = curriculum /\ active' = active
               /\ \A g \in B!Generations : embedding[g].status = "retired" => embedding'[g] = embedding[g]
    <2>1. embedding[build[b].gen].status = "none"
      BY <1>3 DEF B!RecordEmbeddingGeneration, BuildInv, BuildersKnow, CallKnows, B!At
    <2> QED
      BY <1>1, <1>3, <2>1 DEF B!RecordEmbeddingGeneration, B!TypeOK
  <1>4. ASSUME NEW b \in Processes, B!ActivateEmbeddingGeneration(b)
        PROVE  /\ segment' = segment /\ curriculum' = curriculum /\ active' = active
               /\ \A g \in B!Generations : embedding[g].status = "retired" => embedding'[g] = embedding[g]
    BY <1>1, <1>4 DEF B!ActivateEmbeddingGeneration, B!TypeOK
  <1>5. ASSUME NEW b \in Processes, B!PersistCurriculumPartition(b)
        PROVE  /\ embedding' = embedding /\ curriculum' = curriculum /\ active' = active
               /\ \A g \in B!Generations, i \in B!Segments :
                    segment[g][i].state # "none" => segment'[g][i] = segment[g][i]
    BY <1>1, <1>5 DEF B!PersistCurriculumPartition, B!TypeOK
  <1>6. ASSUME NEW b \in Processes, B!PersistCurriculum(b)
        PROVE  /\ embedding' = embedding /\ segment' = segment /\ active' = current
               /\ \A g \in B!Generations :
                    /\ curriculum[g].status # "none" => curriculum'[g].results = curriculum[g].results
                    /\ curriculum[g].status = "retired" => curriculum'[g] = curriculum[g]
    BY <1>6, PersistChanges DEF B!PersistCurriculum
  <1>7. ASSUME NEW b \in Processes, NEW i \in B!Segments,
               \/ B!Claim(b, i) \/ B!FindSucceeded(b, i) \/ B!ClaimRefused(b, i) \/ B!Answer(b, i)
               \/ B!Complete(b, i) \/ B!CompleteRefused(b, i) \/ B!Fail(b, i)
               \/ B!SegmentTransactionFails(b, i)
        PROVE  /\ embedding' = embedding /\ curriculum' = curriculum /\ active' = active
               /\ \A g \in B!Generations, j \in B!Segments :
                    segment[g][j].state \in {"succeeded", "failed_permanent"} =>
                      segment'[g][j] = segment[g][j]
    <2>1. B!KeepsTheRest
      BY <1>7 DEF B!Claim, B!FindSucceeded, B!ClaimRefused, B!Answer, B!Complete,
         B!CompleteRefused, B!Fail, B!SegmentTransactionFails
    <2>2. \/ segment' = segment
          \/ /\ \E r : B!SetRow(b, i, r)
             /\ B!Row(b, i).state \notin {"succeeded", "failed_permanent"}
      BY <1>7 DEF B!Claim, B!FindSucceeded, B!ClaimRefused, B!Answer, B!Complete,
         B!CompleteRefused, B!Fail, B!SegmentTransactionFails, B!Claimable, B!OwnLease
    <2>3. ASSUME NEW r, B!SetRow(b, i, r), B!Row(b, i).state \notin {"succeeded", "failed_permanent"},
                 NEW g \in B!Generations, NEW j \in B!Segments,
                 segment[g][j].state \in {"succeeded", "failed_permanent"}
          PROVE  segment'[g][j] = segment[g][j]
      BY <1>1, <2>3 DEF B!SetRow, B!Row, B!TypeOK
    <2> QED
      BY <2>1, <2>2, <2>3 DEF B!KeepsTheRest
  <1>8. ASSUME NEW g \in B!Generations, NEW i \in B!Segments, B!LeaseLapses(g, i)
        PROVE  /\ embedding' = embedding /\ curriculum' = curriculum /\ active' = active
               /\ \A h \in B!Generations, j \in B!Segments :
                    segment[h][j].state \in {"succeeded", "failed_permanent"} =>
                      segment'[h][j] = segment[h][j]
    BY <1>1, <1>8 DEF B!LeaseLapses, RowsSound, B!TypeOK
  <1>9. CASE B!Revoke
    BY <1>9 DEF B!Revoke, B!stored
  <1> QED
    BY <1>2, <1>3, <1>4, <1>5, <1>6, <1>7, <1>8, <1>9 DEF B!Next

(* A result, a segment given up and the content of a curriculum stand; a   *)
(* retired embedding or curriculum stays so; and a curriculum is activated *)
(* over the active embedding only.                                         *)
THEOREM CurriculaStand == B!Spec => CurriculumStands
  <1>1. BuildInv /\ [B!Next]_(B!vars) =>
          [/\ \A g \in B!Generations :
                /\ \A i \in B!Segments : segment[g][i].state \in {"succeeded", "failed_permanent"} =>
                                         segment'[g][i] = segment[g][i]
                /\ curriculum[g].status # "none" =>
                     curriculum'[g].results = curriculum[g].results
                /\ curriculum[g].status = "retired" => curriculum'[g] = curriculum[g]
                /\ embedding[g].status = "retired" => embedding'[g] = embedding[g]
           /\ active' # active => active' = current]_(B!vars)
    BY StandsStep
  <1> QED
    BY <1>1, BuildInit, BuildStep, PTL DEF B!Spec, CurriculumStands, B!CurriculumStands
=============================================================================

---------------------------- MODULE QuizDelivery ----------------------------
(***************************************************************************)
(* The review messages of one learner: DemoDeliveryService and its         *)
(* PostgresDemoDeliveryRepository, the Telegram and DirectMail adapters,    *)
(* the Telegram webhook or long-polling receiver that brings answers back,  *)
(* and the page an email links to.                                          *)
(*                                                                          *)
(* A dispatch reserves the due review schedules in a delivery, claims it,   *)
(* hands it to the provider and records the outcome, each in a transaction  *)
(* of its own.  Answers are finalised in one transaction and projected on   *)
(* the knowledge model afterwards.  Several dispatches and several          *)
(* responders overlap, and each may stop between two steps.                 *)
(***************************************************************************)
EXTENDS Integers, FiniteSets

CONSTANTS
    Schedules,   \* review schedules of the learner
    Keys,        \* idempotency keys of dispatch requests
    Answers,     \* response options of a question
    Calls,       \* dispatch requests, each made once
    Responders,  \* requests or poll iterations that finalise answers
    Batch,       \* LIMIT of reserveDueBatch (3)
    Lifetime,    \* EMAIL_LINK_LIFETIME_MS, in days
    MaxDay,      \* bound of the clock
    MaxUpdates,  \* bound of the buttons pressed
    MaxDue,      \* bound of the times a schedule falls due again
    None         \* SQL NULL, or no row

ASSUME BoundsAssumption ==
    {Batch, Lifetime, MaxDay, MaxUpdates, MaxDue} \subseteq Nat \ {0}

\* NULL is no value of a column.
ASSUME NullAssumption ==
    /\ None \notin Calls \cup Answers \cup Schedules \cup {"telegram", "email"} \X Keys
    /\ None \notin {"pending", "processing", "submitted", "delivered", "failed"}
    /\ \A S \in SUBSET Schedules : None \notin [S -> Answers]

Providers == {"telegram", "email"}
Deliveries == Providers \X Keys
Items == Deliveries \X Schedules          \* delivery_item, one attempt each
Updates == 1 .. MaxUpdates
Callback(u) == <<"callback", u>>
Submissions == {Callback(u) : u \in Updates} \cup Deliveries  \* provider_submission_id

VARIABLES
    inbound,     \* REFLO_DEMO_TELEGRAM_INBOUND_MODE of this process
    provider,    \* delivery_preference.provider
    now,         \* day
    due,         \* schedules with next_delivery_at <= now
    refell,      \* how often schedules fell due again
    delivery,    \* quiz_delivery rows
    call,        \* dispatch calls
    accepted,    \* messages the provider took, per delivery
    update,      \* callback queries Telegram holds, by update id
    pending,     \* updates not confirmed to Telegram yet
    keyboard,    \* buttons acknowledge removed from a message
    attempt,     \* attempt rows, by delivery item
    submission,  \* delivery_submission rows: the digest of the answers
    page,        \* EmailQuiz: its screen, its delivery and the answers chosen
    responder,   \* finalisations in flight
    recorded,    \* items whose evidence the knowledge model holds
    days,        \* delivery_streak_day rows
    streak       \* delivery_streak row

dispatchVars == <<delivery, call, accepted>>
inboxVars == <<update, pending, keyboard, page>>
answerVars == <<attempt, submission, responder, recorded, days, streak>>
vars == <<inbound, provider, now, due, refell, dispatchVars, inboxVars, answerVars>>

NoDelivery == [status |-> None, items |-> {}, expires |-> 0, holder |-> None,
               bound |-> FALSE, redeemed |-> FALSE]
NoCall == [pc |-> "idle", d |-> None, picks |-> {}]
NoUpdate == [d |-> None, s |-> None, a |-> None]
NoTask == [pc |-> "idle", sub |-> None, d |-> None, answers |-> <<>>,
           stored |-> {}, todo |-> {}, full |-> FALSE]
NoPage == [screen |-> "closed", d |-> None, answers |-> <<>>]
NoStreak == [current |-> 0, longest |-> 0, last |-> -1]

Init ==
    /\ inbound \in {"webhook", "long-poll"}
    /\ provider \in Providers
    /\ now = 0
    /\ due = Schedules
    /\ refell = 0
    /\ delivery = [d \in Deliveries |-> NoDelivery]
    /\ call = [c \in Calls |-> NoCall]
    /\ accepted = [d \in Deliveries |-> 0]
    /\ update = [u \in Updates |-> NoUpdate]
    /\ pending = {}
    /\ keyboard = {}
    /\ page = NoPage
    /\ attempt = [i \in Items |-> None]
    /\ submission = [s \in Submissions |-> None]
    /\ responder = [r \in Responders |-> NoTask]
    /\ recorded = {}
    /\ days = {}
    /\ streak = NoStreak

-----------------------------------------------------------------------------
(* Dispatch *)

\* updatePreference and savePreference.
UpdatePreference(p) ==
    /\ provider # p
    /\ provider' = p
    /\ UNCHANGED <<inbound, now, due, refell, dispatchVars, inboxVars, answerVars>>

Over == [NoCall EXCEPT !.pc = "over"]
Returned(c) == call' = [call EXCEPT ![c] = Over]

\* dispatch up to the preference: the request's delivery is the one of its key
\* and of the provider preferred now.
StartDispatch(c, k) ==
    /\ call[c].pc = "idle"
    /\ call' = [call EXCEPT ![c].pc = "reserve", ![c].d = <<provider, k>>]
    /\ UNCHANGED <<inbound, provider, now, due, refell, delivery, accepted, inboxVars, answerVars>>

Live(d) ==
    /\ delivery[d].status \in {"pending", "processing", "submitted"}
    /\ delivery[d].expires > now

\* Due schedules that no live delivery carries.
Available == {s \in due : \A d \in Deliveries : Live(d) => s \notin delivery[d].items}

NoLock(d) == TRUE

\* The advisory lock of user and provider.
Unlocked(d) == \A c \in Calls : call[c].pc = "insert" => call[c].d[1] # d[1]

Picks == {P \in SUBSET Available :
            Cardinality(P) = IF Cardinality(Available) < Batch
                             THEN Cardinality(Available) ELSE Batch}

\* reserveDueBatch up to its SELECT of due schedules, and what dispatch makes
\* of a delivery that exists already: only a pending one goes on.
ReserveDueBatch(c) ==
    /\ call[c].pc = "reserve"
    /\ Unlocked(call[c].d)
    /\ LET row == delivery[call[c].d] IN
        IF row.status # None
        THEN call' = [call EXCEPT ![c] =
                        IF row.status = "pending"
                        THEN [@ EXCEPT !.pc = "claim"] ELSE Over]
        ELSE IF Available = {} THEN Returned(c)
        ELSE \E P \in Picks :
                call' = [call EXCEPT ![c].pc = "insert", ![c].picks = P]
    /\ UNCHANGED <<inbound, provider, now, due, refell, delivery, accepted, inboxVars, answerVars>>

\* The rest of reserveDueBatch.  FOR UPDATE OF schedule locks rows another
\* provider's reservation only locked and did not change: they are not read again.
InsertDelivery(c) ==
    /\ call[c].pc = "insert"
    /\ delivery' = [delivery EXCEPT ![call[c].d] =
            [NoDelivery EXCEPT !.status = "pending", !.items = call[c].picks,
                               !.expires = now + Lifetime]]
    /\ call' = [call EXCEPT ![c].pc = "claim", ![c].picks = {}]
    /\ UNCHANGED <<inbound, provider, now, due, refell, accepted, inboxVars, answerVars>>

BoundOnAnyChannel(d) == [delivery[d] EXCEPT !.bound = TRUE]

\* bindEmailToken; the token is a function of the delivery, so that a second
\* dispatch binds the same one.
Bound(d) == [delivery[d] EXCEPT !.bound = (d[1] = "email")]

Claimable(row) == row.status = "pending" /\ row.holder = None

\* claimDispatch: the lease is written and never consulted.
ClaimDispatch(c) ==
    /\ call[c].pc = "claim"
    /\ LET d == call[c].d IN
        IF Claimable(delivery[d])
        THEN /\ delivery' = [delivery EXCEPT ![d] =
                    [Bound(d) EXCEPT !.status = "processing", !.holder = c]]
             /\ call' = [call EXCEPT ![c].pc = "send"]
        ELSE /\ delivery' = [delivery EXCEPT ![d] = Bound(d)]
             /\ Returned(c)
    /\ UNCHANGED <<inbound, provider, now, due, refell, accepted, inboxVars, answerVars>>

\* What a provider call may come to: the message taken and the answer read; the
\* answer lost, with or without the message taken; a refusal, or no capacity.
Outcomes == {[taken |-> TRUE,  pc |-> "submitted"],
             [taken |-> TRUE,  pc |-> "ambiguous"],
             [taken |-> FALSE, pc |-> "ambiguous"],
             [taken |-> FALSE, pc |-> "refused"]}

\* TelegramDemoMessageAdapter.send; CapacityGuardedEmailPort and DirectMail never
\* report a refusal after the mail is handed over.
Send(c) ==
    /\ call[c].pc = "send"
    /\ \E o \in Outcomes :
        /\ accepted' = [accepted EXCEPT ![call[c].d] = IF o.taken THEN @ + 1 ELSE @]
        /\ call' = [call EXCEPT ![c].pc = o.pc]
    /\ UNCHANGED <<inbound, provider, now, due, refell, delivery, inboxVars, answerVars>>

Holds(c) ==
    /\ delivery[call[c].d].status = "processing"
    /\ delivery[call[c].d].holder = c

\* markSubmitted, or its failure, after which the outcome counts as ambiguous.
MarkSubmitted(c) ==
    /\ call[c].pc = "submitted"
    /\ \/ /\ Holds(c)
          /\ delivery' = [delivery EXCEPT ![call[c].d].status = "submitted",
                                          ![call[c].d].holder = None]
          /\ Returned(c)
       \/ call' = [call EXCEPT ![c].pc = "ambiguous"] /\ UNCHANGED delivery
    /\ UNCHANGED <<inbound, provider, now, due, refell, accepted, inboxVars, answerVars>>

RetriedStatus(pc) == "pending"
FailedStatus(pc) == IF pc = "ambiguous" THEN "failed" ELSE "pending"

\* markDispatchFailed: what may have been sent is never sent again.
MarkDispatchFailed(c) ==
    /\ call[c].pc \in {"ambiguous", "refused"}
    /\ delivery' = IF Holds(c)
                   THEN [delivery EXCEPT ![call[c].d].status = FailedStatus(call[c].pc),
                                         ![call[c].d].holder = None]
                   ELSE delivery
    /\ Returned(c)
    /\ UNCHANGED <<inbound, provider, now, due, refell, accepted, inboxVars, answerVars>>

\* The process of a dispatch stops, or a statement fails outside its try.
StopDispatch(c) ==
    /\ call[c].pc \notin {"idle", "over"}
    /\ Returned(c)
    /\ UNCHANGED <<inbound, provider, now, due, refell, delivery, accepted, inboxVars, answerVars>>

-----------------------------------------------------------------------------
(* Answers *)

\* The learner presses a button that is still under a message: acknowledge takes
\* away the chosen button and leaves the other answers of the question.
PressButton(d, s, a) ==
    /\ d[1] = "telegram" /\ accepted[d] > 0 /\ s \in delivery[d].items
    /\ <<d, s, a>> \notin keyboard
    /\ \E u \in Updates :
        /\ update[u] = NoUpdate /\ \A v \in 1 .. u - 1 : update[v] # NoUpdate
        /\ update' = [update EXCEPT ![u] = [d |-> d, s |-> s, a |-> a]]
        /\ pending' = pending \cup {u}
    /\ UNCHANGED <<inbound, provider, now, due, refell, dispatchVars, keyboard, page, answerVars>>

Task(sub, d, answers) ==
    [pc |-> "finalize", sub |-> sub, d |-> d, answers |-> answers,
     stored |-> {}, todo |-> {}, full |-> FALSE]

\* The webhook takes updates in any order and side by side; pollOnce takes the
\* oldest one and waits for its handler.
Takes(u) ==
    \/ inbound = "webhook"
    \/ /\ \A v \in pending : u <= v
       /\ \A r \in Responders : responder[r].sub \notin {Callback(v) : v \in Updates}

HandleTelegramUpdate(r, u) ==
    /\ responder[r].pc = "idle"
    /\ u \in pending
    /\ Takes(u)
    /\ responder' = [responder EXCEPT ![r] =
            Task(Callback(u), update[u].d, [s \in {update[u].s} |-> update[u].a])]
    /\ UNCHANGED <<inbound, provider, now, due, refell, dispatchVars, inboxVars,
                   attempt, submission, recorded, days, streak>>

\* loadEmailPreview behind previewEmail.
Previewable(d) ==
    /\ delivery[d].status \in {"submitted", "delivered"}
    /\ delivery[d].bound /\ ~delivery[d].redeemed
    /\ delivery[d].expires >= now

\* The learner follows the link, again if need be.
OpenLink(d) ==
    /\ d[1] = "email" /\ accepted[d] > 0
    /\ page' = [NoPage EXCEPT !.screen = IF Previewable(d) THEN "ready" ELSE "invalid",
                              !.d = d]
    /\ UNCHANGED <<inbound, provider, now, due, refell, dispatchVars,
                   update, pending, keyboard, answerVars>>

\* submit and submitEmail: one answer to every question of the preview.
SubmitEmail(r, answers) ==
    /\ responder[r].pc = "idle"
    /\ page.screen = "ready"
    /\ page' = [page EXCEPT !.screen = "submitting", !.answers = answers]
    /\ responder' = [responder EXCEPT ![r] = Task(page.d, page.d, answers)]
    /\ UNCHANGED <<inbound, provider, now, due, refell, dispatchVars, update, pending, keyboard,
                   attempt, submission, recorded, days, streak>>

\* A response reaches the page if it still waits for it.
Tell(t, screen) ==
    page' = IF page.screen = "submitting" /\ t.sub = page.d /\ t.answers = page.answers
            THEN [page EXCEPT !.screen = screen] ELSE page

Finished(r) == responder' = [responder EXCEPT ![r] = NoTask]

\* An error: 410 for a redeemed or expired link, another status otherwise.
Failed(r) ==
    /\ Finished(r)
    /\ \E screen \in {"invalid", "error"} : Tell(responder[r], screen)

AnswerableWhenFailed(d) == delivery[d].status \in {"submitted", "delivered", "failed"}

Answerable(d) ==
    /\ delivery[d].status \in {"submitted", "delivered"}
    /\ delivery[d].expires >= now

\* An earlier answer to an item is another one.
Conflicts(t) ==
    \E s \in DOMAIN t.answers : attempt[<<t.d, s>>] \notin {None, t.answers[s]}

\* The email link: bound to its delivery and good for one submission.
Redeemed(d) == d[1] = "email" /\ (~delivery[d].bound \/ delivery[d].redeemed)

Unanswered(t) == {s \in DOMAIN t.answers : attempt[<<t.d, s>>] = None}

CountsLast(t) == TRUE

\* Whether the count sees an answer to every item: those committed and its own.
CountsAll(t) ==
    \A s \in delivery[t.d].items : s \in DOMAIN t.answers \/ attempt[<<t.d, s>>] # None

\* finalizeAnswers under the lock of its submission id, up to its COMMIT.
FinalizeAnswers(r) ==
    LET t == responder[r] IN
    /\ t.pc = "finalize"
    /\ \A q \in Responders : responder[q].pc = "commit" => responder[q].sub # t.sub
    /\ IF ~Answerable(t.d) \/ submission[t.sub] \notin {None, t.answers}
       THEN Failed(r)
       ELSE IF submission[t.sub] = t.answers
       THEN /\ responder' = [responder EXCEPT ![r].pc = "record",
                                              ![r].todo = DOMAIN t.answers]
            /\ UNCHANGED page
       ELSE IF Redeemed(t.d) \/ Conflicts(t)
       THEN Failed(r)
       ELSE /\ responder' = [responder EXCEPT ![r].pc = "commit",
                                              ![r].stored = Unanswered(t),
                                              ![r].full = CountsAll(t)]
            /\ UNCHANGED page
    /\ UNCHANGED <<inbound, provider, now, due, refell, dispatchVars, update, pending, keyboard,
                   attempt, submission, recorded, days, streak>>

StreakEveryAnswer(day) ==
    [current |-> streak.current + 1,
     longest |-> IF streak.current + 1 > streak.longest THEN streak.current + 1 ELSE streak.longest,
     last    |-> IF day > streak.last THEN day ELSE streak.last]

\* updateStreak.
NextStreak(day) ==
    LET run == IF day <= streak.last THEN streak.current
               ELSE IF day = streak.last + 1 /\ streak # NoStreak
                    THEN streak.current + 1 ELSE 1
    IN  [current |-> run,
         longest |-> IF run > streak.longest THEN run ELSE streak.longest,
         last    |-> IF day > streak.last THEN day ELSE streak.last]

NeverTaken(t) == FALSE

\* Another submission has answered an item since: the unique index refuses.
TakenMeanwhile(t) == \E s \in t.stored : attempt[<<t.d, s>>] # None

\* The COMMIT of finalizeAnswers.  The local date is that of the schedule's time
\* zone, this day or the next.
CommitAnswers(r) ==
    LET t == responder[r] IN
    /\ t.pc = "commit"
    /\ IF TakenMeanwhile(t)
       THEN Failed(r) /\ UNCHANGED <<delivery, attempt, submission, days, streak>>
       ELSE /\ attempt' = [i \in Items |->
                    IF i[1] = t.d /\ i[2] \in t.stored THEN t.answers[i[2]] ELSE attempt[i]]
            /\ submission' = [submission EXCEPT ![t.sub] = t.answers]
            /\ delivery' = [delivery EXCEPT
                    ![t.d].redeemed = (t.d[1] = "email"),
                    ![t.d].status = IF t.full THEN "delivered" ELSE @]
            /\ \E day \in {now, now + 1} :
                    days' = days \cup {day} /\ streak' = NextStreak(day)
            /\ responder' = [responder EXCEPT ![r].pc = "record", ![r].todo = DOMAIN t.answers]
            /\ UNCHANGED page
    /\ UNCHANGED <<inbound, provider, now, due, refell, call, accepted,
                   update, pending, keyboard, recorded>>

\* #recordKnowledge, one finalisation after the other; evidence recorded for the
\* first time moves the schedule on.
RecordKnowledge(r, s) ==
    /\ responder[r].pc = "record" /\ s \in responder[r].todo
    /\ recorded' = recorded \cup {<<responder[r].d, s>>}
    /\ due' = IF <<responder[r].d, s>> \in recorded THEN due ELSE due \ {s}
    /\ responder' = [responder EXCEPT ![r].todo = @ \ {s}]
    /\ UNCHANGED <<inbound, provider, now, refell, dispatchVars, inboxVars,
                   attempt, submission, days, streak>>

ProjectedLater(r) == responder[r].pc = "record"
Projected(r) == responder[r].pc = "record" /\ responder[r].todo = {}

\* The reply.  acknowledge edits the Telegram message; when the edit may not have
\* happened the update stays and is handled again, and an edit refused for good is
\* an invalid_input that polling skips and a webhook reports.
Reply(r) ==
    LET t == responder[r] IN
    /\ Projected(r)
    /\ Finished(r)
    /\ IF t.sub \in Deliveries
       THEN /\ \E screen \in {"submitted", "error"} : Tell(t, screen)
            /\ UNCHANGED <<update, pending, keyboard>>
       ELSE \E edit \in {"edited", "ambiguous", "refused"} :
              /\ keyboard' = IF edit = "edited"
                             THEN keyboard \cup {<<t.d, s, t.answers[s]>> : s \in DOMAIN t.answers}
                             ELSE keyboard
              /\ pending' = IF edit = "edited" \/ (edit = "refused" /\ inbound = "long-poll")
                            THEN pending \ {t.sub[2]} ELSE pending
              /\ UNCHANGED <<update, page>>
    /\ UNCHANGED <<inbound, provider, now, due, refell, dispatchVars,
                   attempt, submission, recorded, days, streak>>

\* A responder stops: an open transaction is rolled back.
StopResponder(r) ==
    /\ responder[r].pc # "idle"
    /\ Failed(r)
    /\ UNCHANGED <<inbound, provider, now, due, refell, dispatchVars, update, pending, keyboard,
                   attempt, submission, recorded, days, streak>>

-----------------------------------------------------------------------------
Tick ==
    /\ now < MaxDay
    /\ now' = now + 1
    /\ UNCHANGED <<inbound, provider, due, refell, dispatchVars, inboxVars, answerVars>>

\* A later review of a schedule falls due.
FallDue(s) ==
    /\ s \notin due /\ refell < MaxDue
    /\ due' = due \cup {s}
    /\ refell' = refell + 1
    /\ UNCHANGED <<inbound, provider, now, dispatchVars, inboxVars, answerVars>>

Dispatching(c) ==
    \/ \E k \in Keys : StartDispatch(c, k)
    \/ ReserveDueBatch(c) \/ InsertDelivery(c) \/ ClaimDispatch(c)
    \/ Send(c) \/ MarkSubmitted(c) \/ MarkDispatchFailed(c) \/ StopDispatch(c)

Responding(r) ==
    \/ \E u \in pending : HandleTelegramUpdate(r, u)
    \/ \E d \in Deliveries : \E answers \in [delivery[d].items -> Answers] :
            page.d = d /\ SubmitEmail(r, answers)
    \/ FinalizeAnswers(r) \/ CommitAnswers(r)
    \/ \E s \in Schedules : RecordKnowledge(r, s)
    \/ Reply(r) \/ StopResponder(r)

Next ==
    \/ \E p \in Providers : UpdatePreference(p)
    \/ \E c \in Calls : Dispatching(c)
    \/ \E d \in Deliveries, s \in Schedules, a \in Answers : PressButton(d, s, a)
    \/ \E d \in Deliveries : OpenLink(d)
    \/ \E r \in Responders : Responding(r)
    \/ Tick
    \/ \E s \in Schedules : FallDue(s)

Spec == Init /\ [][Next]_vars

-----------------------------------------------------------------------------
TypeOK ==
    /\ delivery \in [Deliveries ->
            [status : {None, "pending", "processing", "submitted", "delivered", "failed"},
             items : SUBSET Schedules, expires : 0 .. MaxDay + Lifetime,
             holder : Calls \cup {None}, bound : BOOLEAN, redeemed : BOOLEAN]]
    /\ \A d \in Deliveries : delivery[d].holder # None <=> delivery[d].status = "processing"
    /\ \A d \in Deliveries : delivery[d].bound \/ delivery[d].redeemed => d[1] = "email"
    /\ attempt \in [Items -> Answers \cup {None}]
    /\ pending \subseteq {u \in Updates : update[u] # NoUpdate}
    /\ days \subseteq 0 .. MaxDay + 1

\* However dispatches with one key overlap, fail or stop, the provider takes the
\* message of a delivery at most once (claimDispatch, and ambiguous failures).
AcceptedOnce == \A d \in Deliveries : accepted[d] <= 1

\* A schedule is in one live delivery of a provider at a time (the advisory lock
\* of reserveDueBatch).
OneLivePerProvider ==
    \A d, e \in Deliveries :
        d # e /\ d[1] = e[1] /\ Live(d) /\ Live(e)
            => delivery[d].items \cap delivery[e].items = {}

\* An answer was given to a message that was sent, and its delivery is never taken
\* for failed or unsent afterwards (finalizeAnswers).
AnsweredIsSubmitted ==
    \A i \in Items : attempt[i] # None =>
        /\ delivery[i[1]].status \in {"submitted", "delivered"}
        /\ accepted[i[1]] > 0

\* Only a delivery whose every item is answered counts as delivered.
DeliveredIsAnswered ==
    \A d \in Deliveries : delivery[d].status = "delivered" =>
        \A s \in delivery[d].items : attempt[<<d, s>>] # None

\* An update confirmed to Telegram has its answer stored and projected: no failure,
\* restart or order of updates loses one (pollOnce, handleTelegramUpdate).
ConfirmedIsRecorded ==
    \A u \in Updates : update[u] # NoUpdate /\ u \notin pending =>
        /\ attempt[<<update[u].d, update[u].s>>] = update[u].a
        /\ <<update[u].d, update[u].s>> \in recorded

\* What the page shows as recorded is stored as it was answered, and projected
\* (EmailQuiz, submitEmail), also when an earlier submission replayed.
ShownIsRecorded ==
    page.screen = "submitted" => \A s \in DOMAIN page.answers :
        /\ attempt[<<page.d, s>>] = page.answers[s]
        /\ <<page.d, s>> \in recorded

\* The streak is one the recorded days bear out: its length is at most that of the
\* run of days that ends with the last one (updateStreak).
StreakEarned ==
    /\ \A n \in 0 .. streak.current - 1 : streak.last - n \in days
    /\ streak.longest >= streak.current

\* The first answer to an item stands, whatever is submitted later.
FirstAnswerStands == [][\A i \in Items : attempt[i] # None => attempt'[i] = attempt[i]]_vars

\* A provider takes a delivery once, and a schedule waits in one live delivery.
OneDelivery == TypeOK /\ AcceptedOnce /\ OneLivePerProvider

\* An answer that was confirmed, shown or counted is stored, of a message that was sent.
AnswersKept ==
    /\ AnsweredIsSubmitted /\ DeliveredIsAnswered /\ ConfirmedIsRecorded /\ ShownIsRecorded
    /\ StreakEarned
=============================================================================

-------------------------- MODULE ApiServerProofs ---------------------------
(***************************************************************************)
(* Theorems about the requests to the API and the accounts they sign in    *)
(* and out of, for any number of requests, links and sessions, any quotas  *)
(* and lifetimes, and any routes.                                          *)
(***************************************************************************)
EXTENDS MCPlatform, FiniteSetTheorems, TLAPS

Steps == Working \cup {"idle", "returned"}
Results == {"none", "accepted", "unavailable", "refused", "opened", "account", "done",
            "recent_required"}
Phases == {"free", "session", "body", "handler", "account", "asked", "answered", "lost"}

(* The values of the variables that the proofs compute with. *)
Types ==
    /\ clock \in 0..MaxTime /\ user \in {"active", "deletion_pending"}
    /\ links \in [Links -> [state : {"unused", "live", "invalidated", "consumed"},
                            issued : Int, expires : Int]]
    /\ sessions \in [Sessions -> [state : {"unused", "open", "revoked"}, link : Links \cup {None},
                                  opened : Int, idle : Int, absolute : Int]]
    /\ inbox \subseteq Links
    /\ lock \in [{0} \cup Links -> Requests \cup {Free}]
    /\ call \in [Requests -> [step : Steps, at : 0..MaxTime, link : Links \cup {None},
                              session : Sessions \cup {None}, result : Results]]
    /\ phase \in [Requests -> Phases]
    /\ DOMAIN request = Requests

(* A call of the service is made in two phases of a request; a redeemed    *)
(* link was mailed, and a session that is named was given to a browser.    *)
Used(s) == s = None \/ sessions[s].state # "unused"
StagesOK ==
    \A p \in Requests :
        /\ call[p].step \in Working => phase[p] \in {"session", "account"}
        /\ phase[p] = "session" => request[p].route # "redeem"
        /\ phase[p] = "body" /\ request[p].route = "redeem" => call[p].link \in Links
        /\ call[p].step \in {"redeem", "enter", "send"} => call[p].link \in Links
        /\ Used(call[p].session)

(* Row locks are held between two statements of one transaction.  A        *)
(* transaction about to open a session holds its link, which is live, so   *)
(* that no other can issue, supersede or spend a link meanwhile.           *)
LocksHeld ==
    /\ \A r \in {0} \cup Links :
          lock[r] # Free => call[lock[r]].step \in {"issue", "enter", "revoke"}
    /\ \A p \in Requests : call[p].step = "enter" =>
          lock[call[p].link] = p /\ call[p].link \in Live

(* OneLiveLink without counting. *)
LiveAlone == \A k, l \in Live : k = l

(* A session came from a link that is consumed, or was there before.       *)
CameFromSpent ==
    \A s \in Sessions : sessions[s].state # "unused" =>
        IF sessions[s].link = None THEN s = 1 ELSE links[sessions[s].link].state = "consumed"

QuotaCounted == IsFiniteSet(reserved) /\ WithinTotal

SignInInv ==
    /\ Types /\ StagesOK /\ LocksHeld /\ LiveAlone
    /\ CameFromSpent /\ SpentOnce /\ DeletionSignsOut /\ IdleBounded
    /\ QuotaCounted
-----------------------------------------------------------------------------
(* A step of the API, action by action: each is a step of one request, but *)
(* for the passing of time and a listener that ends.                       *)
Listens(p) ==
    Authenticated(p) \/ ReadBody(p) \/ Handle(p) \/ Serviced(p) \/ Refused(p) \/ Asks(p)
Arrives(p) ==
    \E r \in Routes, trusted, csrf \in BOOLEAN, s \in Cookies :
      \E l \in (IF r = "redeem" THEN inbox ELSE {None}) : Receive(p, r, trusted, csrf, l, s)
Transacts(p) ==
    /\ \/ Reserve(p) \/ LockAddress(p) \/ IssueLink(p) \/ SendLink(p) \/ LockLink(p)
       \/ OpenSession(p) \/ Authenticate(p) \/ Logout(p) \/ LockUser(p) \/ RevokeAll(p)
       \/ call[p].step \in Working /\ Aborted(p)
    /\ UNCHANGED <<request, phase, status, stored>>

(* A step is a tick, a stutter, or one thing that one request does. *)
LEMMA NextCases ==
    ASSUME [Next]_vars
    PROVE  \/ Tick /\ UNCHANGED serverVars
           \/ UNCHANGED vars
           \/ \E p \in Requests : Arrives(p) \/ Listens(p) \/ Transacts(p) \/ Rejected(p)
<1>1. ASSUME NEW p \in Requests, DeadlockVictim(p) PROVE call[p].step \in Working /\ Aborted(p)
  <2>1. Awaited(p) # {} => call[p].step \in Working
    BY Zenon DEF Awaited, Working
  <2> QED
    BY <1>1, <2>1 DEF DeadlockVictim, WaitsFor
<1>2. ASSUME NEW p \in Requests, Serve(p) /\ UNCHANGED serverVars PROVE Transacts(p)
  BY <1>1, <1>2 DEF Serve, Transacts, serverVars
<1>3. ASSUME NEW p \in Requests, Fault(p) PROVE Transacts(p) \/ Rejected(p)
  BY <1>3 DEF Fault, Fail, Transacts
<1>4. ASSUME NEW p \in Requests, Step(p) PROVE Listens(p) \/ Transacts(p)
  BY <1>2, <1>4 DEF Step, Listens
<1>5. Arrive(Routes) => \E p \in Requests : Arrives(p)
  BY DEF Arrive, Arrives
<1> QED
  BY <1>3, <1>4, <1>5 DEF Next, Work

-----------------------------------------------------------------------------
(* The initial state satisfies the invariant. *)
LEMMA InitSignIn == ServerInit => SignInInv
<1> SUFFICES ASSUME ServerInit PROVE SignInInv
  OBVIOUS
<1> USE AccountsAssumption DEF ServerInit, Init, None, Free
<1>1. Types
  <2>1. /\ clock \in 0..MaxTime /\ user \in {"active", "deletion_pending"} /\ inbox \subseteq Links
        /\ lock \in [{0} \cup Links -> Requests \cup {Free}]
        /\ phase \in [Requests -> Phases] /\ DOMAIN request = Requests
    BY DEF Phases
  <2>2. links \in [Links -> [state : {"unused", "live", "invalidated", "consumed"},
                             issued : Int, expires : Int]]
    OBVIOUS
  <2>3. sessions \in [Sessions -> [state : {"unused", "open", "revoked"}, link : Links \cup {None},
                                   opened : Int, idle : Int, absolute : Int]]
    OBVIOUS
  <2>4. call \in [Requests -> [step : Steps, at : 0..MaxTime, link : Links \cup {None},
                               session : Sessions \cup {None}, result : Results]]
    BY DEF Idle, Steps, Results
  <2> QED
    BY <2>1, <2>2, <2>3, <2>4 DEF Types
<1>2. StagesOK
  BY DEF StagesOK, Idle, Used, Working
<1>3. LocksHeld /\ LiveAlone
  BY DEF LocksHeld, LiveAlone, Live, Idle
<1>4. CameFromSpent /\ SpentOnce /\ DeletionSignsOut
  BY DEF CameFromSpent, SpentOnce, DeletionSignsOut
<1>5. IdleBounded
  BY DEF IdleBounded
<1>6. QuotaCounted
  BY FS_EmptySet DEF QuotaCounted, WithinTotal
<1> QED
  BY <1>1, <1>2, <1>3, <1>4, <1>5, <1>6 DEF SignInInv

-----------------------------------------------------------------------------
(* The types of the calls, and of what is kept of the requests. *)
Calls == [Requests -> [step : Steps, at : 0..MaxTime, link : Links \cup {None},
                       session : Sessions \cup {None}, result : Results]]

(* A call that is set by Now is a call. *)
LEMMA NowTyped ==
    ASSUME call \in Calls, NEW p \in Requests, NEW step \in Steps, NEW at \in 0..MaxTime,
           NEW link \in Links \cup {None}, NEW session \in Sessions \cup {None},
           NEW result \in Results
    PROVE  Now(p, step, at, link, session, result) \in Calls
  BY DEF Calls, Now

(* What the listener does keeps the types and leaves the tables alone. *)
LEMMA ListenerTypes ==
    ASSUME Types, NEW p \in Requests, Arrives(p) \/ Listens(p) \/ Rejected(p)
    PROVE  /\ call' \in Calls /\ phase' \in [Requests -> Phases] /\ DOMAIN request' = Requests
           /\ UNCHANGED <<clock, user, links, sessions, reserved, inbox>>
<1> USE AccountsAssumption DEF Types, Phases, Await, Waits, Replied, accountVars, storeVars
<1>0. /\ call \in Calls /\ clock \in 0..MaxTime /\ 0 \in 0..MaxTime
      /\ None \in Links \cup {None} /\ None \in Sessions \cup {None}
      /\ {"idle", "returned", "authenticate", "logout", "delete", "redeem", "reserve"} \subseteq Steps
      /\ {"none", "accepted", "recent_required"} \subseteq Results
      /\ call[p].at \in 0..MaxTime /\ call[p].link \in Links \cup {None}
      /\ call[p].session \in Sessions \cup {None}
  BY DEF Calls, Steps, Working, Results
<1>1. ASSUME NEW code, Answered(p, code)
      PROVE  /\ call' \in Calls /\ phase' \in [Requests -> Phases] /\ DOMAIN request' = Requests
             /\ UNCHANGED <<clock, user, links, sessions, reserved, inbox>>
  <2>1. call' \in Calls
    BY <1>0, <1>1, NowTyped DEF Answered
  <2> QED
    BY <1>1, <2>1 DEF Answered
<1>2. ASSUME Arrives(p)
      PROVE  /\ call' \in Calls /\ phase' \in [Requests -> Phases] /\ DOMAIN request' = Requests
             /\ UNCHANGED <<clock, user, links, sessions, reserved, inbox>>
  <2>1. PICK r \in Routes, trusted \in BOOLEAN, csrf \in BOOLEAN, s \in Cookies :
          \E l \in (IF r = "redeem" THEN inbox ELSE {None}) : Receive(p, r, trusted, csrf, l, s)
    BY <1>2 DEF Arrives
  <2>2. PICK l \in Links \cup {None} : Receive(p, r, trusted, csrf, l, s)
    BY <2>1
  <2>3. s \in Sessions \cup {None}
    BY DEF Cookies
  <2>4. call' \in {call, Now(p, "idle", 0, l, None, "none"), Calling(p, "authenticate", None, s)}
    BY <2>2 DEF Receive, BeginAuthenticate
  <2>5. call' \in Calls
    <3>1. Now(p, "idle", 0, l, None, "none") \in Calls
      BY <1>0, NowTyped
    <3>2. Calling(p, "authenticate", None, s) \in Calls
      BY <1>0, <2>3, NowTyped DEF Calling
    <3> QED
      BY <1>0, <2>4, <3>1, <3>2
  <2>6. phase' \in [Requests -> Phases] /\ DOMAIN request' = Requests
    BY <2>2 DEF Receive
  <2>7. UNCHANGED <<clock, user, links, sessions, reserved, inbox>>
    BY <2>2 DEF Receive, BeginAuthenticate
  <2> QED
    BY <2>5, <2>6, <2>7
<1>3. CASE \E code : Answered(p, code)
  BY <1>1, <1>3
<1>4. CASE Authenticated(p) /\ ~ \E code : Answered(p, code)
  <2>1. call' \in {call, Calling(p, "logout", call[p].link, call[p].session),
                   Calling(p, "delete", call[p].link, call[p].session),
                   Returned(p, "recent_required")}
    BY <1>4 DEF Authenticated, BeginLogout, BeginDeletion
  <2>2. call' \in Calls
    <3>1. Calling(p, "logout", call[p].link, call[p].session) \in Calls
      BY <1>0, NowTyped DEF Calling
    <3>2. Calling(p, "delete", call[p].link, call[p].session) \in Calls
      BY <1>0, NowTyped DEF Calling
    <3>3. Returned(p, "recent_required") \in Calls
      BY <1>0, NowTyped DEF Returned, Going
    <3> QED
      BY <1>0, <2>1, <3>1, <3>2, <3>3
  <2>3. phase' \in [Requests -> Phases] /\ DOMAIN request' = Requests
    BY <1>4 DEF Authenticated
  <2>4. UNCHANGED <<clock, user, links, sessions, reserved, inbox>>
    BY <1>4 DEF Authenticated, BeginLogout, BeginDeletion
  <2> QED
    BY <2>2, <2>3, <2>4
<1>5. CASE ReadBody(p) /\ ~ \E code : Answered(p, code)
  <2>1. call' \in {call, Calling(p, "reserve", None, None),
                   Now(p, "returned", 0, None, None, "accepted"),
                   Calling(p, "redeem", call[p].link, None)}
    BY <1>5 DEF ReadBody, BeginMagicLink, BeginRedeem
  <2>2. call' \in Calls
    <3>1. Calling(p, "reserve", None, None) \in Calls
      BY <1>0, NowTyped DEF Calling
    <3>2. Now(p, "returned", 0, None, None, "accepted") \in Calls
      BY <1>0, NowTyped
    <3>3. Calling(p, "redeem", call[p].link, None) \in Calls
      BY <1>0, NowTyped DEF Calling
    <3> QED
      BY <1>0, <2>1, <3>1, <3>2, <3>3
  <2>3. phase' \in [Requests -> Phases] /\ DOMAIN request' = Requests
    BY <1>5 DEF ReadBody
  <2>4. UNCHANGED <<clock, user, links, sessions, reserved, inbox>>
    BY <1>5 DEF ReadBody, BeginMagicLink, BeginRedeem
  <2> QED
    BY <2>2, <2>3, <2>4
<1>6. Handle(p) \/ Serviced(p) \/ Refused(p) \/ Asks(p) => \E code : Answered(p, code)
  BY DEF Handle, Serviced, Refused, Asks
<1>7. CASE Rejected(p)
  <2>1. Idle \in [step : Steps, at : 0..MaxTime, link : Links \cup {None},
                  session : Sessions \cup {None}, result : Results]
    BY <1>0 DEF Idle
  <2>2. call' \in Calls
    BY <1>7, <2>1, <1>0 DEF Rejected, Calls
  <2> QED
    BY <1>7, <2>2 DEF Rejected
<1> QED
  BY <1>2, <1>3, <1>4, <1>5, <1>6, <1>7 DEF Listens

(* The transactions of signing in keep the types. *)
LEMMA TransactionTypes ==
    ASSUME Types, StagesOK, NEW p \in Requests, Transacts(p)
    PROVE  Types'
<1> DEFINE LinkRow == [state : {"unused", "live", "invalidated", "consumed"},
                       issued : Int, expires : Int]
           SessionRow == [state : {"unused", "open", "revoked"}, link : Links \cup {None},
                          opened : Int, idle : Int, absolute : Int]
           LinksOK == links' \in [Links -> LinkRow]
           SessionsOK == sessions' \in [Sessions -> SessionRow]
           LocksOK == lock' \in [{0} \cup Links -> Requests \cup {Free}]
           OthersOK == /\ user' \in {"active", "deletion_pending"} /\ inbox' \subseteq Links
                       /\ UNCHANGED <<clock, phase, request>>
<1> USE AccountsAssumption
<1>0. /\ call \in Calls /\ clock \in 0..MaxTime
      /\ links \in [Links -> LinkRow] /\ sessions \in [Sessions -> SessionRow]
      /\ lock \in [{0} \cup Links -> Requests \cup {Free}]
      /\ user \in {"active", "deletion_pending"} /\ inbox \subseteq Links
  BY DEF Types, Calls
<1>1. /\ call[p].at \in 0..MaxTime /\ call[p].link \in Links \cup {None}
      /\ call[p].session \in Sessions \cup {None} /\ call[p].result \in Results
      /\ call[p].at \in Int
  BY <1>0 DEF Calls
<1>2. ASSUME NEW step \in Steps, NEW result \in Results
      PROVE  Going(p, step, result) \in Calls
  BY <1>0, <1>1, <1>2, NowTyped DEF Going
<1>3. /\ {"address", "issue", "send", "enter", "revoke", "returned"} \subseteq Steps
      /\ {"accepted", "unavailable", "refused", "opened", "account", "done"} \subseteq Results
  BY DEF Steps, Working, Results
<1>4. /\ Released(p) \in [{0} \cup Links -> Requests \cup {Free}]
      /\ \A rows \in SUBSET ({0} \cup Links) :
            Taken(p, rows) \in [{0} \cup Links -> Requests \cup {Free}]
  BY <1>0 DEF Released, Taken
<1>5. ASSUME NEW s \in Sessions PROVE Revoked(s) \in SessionRow
  BY <1>0 DEF Revoked
<1>6. ASSUME call' \in Calls, LinksOK, SessionsOK, LocksOK, OthersOK PROVE Types'
  BY <1>0, <1>6 DEF Types, Calls
<1>7. Live \subseteq Links
  BY DEF Live
<1>8. UNCHANGED <<phase, request>>
  BY DEF Transacts
<1>9. ASSUME NEW step \in Steps, To(p, step) PROVE call' \in Calls
  BY <1>1, <1>2, <1>9 DEF To
<1>10. ASSUME NEW result \in Results, call' = Returned(p, result) PROVE call' \in Calls
  BY <1>2, <1>3, <1>10 DEF Returned
<1> HIDE DEF LinkRow, SessionRow
<1>11. CASE Reserve(p)
  <2>1. call' \in Calls
    BY <1>3, <1>9, <1>10, <1>11 DEF Reserve
  <2> QED
    BY <1>0, <1>6, <1>8, <1>11, <2>1 DEF Reserve
<1>12. CASE LockAddress(p)
  <2>1. call' \in Calls
    BY <1>3, <1>9, <1>12 DEF LockAddress
  <2>2. LocksOK
    BY <1>4, <1>12 DEF LockAddress
  <2> QED
    BY <1>0, <1>6, <1>8, <1>12, <2>1, <2>2 DEF LockAddress
<1>13. CASE IssueLink(p)
  <2>1. CASE call' = Returned(p, "unavailable") /\ UNCHANGED links
    <3>1. call' \in Calls
      BY <1>3, <1>10, <2>1
    <3> QED
      BY <1>0, <1>4, <1>6, <1>8, <1>13, <2>1, <3>1 DEF IssueLink
  <2>2. CASE ~ (call' = Returned(p, "unavailable") /\ UNCHANGED links)
    <3>1. PICK new \in Links :
            /\ links' = [l \in Links |->
                 IF l = new THEN [state |-> "live", issued |-> call[p].at,
                                  expires |-> call[p].at + LinkLife]
                 ELSE IF l \in Superseded THEN [links[l] EXCEPT !.state = "invalidated"]
                 ELSE links[l]]
            /\ call' = Now(p, "send", call[p].at, new, call[p].session, call[p].result)
      BY <1>13, <2>2 DEF IssueLink
    <3>2. call' \in Calls
      BY <1>0, <1>1, <1>3, <3>1, NowTyped
    <3>3. LinksOK
      BY <1>0, <1>1, <3>1 DEF LinkRow
    <3> QED
      BY <1>0, <1>4, <1>6, <1>8, <1>13, <3>2, <3>3 DEF IssueLink
  <2> QED
    BY <2>1, <2>2
<1>14. CASE SendLink(p)
  <2>1. call' \in Calls
    BY <1>3, <1>10, <1>14 DEF SendLink
  <2>2. call[p].link \in Links
    BY <1>14 DEF SendLink, StagesOK
  <2> QED
    BY <1>0, <1>6, <1>8, <1>14, <2>1, <2>2 DEF SendLink
<1>15. CASE LockLink(p)
  <2>1. call' \in Calls
    BY <1>3, <1>9, <1>10, <1>15 DEF LockLink
  <2>2. call[p].link \in Links
    BY <1>15 DEF LockLink, StagesOK
  <2>3. LocksOK
    BY <1>0, <1>4, <1>7, <1>15, <2>2 DEF LockLink
  <2> QED
    BY <1>0, <1>6, <1>8, <1>15, <2>1, <2>3 DEF LockLink
<1>16. CASE OpenSession(p)
  <2>1. LinksOK
    BY <1>0, <1>16 DEF OpenSession, LinkRow
  <2>2. CASE call' = Returned(p, "refused") /\ UNCHANGED sessions
    <3>1. call' \in Calls
      BY <1>3, <1>10, <2>2
    <3> QED
      BY <1>0, <1>4, <1>6, <1>8, <1>16, <2>1, <2>2, <3>1 DEF OpenSession
  <2>3. CASE ~ (call' = Returned(p, "refused") /\ UNCHANGED sessions)
    <3>1. PICK s \in Sessions :
            /\ sessions' = [sessions EXCEPT ![s] =
                 [state |-> "open", link |-> call[p].link, opened |-> call[p].at,
                  idle |-> call[p].at + IdleLife, absolute |-> call[p].at + AbsoluteLife]]
            /\ call' = Now(p, "returned", call[p].at, call[p].link, s, "opened")
      BY <1>16, <2>3 DEF OpenSession
    <3>2. call' \in Calls
      BY <1>0, <1>1, <1>3, <3>1, NowTyped
    <3>3. SessionsOK
      BY <1>0, <1>1, <3>1 DEF SessionRow
    <3> QED
      BY <1>0, <1>4, <1>6, <1>8, <1>16, <2>1, <3>2, <3>3 DEF OpenSession
  <2> QED
    BY <2>2, <2>3
<1>17. CASE Authenticate(p)
  <2>1. call' \in Calls
    BY <1>3, <1>10, <1>17 DEF Authenticate
  <2>2. SessionsOK
    <3>1. CASE UNCHANGED sessions
      BY <1>0, <3>1
    <3>2. CASE sessions' = [sessions EXCEPT ![call[p].session] = Revoked(call[p].session)]
      BY <1>0, <1>5, <3>2
    <3>3. CASE sessions' = [sessions EXCEPT ![call[p].session] =
                 [@ EXCEPT !.idle = SlidTo(call[p].session, call[p].at)]]
      <4> DEFINE s == call[p].session
      <4>1. ASSUME s \in Sessions
            PROVE  [sessions[s] EXCEPT !.idle = SlidTo(s, call[p].at)] \in SessionRow
        <5>1. IdleLife \in Int
          BY AccountsAssumption
        <5>2. sessions[s] \in SessionRow
          BY <1>0, <4>1
        <5>3. sessions[s].absolute \in Int
          BY <5>2 DEF SessionRow
        <5>4. call[p].at + IdleLife \in Int
          BY <1>1, <5>1
        <5>5. SlidTo(s, call[p].at) \in Int
          BY <5>3, <5>4 DEF SlidTo, Sooner
        <5> QED
          BY <5>2, <5>5 DEF SessionRow
      <4> QED
        BY <1>0, <3>3, <4>1
    <3> QED
      BY <1>17, <3>1, <3>2, <3>3 DEF Authenticate
  <2> QED
    BY <1>0, <1>6, <1>8, <1>17, <2>1, <2>2 DEF Authenticate
<1>18. CASE Logout(p)
  <2>1. call' \in Calls
    BY <1>3, <1>10, <1>18 DEF Logout
  <2>2. SessionsOK
    BY <1>0, <1>5, <1>18 DEF Logout
  <2> QED
    BY <1>0, <1>6, <1>8, <1>18, <2>1, <2>2 DEF Logout
<1>19. CASE LockUser(p)
  <2>1. call' \in Calls
    BY <1>3, <1>9, <1>19 DEF LockUser
  <2>2. LocksOK
    BY <1>0, <1>4, <1>19 DEF LockUser
  <2> QED
    BY <1>0, <1>6, <1>8, <1>19, <2>1, <2>2 DEF LockUser
<1>20. CASE RevokeAll(p)
  <2>1. call' \in Calls
    BY <1>3, <1>10, <1>20 DEF RevokeAll
  <2>2. SessionsOK
    BY <1>0, <1>5, <1>20 DEF RevokeAll
  <2> QED
    BY <1>0, <1>4, <1>6, <1>8, <1>20, <2>1, <2>2 DEF RevokeAll
<1>21. CASE Aborted(p)
  <2>1. call' \in Calls
    BY <1>3, <1>10, <1>21 DEF Aborted
  <2> QED
    BY <1>0, <1>4, <1>6, <1>8, <1>21, <2>1 DEF Aborted, RolledBack
<1> QED
  BY <1>11, <1>12, <1>13, <1>14, <1>15, <1>16, <1>17, <1>18, <1>19, <1>20, <1>21 DEF Transacts

(* Every step keeps the types. *)
LEMMA TypesStep == Types /\ StagesOK /\ [Next]_vars => Types'
<1> SUFFICES ASSUME Types, StagesOK, [Next]_vars PROVE Types'
  OBVIOUS
<1>1. ASSUME NEW p \in Requests, Arrives(p) \/ Listens(p) \/ Rejected(p) PROVE Types'
  <2>1. lock' \in [{0} \cup Links -> Requests \cup {Free}]
    <3>1. CASE Rejected(p)
      BY <3>1 DEF Rejected, Types
    <3>2. CASE Arrives(p) \/ Listens(p)
      BY <3>2 DEF Types, Arrives, Receive, Listens, Authenticated, ReadBody, Handle, Serviced,
         Refused, Asks, Answered, Waits, BeginAuthenticate, BeginMagicLink, BeginRedeem,
         BeginLogout, BeginDeletion, accountVars, storeVars
    <3> QED
      BY <1>1, <3>1, <3>2
  <2> QED
    BY <1>1, <2>1, ListenerTypes DEF Types, Calls
<1>2. CASE Tick /\ UNCHANGED serverVars
  BY <1>2, AccountsAssumption DEF Tick, serverVars, Types
<1>3. CASE UNCHANGED vars
  BY <1>3 DEF vars, accountVars, serverVars, Types
<1> QED
  BY <1>1, <1>2, <1>3, NextCases, TransactionTypes

-----------------------------------------------------------------------------
(* The sessions change in four transactions, and the links in two. *)
LEMMA SessionsChange ==
    ASSUME [Next]_vars
    PROVE  \/ UNCHANGED sessions
           \/ \E p \in Requests : OpenSession(p) \/ Authenticate(p) \/ Logout(p) \/ RevokeAll(p)
<1>1. ASSUME NEW p \in Requests, Arrives(p) \/ Listens(p) \/ Rejected(p) PROVE UNCHANGED sessions
  BY <1>1 DEF Arrives, Receive, Listens, Authenticated, ReadBody, Handle, Serviced,
     Refused, Asks, Answered, Waits, BeginAuthenticate, BeginMagicLink, BeginRedeem,
     BeginLogout, BeginDeletion, accountVars, storeVars, Rejected
<1>2. ASSUME NEW p \in Requests, Transacts(p)
      PROVE  UNCHANGED sessions \/ OpenSession(p) \/ Authenticate(p) \/ Logout(p) \/ RevokeAll(p)
  BY <1>2 DEF Transacts, Reserve, LockAddress, IssueLink, SendLink, LockLink, LockUser, Aborted
<1> QED
  BY <1>1, <1>2, NextCases DEF Tick, vars, accountVars

(* Only issuing a link and opening a session change the links. *)
LEMMA LinksChange ==
    ASSUME [Next]_vars
    PROVE  UNCHANGED links \/ \E p \in Requests : IssueLink(p) \/ OpenSession(p)
<1>1. ASSUME NEW p \in Requests, Arrives(p) \/ Listens(p) \/ Rejected(p) PROVE UNCHANGED links
  BY <1>1 DEF Arrives, Receive, Listens, Authenticated, ReadBody, Handle, Serviced,
     Refused, Asks, Answered, Waits, BeginAuthenticate, BeginMagicLink, BeginRedeem,
     BeginLogout, BeginDeletion, accountVars, storeVars, Rejected
<1>2. ASSUME NEW p \in Requests, Transacts(p) PROVE UNCHANGED links \/ IssueLink(p) \/ OpenSession(p)
  BY <1>2 DEF Transacts, Reserve, LockAddress, SendLink, LockLink, Authenticate, Logout,
     LockUser, RevokeAll, Aborted
<1> QED
  BY <1>1, <1>2, NextCases DEF Tick, vars, accountVars

(* A session that was given out is never unused again. *)
LEMMA UsedStays ==
    ASSUME Types, [Next]_vars, NEW s
    PROVE  s \in Sessions /\ sessions[s].state # "unused" => sessions'[s].state # "unused"
<1>1. sessions \in [Sessions -> [state : {"unused", "open", "revoked"}, link : Links \cup {None},
                                 opened : Int, idle : Int, absolute : Int]]
  BY DEF Types
<1>2. ASSUME NEW p \in Requests,
             OpenSession(p) \/ Authenticate(p) \/ Logout(p) \/ RevokeAll(p)
      PROVE  s \in Sessions /\ sessions[s].state # "unused" => sessions'[s].state # "unused"
  <2>1. CASE OpenSession(p)
    BY <1>1, <2>1 DEF OpenSession
  <2>2. CASE Authenticate(p)
    BY <1>1, <2>2 DEF Authenticate, Known, Revoked
  <2>3. CASE Logout(p)
    BY <1>1, <2>3 DEF Logout, Revoked
  <2>4. CASE RevokeAll(p)
    BY <1>1, <2>4 DEF RevokeAll, Revoked
  <2> QED
    BY <1>2, <2>1, <2>2, <2>3, <2>4
<1> QED
  BY <1>2, SessionsChange

(* The routes a link is redeemed through are not those of an account. *)
LEMMA RedeemIsPublic == "redeem" \notin Reads \cup Writes
  BY DEF Reads, Writes, AccountReads, UploadReads, DeliveryReads, SessionReads, AssessmentReads,
     StudyReads, AssetReads, AccountWrites, DeliveryWrites, SeedWrites, SessionWrites,
     RegenerationWrites, UploadWrites, TutorWrites, AssessmentWrites

(* What StagesOK says of one request. *)
StageOK(p) ==
    /\ call[p].step \in Working => phase[p] \in {"session", "account"}
    /\ phase[p] = "session" => request[p].route # "redeem"
    /\ phase[p] = "body" /\ request[p].route = "redeem" => call[p].link \in Links
    /\ call[p].step \in {"redeem", "enter", "send"} => call[p].link \in Links
    /\ Used(call[p].session)

(* A step of one request leaves the others where they are. *)
LEMMA OthersStay ==
    ASSUME Types, NEW p \in Requests, Arrives(p) \/ Listens(p) \/ Transacts(p),
           NEW q \in Requests \ {p}
    PROVE  call'[q] = call[q] /\ phase'[q] = phase[q] /\ request'[q] = request[q]
<1> USE DEF Now, Going, Calling, To, Returned, Await, Replied, Waits, accountVars
<1>0. /\ call \in Calls /\ phase \in [Requests -> Phases] /\ DOMAIN request = Requests
  BY DEF Types, Calls
<1>1. CASE Arrives(p)
  BY <1>0, <1>1 DEF Calls, Arrives, Receive, BeginAuthenticate
<1>2. CASE Listens(p)
  BY <1>0, <1>2 DEF Calls, Listens, Authenticated, ReadBody, Handle, Serviced, Refused, Asks,
     Answered, BeginMagicLink, BeginRedeem, BeginLogout, BeginDeletion
<1>3. CASE Transacts(p)
  BY <1>0, <1>3 DEF Calls, Transacts, Reserve, LockAddress, IssueLink, SendLink, LockLink,
     OpenSession, Authenticate, Logout, LockUser, RevokeAll, Aborted
<1> QED
  BY <1>1, <1>2, <1>3

(* What a step makes of the call of the request that takes it. *)
LEMMA ListenerStage ==
    ASSUME Types, StagesOK, NEW p \in Requests, Arrives(p) \/ Listens(p)
    PROVE  StageOK(p)'
<1> USE DEF Now, Going, Calling, Returned, Await, Replied, Waits
<1>0. /\ call \in Calls /\ phase \in [Requests -> Phases] /\ DOMAIN request = Requests
      /\ inbox \subseteq Links /\ StageOK(p)
  BY DEF Types, Calls, StagesOK, StageOK
<1>1. UNCHANGED sessions
  BY ListenerTypes
<1>2. ASSUME NEW code, Answered(p, code) PROVE StageOK(p)'
  <2>1. phase'[p] = "answered" /\ call'[p].step = "idle" /\ call'[p].session \in {None, call[p].session}
    BY <1>0, <1>2 DEF Answered, Calls
  <2> QED
    BY <1>0, <1>1, <2>1 DEF StageOK, Working, Used
<1>3. CASE Arrives(p)
  <2>1. PICK r \in Routes, trusted \in BOOLEAN, csrf \in BOOLEAN, s \in Cookies :
          \E l \in (IF r = "redeem" THEN inbox ELSE {None}) : Receive(p, r, trusted, csrf, l, s)
    BY <1>3 DEF Arrives
  <2>2. PICK l \in (IF r = "redeem" THEN inbox ELSE {None}) : Receive(p, r, trusted, csrf, l, s)
    BY <2>1
  <2>3. request'[p].route = r /\ phase[p] = "free" /\ call[p].step \notin Working
    BY <1>0, <2>2 DEF Receive, StageOK
  <2>4. CASE r \in AtOnce \cup Asked \cup Hooks /\ UNCHANGED accountVars
                 /\ phase'[p] \in {"answered", "asked", "body"}
    <3>1. r # "redeem"
      BY <2>4 DEF AtOnce, Asked, Hooks
    <3> QED
      BY <1>0, <1>1, <2>3, <2>4, <3>1 DEF accountVars, StageOK, Used, Calls, Working
  <2>5. CASE r \in Signing /\ phase'[p] = "body" /\ call' = Now(p, "idle", 0, l, None, "none")
    <3>1. r = "redeem" => l \in Links
      BY <1>0, <2>2
    <3>2. call'[p].link = l /\ call'[p].step = "idle" /\ call'[p].session = None
      BY <1>0, <2>5 DEF Calls
    <3> QED
      BY <2>3, <2>5, <3>1, <3>2 DEF StageOK, Used, Working
  <2>6. CASE r \in Signing /\ phase'[p] = "answered" /\ UNCHANGED accountVars
    BY <1>0, <2>3, <2>6 DEF accountVars, StageOK, Used, Working
  <2>7. CASE r \in Reads \cup Writes /\ phase'[p] = "session" /\ BeginAuthenticate(p, s)
    <3>1. r # "redeem"
      BY <2>7, RedeemIsPublic
    <3>2. call'[p].step = "authenticate" /\ call'[p].session = s
      BY <1>0, <2>7 DEF BeginAuthenticate, Calls
    <3>3. Used(s)'
      BY <1>1 DEF Cookies, Used
    <3> QED
      BY <2>3, <2>7, <3>1, <3>2, <3>3 DEF StageOK, Working
  <2> QED
    BY <1>0, <2>2, <2>4, <2>5, <2>6, <2>7 DEF Receive
<1>4. CASE Authenticated(p) /\ ~ \E code : Answered(p, code)
  <2>1. call[p].step = "returned" /\ request[p].route # "redeem" /\ request' = request
    BY <1>0, <1>4 DEF Authenticated, StageOK
  <2>2. \/ call' = call /\ phase'[p] \in {"body", "handler"}
        \/ /\ phase'[p] = "account" /\ call'[p].session = call[p].session
           /\ call'[p].step \in {"logout", "delete", "returned"}
    BY <1>0, <1>4 DEF Authenticated, BeginLogout, BeginDeletion, accountVars, Calls
  <2> QED
    BY <1>0, <1>1, <2>1, <2>2 DEF StageOK, Used, Working
<1>5. CASE ReadBody(p) /\ ~ \E code : Answered(p, code)
  <2>1. phase[p] = "body" /\ request' = request /\ call[p].step \notin Working
    BY <1>0, <1>5 DEF ReadBody, StageOK
  <2>2. \/ call' = call /\ phase'[p] = "handler"
        \/ /\ phase'[p] = "account" /\ call'[p].session = None
           /\ \/ call'[p].step \in {"reserve", "returned"}
              \/ call'[p].step = "redeem" /\ call'[p].link = call[p].link
                   /\ request[p].route = "redeem"
    BY <1>0, <1>5 DEF ReadBody, BeginMagicLink, BeginRedeem, accountVars, Calls
  <2> QED
    BY <1>0, <1>1, <2>1, <2>2 DEF StageOK, Used, Working
<1>6. Handle(p) \/ Serviced(p) \/ Refused(p) \/ Asks(p) => \E code : Answered(p, code)
  BY DEF Handle, Serviced, Refused, Asks
<1> QED
  BY <1>2, <1>3, <1>4, <1>5, <1>6 DEF Listens

(* A call has what its next step needs after each transaction. *)
LEMMA TransactionStage ==
    ASSUME Types, StagesOK, [Next]_vars, NEW p \in Requests, Transacts(p)
    PROVE  StageOK(p)'
<1> USE DEF Now, Going, To, Returned
<1>0. /\ call \in Calls /\ UNCHANGED <<phase, request>> /\ StageOK(p)
      /\ (call[p].step \in Working => phase[p] # "body")
  BY DEF Types, Calls, StagesOK, StageOK, Transacts
<1>1. /\ call[p].step \in Working
      /\ \/ call'[p].step = "returned"
         \/ call'[p].step \in {"address", "issue", "revoke"}
         \/ call'[p].step = "send" /\ call'[p].link \in Links
         \/ call'[p].step = "enter" /\ call'[p].link = call[p].link /\ call[p].step = "redeem"
  BY <1>0 DEF Calls, Transacts, Reserve, LockAddress, IssueLink, SendLink, LockLink,
     OpenSession, Authenticate, Logout, LockUser, RevokeAll, Aborted, Working
<1>2. \/ call'[p].session = call[p].session
      \/ \E s \in Sessions : call'[p].session = s /\ sessions'[s].state = "open"
  BY <1>0 DEF Types, Calls, Transacts, Reserve, LockAddress, IssueLink, SendLink, LockLink,
     OpenSession, Authenticate, Logout, LockUser, RevokeAll, Aborted
<1>3. Used(call[p].session)'
  <2>1. CASE call'[p].session = call[p].session
    <3>1. call[p].session \in Sessions \cup {None} /\ Used(call[p].session)
      BY <1>0 DEF Calls, StageOK
    <3>2. call[p].session = None \/ sessions'[call[p].session].state # "unused"
      BY <3>1, UsedStays, AccountsAssumption DEF Used
    <3> QED
      BY <2>1, <3>2 DEF Used
  <2>2. CASE \E s \in Sessions : call'[p].session = s /\ sessions'[s].state = "open"
    BY <2>2 DEF Used
  <2> QED
    BY <1>2, <2>1, <2>2
<1> QED
  BY <1>0, <1>1, <1>3 DEF StageOK, Working

(* A request stays in the stage its calls belong to. *)
LEMMA StagesStep == Types /\ StagesOK /\ [Next]_vars => StagesOK'
<1> SUFFICES ASSUME Types, StagesOK, [Next]_vars, NEW q \in Requests PROVE StageOK(q)'
  BY DEF StagesOK, StageOK
<1>1. StageOK(q)
  BY DEF StagesOK, StageOK
<1>2. ASSUME call'[q] = call[q], phase'[q] = phase[q], request'[q] = request[q] PROVE StageOK(q)'
  <2>1. call[q].session \in Sessions \cup {None}
    BY DEF Types
  <2>2. call[q].session = None \/ sessions'[call[q].session].state # "unused"
    BY <1>1, <2>1, UsedStays, AccountsAssumption DEF StageOK, Used
  <2> QED
    BY <1>1, <1>2, <2>2 DEF StageOK, Used
<1>3. ASSUME NEW p \in Requests, Arrives(p) \/ Listens(p) \/ Transacts(p) PROVE StageOK(q)'
  <2>1. CASE p = q
    BY <1>3, <2>1, ListenerStage, TransactionStage
  <2>2. CASE p # q
    BY <1>2, <1>3, <2>2, OthersStay
  <2> QED
    BY <2>1, <2>2
<1>4. ASSUME NEW p \in Requests, Rejected(p) PROVE StageOK(q)'
  <2>1. CASE q \in InFlight
    <3>1. call'[q] = Idle /\ phase'[q] = "lost"
      BY <1>4, <2>1 DEF Rejected
    <3> QED
      BY <3>1 DEF StageOK, Idle, Used, Working
  <2>2. CASE q \notin InFlight
    BY <1>2, <1>4, <2>2 DEF Rejected
  <2> QED
    BY <2>1, <2>2
<1>5. CASE (Tick /\ UNCHANGED serverVars) \/ UNCHANGED vars
  BY <1>2, <1>5 DEF Tick, vars, accountVars, serverVars
<1> QED
  BY <1>3, <1>4, <1>5, NextCases

-----------------------------------------------------------------------------
(* The steps between two statements of a transaction that holds locks. *)
Holding == {"issue", "enter", "revoke"}

(* The listener's steps take place outside of transactions. *)
LEMMA ListenersHoldNothing ==
    ASSUME Types, StagesOK, NEW p \in Requests, Arrives(p) \/ Listens(p)
    PROVE  /\ call[p].step \notin Working /\ call'[p].step \notin Holding
           /\ UNCHANGED <<lock, links>>
<1> USE DEF Now, Going, Calling, Returned, Await, Replied, Waits, Working, Holding
<1>1. call \in Calls /\ StageOK(p)
  BY DEF Types, Calls, StagesOK, StageOK
<1>2. CASE Arrives(p)
  BY <1>1, <1>2 DEF Arrives, Receive, BeginAuthenticate, StageOK, Calls, accountVars, storeVars
<1>3. CASE \E code : Answered(p, code) /\ Listens(p)
  BY <1>1, <1>3 DEF Answered, Listens, Authenticated, ReadBody, Handle, Serviced, Refused, Asks,
     StageOK, Calls, storeVars
<1>4. CASE Listens(p) /\ ~ \E code : Answered(p, code)
  BY <1>1, <1>4 DEF Listens, Authenticated, ReadBody, Handle, Serviced, Refused, Asks, StageOK,
     BeginMagicLink, BeginRedeem, BeginLogout, BeginDeletion, Calls, accountVars
<1> QED
  BY <1>2, <1>3, <1>4

(* A transaction about to open a session excludes every other that would   *)
(* touch a live link: it holds the only one.                               *)
LEMMA EnterExcludes ==
    ASSUME Types, LocksHeld, LiveAlone, NEW p \in Requests, NEW q \in Requests \ {p},
           call[q].step = "enter"
    PROVE  /\ call[p].step # "enter"
           /\ Blocked(p, Live) /\ Live = {call[q].link} /\ lock[call[q].link] = q
<1>1. lock[call[q].link] = q /\ call[q].link \in Live
  BY DEF LocksHeld
<1>2. Live = {call[q].link}
  BY <1>1 DEF LiveAlone
<1>3. q \notin {Free, p}
  BY AccountsAssumption
<1> QED
  BY <1>1, <1>2, <1>3 DEF Blocked, LocksHeld

(* A transaction of one request changes the locks of no other. *)
LEMMA LocksStep ==
    Types /\ StagesOK /\ LocksHeld /\ LiveAlone /\ [Next]_vars => LocksHeld'
<1> SUFFICES ASSUME Types, StagesOK, LocksHeld, LiveAlone, [Next]_vars PROVE LocksHeld'
  OBVIOUS
<1> DEFINE HeldOK == \A r \in {0} \cup Links : lock'[r] # Free => call'[lock'[r]].step \in Holding
           EnterOK == \A q \in Requests : call'[q].step = "enter" =>
                         lock'[call'[q].link] = q /\ links'[call'[q].link].state = "live"
                           /\ call'[q].link \in Links
<1>0. /\ call \in Calls /\ lock \in [{0} \cup Links -> Requests \cup {Free}]
      /\ 0 \notin Links /\ Free \notin Requests
      /\ \A r \in {0} \cup Links : lock[r] # Free => call[lock[r]].step \in Holding
      /\ \A q \in Requests : call[q].step = "enter" =>
            lock[call[q].link] = q /\ links[call[q].link].state = "live" /\ call[q].link \in Links
  BY AccountsAssumption DEF Types, Calls, LocksHeld, Holding, Live, None
<1>1. ASSUME HeldOK, EnterOK PROVE LocksHeld'
  BY <1>1 DEF LocksHeld, Holding, Live
<1>2. ASSUME NEW p \in Requests, UNCHANGED <<lock, links>>,
             \A q \in Requests \ {p} : call'[q] = call[q],
             call[p].step \notin Holding, call'[p].step \notin Holding
      PROVE  LocksHeld'
  <2>1. HeldOK
    BY <1>0, <1>2
  <2>2. EnterOK
    BY <1>0, <1>2 DEF Holding
  <2> QED
    BY <1>1, <2>1, <2>2
<1>3. ASSUME NEW p \in Requests, NEW rows \in SUBSET ({0} \cup Links),
             lock' = Taken(p, rows), links' = links,
             \A q \in Requests \ {p} : call'[q] = call[q],
             call[p].step \notin Holding, call'[p].step \in Holding,
             \A q \in Requests \ {p} : call[q].step = "enter" => call[q].link \notin rows,
             call'[p].step = "enter" =>
                call'[p].link \in rows \cap Links /\ links[call'[p].link].state = "live"
      PROVE  LocksHeld'
  <2>1. HeldOK
    BY <1>0, <1>3 DEF Taken
  <2>2. EnterOK
    BY <1>0, <1>3 DEF Taken
  <2> QED
    BY <1>1, <2>1, <2>2
<1>4. ASSUME NEW p \in Requests, lock' = Released(p),
             \A q \in Requests \ {p} : call'[q] = call[q], call'[p].step \notin Holding,
             \A q \in Requests \ {p} : call[q].step = "enter" =>
                links'[call[q].link].state = "live"
      PROVE  LocksHeld'
  <2>1. HeldOK
    BY <1>0, <1>4 DEF Released
  <2>2. EnterOK
    BY <1>0, <1>4 DEF Released, Holding
  <2> QED
    BY <1>1, <2>1, <2>2
<1>5. ASSUME NEW p \in Requests, Arrives(p) \/ Listens(p) PROVE LocksHeld'
  <2>1. \A q \in Requests \ {p} : call'[q] = call[q]
    BY <1>5, OthersStay
  <2> QED
    BY <1>2, <1>5, <2>1, ListenersHoldNothing DEF Holding, Working
<1>6. ASSUME NEW p \in Requests, Transacts(p) PROVE LocksHeld'
  <2> USE DEF Now, Going, To, Returned
  <2>0. \A q \in Requests \ {p} : call'[q] = call[q]
    BY <1>6, OthersStay
  <2>1. CASE Reserve(p) \/ SendLink(p) \/ Authenticate(p) \/ Logout(p)
    <3>1. /\ UNCHANGED <<lock, links>>
          /\ call[p].step \notin Holding /\ call'[p].step \notin Holding
      BY <1>0, <2>1 DEF Reserve, SendLink, Authenticate, Logout, Holding, Calls
    <3> QED
      BY <1>2, <2>0, <3>1
  <2>2. CASE LockAddress(p)
    <3>1. /\ lock' = Taken(p, {0}) /\ links' = links
          /\ call[p].step = "address" /\ call'[p].step = "issue"
      BY <1>0, <2>2 DEF LockAddress, Calls
    <3> QED
      BY <1>0, <1>3, <2>0, <3>1 DEF Holding
  <2>3. CASE LockUser(p)
    <3>1. /\ links' = links /\ call[p].step = "delete" /\ call'[p].step = "revoke"
          /\ lock' = Taken(p, {0}) \/ lock' = Taken(p, {})
      BY <1>0, <2>3 DEF LockUser, Calls, Taken
    <3> QED
      BY <1>0, <1>3, <2>0, <3>1 DEF Holding
  <2>4. CASE LockLink(p)
    <3>1. CASE Redeemable(call[p].link, call[p].at)
      <4>1. /\ lock' = Taken(p, {call[p].link} \cup Live) /\ links' = links
            /\ call[p].step = "redeem" /\ call'[p].step = "enter" /\ call'[p].link = call[p].link
            /\ ~Blocked(p, Live)
        BY <1>0, <2>4, <3>1 DEF LockLink, Calls
      <4>2. call[p].link \in Links /\ links[call[p].link].state = "live"
        BY <3>1, <4>1 DEF Redeemable, StagesOK
      <4>3. \A q \in Requests \ {p} : call[q].step # "enter"
        BY <4>1, EnterExcludes
      <4>4. {call[p].link} \cup Live \in SUBSET ({0} \cup Links)
        BY <4>2 DEF Live
      <4> QED
        BY <1>3, <2>0, <4>1, <4>2, <4>3, <4>4 DEF Holding
    <3>2. CASE ~Redeemable(call[p].link, call[p].at)
      <4>1. /\ UNCHANGED <<lock, links>>
            /\ call[p].step = "redeem" /\ call'[p].step = "returned"
        BY <1>0, <2>4, <3>2 DEF LockLink, Calls
      <4> QED
        BY <1>2, <2>0, <4>1 DEF Holding
    <3> QED
      BY <3>1, <3>2
  <2>5. CASE IssueLink(p)
    <3>1. /\ lock' = Released(p) /\ ~Blocked(p, Live)
          /\ call'[p].step \in {"send", "returned"}
      BY <1>0, <2>5 DEF IssueLink, Superseded, Calls
    <3>2. \A q \in Requests \ {p} : call[q].step # "enter"
      BY <3>1, EnterExcludes
    <3> QED
      BY <1>4, <2>0, <3>1, <3>2 DEF Holding
  <2>6. CASE OpenSession(p)
    <3>1. lock' = Released(p) /\ call[p].step = "enter" /\ call'[p].step = "returned"
      BY <1>0, <2>6 DEF OpenSession, Calls
    <3>2. \A q \in Requests \ {p} : call[q].step # "enter"
      BY <3>1, EnterExcludes
    <3> QED
      BY <1>4, <2>0, <3>1, <3>2 DEF Holding
  <2>7. CASE RevokeAll(p) \/ Aborted(p)
    <3>1. lock' = Released(p) /\ links' = links /\ call'[p].step = "returned"
      BY <1>0, <2>7 DEF RevokeAll, Aborted, RolledBack, Calls
    <3> QED
      BY <1>0, <1>4, <2>0, <3>1 DEF Holding
  <2> QED
    BY <1>6, <2>1, <2>2, <2>3, <2>4, <2>5, <2>6, <2>7 DEF Transacts
<1>7. ASSUME NEW p \in Requests, Rejected(p) PROVE LocksHeld'
  <2>1. HeldOK
    <3>1. \A r \in {0} \cup Links : lock'[r] = Free
      BY <1>0, <1>7 DEF Rejected
    <3> QED
      BY <3>1
  <2>2. EnterOK
    <3>1. \A q \in Requests \ InFlight : call'[q] = call[q] /\ call[q].step # "enter"
      BY <1>7 DEF Rejected, InFlight, StagesOK, Working
    <3>2. \A q \in InFlight : call'[q].step # "enter"
      BY <1>7 DEF Rejected, InFlight, Idle
    <3> QED
      BY <3>1, <3>2
  <2> QED
    BY <1>1, <2>1, <2>2
<1>8. CASE (Tick /\ UNCHANGED serverVars) \/ UNCHANGED vars
  <2>1. UNCHANGED <<lock, links, call>>
    BY <1>8 DEF Tick, vars, accountVars
  <2> QED
    BY <1>0, <1>1, <2>1
<1> QED
  BY <1>5, <1>6, <1>7, <1>8, NextCases

(* The new link supersedes the live ones; none is revived. *)
LEMMA LiveStep == Types /\ LiveAlone /\ [Next]_vars => LiveAlone'
<1> SUFFICES ASSUME Types, LiveAlone, [Next]_vars PROVE LiveAlone'
  OBVIOUS
<1>1. CASE UNCHANGED links
  BY <1>1 DEF LiveAlone, Live
<1>2. ASSUME NEW p \in Requests, OpenSession(p) PROVE LiveAlone'
  <2>1. Live' \subseteq Live
    BY <1>2 DEF OpenSession, Live, Types
  <2> QED
    BY <2>1 DEF LiveAlone
<1>3. ASSUME NEW p \in Requests, IssueLink(p), links' # links PROVE LiveAlone'
  <2>1. PICK new \in Links : links' = [l \in Links |->
          IF l = new THEN [state |-> "live", issued |-> call[p].at, expires |-> call[p].at + LinkLife]
          ELSE IF l \in Superseded THEN [links[l] EXCEPT !.state = "invalidated"] ELSE links[l]]
    BY <1>3 DEF IssueLink
  <2>2. Live' \subseteq {new}
    BY <2>1 DEF Live, Superseded, Types
  <2> QED
    BY <2>2 DEF LiveAlone
<1> QED
  BY <1>1, <1>2, <1>3, LinksChange

-----------------------------------------------------------------------------
(* What the transactions on sessions that are not opening one change. *)
LEMMA SessionsLapse ==
    ASSUME Types, StagesOK, NEW p \in Requests, Authenticate(p) \/ Logout(p) \/ RevokeAll(p),
           NEW s \in Sessions
    PROVE  /\ sessions'[s].link = sessions[s].link /\ sessions'[s].absolute = sessions[s].absolute
           /\ sessions[s].state = "unused" => sessions'[s].state = "unused"
           /\ sessions'[s].state = "open" => sessions[s].state = "open"
           /\ sessions'[s].idle = sessions[s].idle \/ sessions'[s].idle <= sessions[s].absolute
<1>1. sessions \in [Sessions -> [state : {"unused", "open", "revoked"}, link : Links \cup {None},
                                 opened : Int, idle : Int, absolute : Int]]
      /\ call[p].at \in Int /\ IdleLife \in Int
  BY AccountsAssumption DEF Types
<1>2. call[p].session = s => sessions[s].state # "unused"
  BY AccountsAssumption DEF StagesOK, Used, None
<1>3. CASE Authenticate(p)
  <2>1. CASE sessions' = [sessions EXCEPT ![call[p].session] =
                 [@ EXCEPT !.idle = SlidTo(call[p].session, call[p].at)]]
    <3>1. sessions[s].absolute \in Int /\ call[p].at + IdleLife \in Int
      BY <1>1
    <3>2. SlidTo(s, call[p].at) <= sessions[s].absolute
      BY <3>1 DEF SlidTo, Sooner
    <3>3. CASE call[p].session = s
      <4>1. sessions'[s] = [sessions[s] EXCEPT !.idle = SlidTo(s, call[p].at)]
        BY <1>1, <2>1, <3>3
      <4> QED
        BY <1>1, <3>2, <4>1
    <3>4. CASE call[p].session # s
      BY <1>1, <2>1, <3>4
    <3> QED
      BY <3>3, <3>4
  <2>2. CASE sessions' = [sessions EXCEPT ![call[p].session] = Revoked(call[p].session)]
    BY <1>1, <1>2, <2>2 DEF Revoked
  <2>3. CASE UNCHANGED sessions
    BY <2>3
  <2> QED
    BY <1>3, <2>1, <2>2, <2>3 DEF Authenticate
<1>4. CASE Logout(p)
  BY <1>1, <1>2, <1>4 DEF Logout, Revoked
<1>5. CASE RevokeAll(p)
  BY <1>1, <1>5 DEF RevokeAll, Revoked
<1> QED
  BY <1>3, <1>4, <1>5

(* A session that is opened is new, and its link is spent with it. *)
LEMMA SessionOpens ==
    ASSUME Types, StagesOK, LocksHeld, NEW p \in Requests, OpenSession(p), sessions' # sessions
    PROVE  \E s \in Sessions :
             /\ sessions[s].state = "unused" /\ user = "active"
             /\ call[p].link \in Live /\ links'[call[p].link].state = "consumed"
             /\ sessions' = [sessions EXCEPT ![s] =
                  [state |-> "open", link |-> call[p].link, opened |-> call[p].at,
                   idle |-> call[p].at + IdleLife, absolute |-> call[p].at + AbsoluteLife]]
<1>1. call[p].link \in Live /\ call[p].link \in Links
  BY DEF OpenSession, LocksHeld, Live
<1>2. links'[call[p].link].state = "consumed"
  BY <1>1 DEF OpenSession, Types
<1> QED
  BY <1>1, <1>2 DEF OpenSession, Opens

(* A link that is spent stays spent. *)
LEMMA SpentStays ==
    ASSUME Types, LocksHeld, [Next]_vars, NEW k \in Links, links[k].state = "consumed"
    PROVE  links'[k].state = "consumed"
<1>1. ASSUME NEW p \in Requests, IssueLink(p) PROVE links'[k].state = "consumed"
  BY <1>1 DEF IssueLink, Superseded, Live
<1>2. ASSUME NEW p \in Requests, OpenSession(p) PROVE links'[k].state = "consumed"
  BY <1>2 DEF OpenSession, Live, Types
<1> QED
  BY <1>1, <1>2, LinksChange

(* Every session but the first is the only one of its link. *)
LEMMA SpentStep ==
    Types /\ StagesOK /\ LocksHeld /\ CameFromSpent /\ SpentOnce /\ [Next]_vars
      => CameFromSpent' /\ SpentOnce'
<1> SUFFICES ASSUME Types, StagesOK, LocksHeld, CameFromSpent, SpentOnce, [Next]_vars
             PROVE  CameFromSpent' /\ SpentOnce'
  OBVIOUS
<1>0. /\ sessions \in [Sessions -> [state : {"unused", "open", "revoked"}, link : Links \cup {None},
                                    opened : Int, idle : Int, absolute : Int]]
      /\ None \notin Links
  BY AccountsAssumption DEF Types
<1>1. ASSUME \A s \in Sessions : /\ sessions'[s].link = sessions[s].link
                                 /\ sessions[s].state = "unused" => sessions'[s].state = "unused"
      PROVE  CameFromSpent' /\ SpentOnce'
  <2>1. CameFromSpent'
    BY <1>0, <1>1, SpentStays DEF CameFromSpent
  <2>2. SpentOnce'
    BY <1>1 DEF SpentOnce
  <2> QED
    BY <2>1, <2>2
<1>2. ASSUME NEW p \in Requests, OpenSession(p), sessions' # sessions
      PROVE  CameFromSpent' /\ SpentOnce'
  <2>1. PICK s \in Sessions :
             /\ sessions[s].state = "unused"
             /\ call[p].link \in Live /\ links'[call[p].link].state = "consumed"
             /\ sessions' = [sessions EXCEPT ![s] =
                  [state |-> "open", link |-> call[p].link, opened |-> call[p].at,
                   idle |-> call[p].at + IdleLife, absolute |-> call[p].at + AbsoluteLife]]
    BY <1>2, SessionOpens
  <2>2. call[p].link \in Links /\ links[call[p].link].state = "live"
    BY <2>1 DEF Live
  <2>3. CameFromSpent'
    BY <1>0, <2>1, <2>2, SpentStays DEF CameFromSpent
  <2>4. \A t \in Sessions : sessions[t].state # "unused" => sessions[t].link # call[p].link
    BY <1>0, <2>2 DEF CameFromSpent
  <2>5. SpentOnce'
    BY <1>0, <2>1, <2>4 DEF SpentOnce
  <2> QED
    BY <2>3, <2>5
<1>3. CASE UNCHANGED sessions
  BY <1>1, <1>3
<1>4. ASSUME NEW p \in Requests, Authenticate(p) \/ Logout(p) \/ RevokeAll(p)
      PROVE  CameFromSpent' /\ SpentOnce'
  BY <1>1, <1>4, SessionsLapse
<1> QED
  BY <1>2, <1>3, <1>4, SessionsChange

(* The user changes with the revocation of every session. *)
LEMMA UserChanges ==
    ASSUME [Next]_vars
    PROVE  UNCHANGED user \/ \E p \in Requests : RevokeAll(p)
<1>1. ASSUME NEW p \in Requests, Arrives(p) \/ Listens(p) \/ Rejected(p) PROVE UNCHANGED user
  BY <1>1 DEF Arrives, Receive, Listens, Authenticated, ReadBody, Handle, Serviced,
     Refused, Asks, Answered, Waits, BeginAuthenticate, BeginMagicLink, BeginRedeem,
     BeginLogout, BeginDeletion, accountVars, storeVars, Rejected
<1>2. ASSUME NEW p \in Requests, Transacts(p) PROVE UNCHANGED user \/ RevokeAll(p)
  BY <1>2 DEF Transacts, Reserve, LockAddress, IssueLink, SendLink, LockLink, OpenSession,
     Authenticate, Logout, LockUser, Aborted
<1> QED
  BY <1>1, <1>2, NextCases DEF Tick, vars, accountVars

(* Nobody signs in to an account that is leaving, and no idle expiry       *)
(* passes the absolute one.                                                *)
LEMMA SessionsStep ==
    Types /\ StagesOK /\ LocksHeld /\ DeletionSignsOut /\ IdleBounded /\ [Next]_vars
      => DeletionSignsOut' /\ IdleBounded'
<1> SUFFICES ASSUME Types, StagesOK, LocksHeld, DeletionSignsOut, IdleBounded, [Next]_vars
             PROVE  DeletionSignsOut' /\ IdleBounded'
  OBVIOUS
<1>0. /\ sessions \in [Sessions -> [state : {"unused", "open", "revoked"}, link : Links \cup {None},
                                    opened : Int, idle : Int, absolute : Int]]
      /\ \A p \in Requests : call[p].at \in Int
      /\ IdleLife \in Int /\ AbsoluteLife \in Int /\ IdleLife <= AbsoluteLife
  BY AccountsAssumption DEF Types
<1>1. ASSUME NEW p \in Requests, OpenSession(p), sessions' # sessions
      PROVE  DeletionSignsOut' /\ IdleBounded'
  <2>1. PICK s \in Sessions :
             /\ sessions[s].state = "unused" /\ user = "active"
             /\ sessions' = [sessions EXCEPT ![s] =
                  [state |-> "open", link |-> call[p].link, opened |-> call[p].at,
                   idle |-> call[p].at + IdleLife, absolute |-> call[p].at + AbsoluteLife]]
    BY <1>1, SessionOpens
  <2>2. user' = user
    BY <1>1 DEF OpenSession
  <2>3. DeletionSignsOut'
    BY <2>1, <2>2 DEF DeletionSignsOut
  <2>4. call[p].at + IdleLife <= call[p].at + AbsoluteLife
    BY <1>0
  <2>5. IdleBounded'
    BY <1>0, <2>1, <2>4 DEF IdleBounded
  <2> QED
    BY <2>3, <2>5
<1>2. ASSUME NEW p \in Requests, Authenticate(p) \/ Logout(p) \/ RevokeAll(p)
      PROVE  IdleBounded'
  BY <1>0, <1>2, SessionsLapse DEF IdleBounded
<1>3. ASSUME NEW p \in Requests, RevokeAll(p) PROVE DeletionSignsOut'
  BY <1>0, <1>3 DEF RevokeAll, Revoked, DeletionSignsOut
<1>4. ASSUME NEW p \in Requests, Authenticate(p) \/ Logout(p) PROVE DeletionSignsOut'
  <2>1. user' = user
    BY <1>4 DEF Authenticate, Logout
  <2> QED
    BY <1>4, <2>1, SessionsLapse DEF DeletionSignsOut
<1>5. CASE UNCHANGED sessions
  <2>1. IdleBounded'
    BY <1>5 DEF IdleBounded
  <2>2. UNCHANGED user => DeletionSignsOut'
    BY <1>5 DEF DeletionSignsOut
  <2> QED
    BY <1>3, <2>1, <2>2, UserChanges
<1> QED
  BY <1>1, <1>2, <1>3, <1>4, <1>5, SessionsChange

(* A reservation is counted under the lock it is made under. *)
LEMMA QuotaStep == QuotaCounted /\ [Next]_vars => QuotaCounted'
<1> SUFFICES ASSUME QuotaCounted, [Next]_vars PROVE QuotaCounted'
  OBVIOUS
<1>1. ASSUME NEW p \in Requests, Arrives(p) \/ Listens(p) \/ Rejected(p) PROVE UNCHANGED reserved
  BY <1>1 DEF Arrives, Receive, Listens, Authenticated, ReadBody, Handle, Serviced,
     Refused, Asks, Answered, Waits, BeginAuthenticate, BeginMagicLink, BeginRedeem,
     BeginLogout, BeginDeletion, accountVars, storeVars, Rejected
<1>2. ASSUME NEW p \in Requests, Transacts(p) PROVE UNCHANGED reserved \/ Reserve(p)
  BY <1>2 DEF Transacts, LockAddress, IssueLink, SendLink, LockLink, OpenSession,
     Authenticate, Logout, LockUser, RevokeAll, Aborted
<1>3. ASSUME NEW p \in Requests, Reserve(p), reserved' # reserved PROVE QuotaCounted'
  <2>1. /\ reserved' = reserved \cup {<<p, call[p].at>>}
        /\ Cardinality(reserved) < TotalLimit
    BY <1>3 DEF Reserve, MayReserve
  <2>2. /\ IsFiniteSet(reserved') /\ Cardinality(reserved') <= Cardinality(reserved) + 1
        /\ Cardinality(reserved) \in Nat /\ Cardinality(reserved') \in Nat
    <3>1. IsFiniteSet(reserved) /\ IsFiniteSet(reserved')
      BY <2>1, FS_AddElement DEF QuotaCounted
    <3>2. Cardinality(reserved) \in Nat /\ Cardinality(reserved') \in Nat
      BY <3>1, FS_CardinalityType
    <3>3. \/ Cardinality(reserved') = Cardinality(reserved)
          \/ Cardinality(reserved') = Cardinality(reserved) + 1
      BY <2>1, <3>1, FS_AddElement, Zenon
    <3> QED
      BY <3>1, <3>2, <3>3
  <2> QED
    BY <2>1, <2>2, AccountsAssumption DEF QuotaCounted, WithinTotal
<1>4. CASE UNCHANGED reserved
  BY <1>4 DEF QuotaCounted, WithinTotal
<1> QED
  BY <1>1, <1>2, <1>3, <1>4, NextCases DEF Tick, vars, accountVars

-----------------------------------------------------------------------------
(* The inductive invariant holds in every state of the API. *)
THEOREM SignInInvariant == Spec => []SignInInv
<1>1. SignInInv /\ [Next]_vars => SignInInv'
  BY TypesStep, StagesStep, LocksStep, LiveStep, SpentStep, SessionsStep, QuotaStep DEF SignInInv
<1> QED
  BY InitSignIn, <1>1, PTL DEF Spec

(* Two live links would be the same one. *)
LEMMA LiveCounted == LiveAlone => OneLiveLink
<1> SUFFICES ASSUME LiveAlone PROVE Cardinality(Live) <= 1
  BY DEF OneLiveLink
<1>1. CASE Live = {}
  BY <1>1, FS_EmptySet
<1>2. ASSUME NEW l \in Live PROVE Cardinality(Live) <= 1
  <2>1. Live = {l}
    BY <1>2 DEF LiveAlone
  <2> QED
    BY <2>1, FS_Singleton
<1> QED
  BY <1>1, <1>2

(* SignInSound, what the run of overlapping requests checks: a link opens  *)
(* one session, one link of an address is live, nobody is signed in to an  *)
(* account that is being deleted, the quota holds and idle expiries stay   *)
(* within the absolute ones (service.ts over PostgresAccountRepository).   *)
THEOREM SigningInIsSound == Spec => []SignInSound
<1>1. SignInInv => AccountTypeOK
  <2> SUFFICES ASSUME SignInInv PROVE AccountTypeOK
    OBVIOUS
  <2>1. \A r \in {0} \cup Links : lock[r] # Free =>
           lock[r] \in Requests /\ call[lock[r]].step \in Working
    BY DEF SignInInv, Types, LocksHeld, Working
  <2>2. \A p \in Requests : call[p].step \in Working \cup {"idle", "returned"}
                             /\ call[p].session \in {0} \cup Sessions
    BY DEF SignInInv, Types, Steps, None
  <2> QED
    BY <2>1, <2>2 DEF SignInInv, Types, AccountTypeOK
<1>2. SignInInv => SignInSound
  BY <1>1, LiveCounted DEF SignInInv, SignInSound, QuotaCounted
<1> QED
  BY <1>2, SignInInvariant, PTL

-----------------------------------------------------------------------------
(* Where a request stands, and what has been asked of it by then: a change *)
(* is under way only after the session, the origin and the token were      *)
(* looked at, and what its transaction reported is so.                     *)
Leaving == {"logout", "deletion-start"}
PlaceOK(p) ==
    /\ (phase[p] = "answered") <=> (status[p] # 0)
    /\ phase[p] = "asked" => request[p].route \notin Writes
    /\ phase[p] = "account" => request[p].route \in Signing \cup Leaving
    /\ phase[p] \in {"handler", "body"} => request[p].route \notin Leaving
    /\ phase[p] \in {"handler", "body", "account"} /\ request[p].route \in Writes =>
         request[p].trusted /\ request[p].csrf /\ ~request[p].ended
SessionAsked(p) == phase[p] = "session" =>
    /\ call[p].step \in {"authenticate", "returned"}
    /\ request[p].ended => Ended(call[p].session)
    /\ call[p].step = "returned" /\ call[p].result = "account" =>
         ~request[p].ended /\ call[p].session \in Sessions
LogoutAsked(p) == phase[p] = "account" /\ request[p].route = "logout" =>
    /\ call[p].session \in Sessions /\ call[p].step \in {"logout", "returned"}
    /\ call[p].step = "returned" =>
         \/ call[p].result = "unavailable"
         \/ call[p].result = "done" /\ sessions[call[p].session].state = "revoked"
DeletionAsked(p) == phase[p] = "account" /\ request[p].route = "deletion-start" =>
    /\ call[p].step \in {"delete", "revoke", "returned"}
    /\ call[p].step = "returned" =>
         \/ call[p].result \in {"unavailable", "recent_required"}
         \/ call[p].result = "done" /\ user = "deletion_pending"
StandOK(p) == PlaceOK(p) /\ SessionAsked(p) /\ LogoutAsked(p) /\ DeletionAsked(p)

(* ... and what was stored or told of it. *)
ToldOK(p) ==
    /\ p \in stored =>
         /\ p \in Requests /\ phase[p] = "answered"
         /\ request[p].route \in Writes =>
              request[p].trusted /\ request[p].csrf /\ ~request[p].ended
    /\ phase[p] = "answered" /\ status[p] < 300 =>
         /\ request[p].route = "logout" =>
              call[p].session \in Sessions /\ sessions[call[p].session].state = "revoked"
         /\ request[p].route = "deletion-start" => user = "deletion_pending"
         /\ request[p].route \in Writes \ Leaving => p \in stored

AnswersInv ==
    /\ DOMAIN status = Requests /\ stored \subseteq Requests
    /\ \A p \in Requests : StandOK(p) /\ ToldOK(p)
-----------------------------------------------------------------------------
(* Which routes there are. *)
LEMMA RoutesApart ==
    /\ Leaving \subseteq Writes
    /\ (AtOnce \cup Asked \cup Hooks \cup Signing \cup {"none", "csrf-token"}) \cap Writes = {}
    /\ (AtOnce \cup Asked \cup Hooks \cup Signing) \cap Leaving = {}
  BY DEF Leaving, AtOnce, Asked, Hooks, Signing, Writes, AccountWrites, DeliveryWrites, SeedWrites,
     SessionWrites, RegenerationWrites, UploadWrites, TutorWrites, AssessmentWrites

(* An answer is a status code; only a success is below 300. *)
LEMMA StatusCodes ==
    /\ \A r : Success(r) \in {200, 202, 204}
    /\ \A r, trusted : AtOnceStatus(r, trusted) \in {200, 202, 204, 403, 404}
    /\ \A r : Unavailable(r) \in {404, 503}
    /\ \A e \in DOMAIN ErrorStatus : ErrorStatus[e] \in 400..503
    /\ \A result : Refusal(result) \in {401, 503}
    /\ {"unavailable", "recent_required", "invalid_request", "too_large"} \subseteq DOMAIN ErrorStatus
    /\ \A r : Errors(r) \subseteq DOMAIN ErrorStatus
<1>1. \A r : Success(r) \in {200, 202, 204}
  BY DEF Success
<1>2. \A r, trusted : AtOnceStatus(r, trusted) \in {200, 202, 204, 403, 404}
  BY <1>1 DEF AtOnceStatus
<1>3. (\A r : Unavailable(r) \in {404, 503}) /\ (\A result : Refusal(result) \in {401, 503})
  BY DEF Unavailable, Refusal
<1>4. \A e \in DOMAIN ErrorStatus : ErrorStatus[e] \in 400..503
  BY DEF ErrorStatus
<1>5. {"unavailable", "recent_required", "invalid_request", "too_large"} \subseteq DOMAIN ErrorStatus
  BY DEF ErrorStatus, Malformed, Unserved
<1>6. \A r : Errors(r) \subseteq DOMAIN ErrorStatus
  BY DEF Errors, ErrorStatus, Hidden, Conflicts, Gone, Malformed, Unserved
<1> QED
  BY <1>1, <1>2, <1>3, <1>4, <1>5, <1>6

(* The answer to an account call succeeds only when its result does *)
(* (server.ts). *)
LEMMA AccountStatusCode ==
    ASSUME NEW p
    PROVE  /\ AccountStatus(p) \in Nat \ {0}
           /\ AccountStatus(p) < 300 =>
                call[p].result \notin {"refused", "unavailable", "recent_required"}
  BY StatusCodes DEF AccountStatus

-----------------------------------------------------------------------------
(* What an answer rests on does not change any more: a session that is     *)
(* revoked, an account that is leaving, and with either a session's end.   *)
LEMMA RevokedStays ==
    ASSUME Types, StagesOK, LocksHeld, [Next]_vars, NEW s \in Sessions,
           sessions[s].state = "revoked"
    PROVE  sessions'[s].state = "revoked"
<1>1. ASSUME NEW p \in Requests, OpenSession(p), sessions' # sessions
      PROVE  sessions'[s].state = "revoked"
  BY <1>1, SessionOpens DEF Types
<1>2. ASSUME NEW p \in Requests, Authenticate(p) \/ Logout(p) \/ RevokeAll(p)
      PROVE  sessions'[s].state = "revoked"
  <2>1. sessions'[s].state # "open"
    BY <1>2, SessionsLapse
  <2>2. sessions'[s].state # "unused"
    BY UsedStays
  <2>3. sessions'[s].state \in {"unused", "open", "revoked"}
    BY TypesStep DEF Types
  <2> QED
    BY <2>1, <2>2, <2>3
<1> QED
  BY <1>1, <1>2, SessionsChange

(* An account that is leaving is never active again. *)
LEMMA LeavingStays ==
    ASSUME [Next]_vars, user = "deletion_pending"
    PROVE  user' = "deletion_pending"
<1>1. ASSUME NEW p \in Requests, RevokeAll(p) PROVE user' = "deletion_pending"
  BY <1>1 DEF RevokeAll
<1> QED
  BY <1>1, UserChanges

(* A session that has ended does not begin again. *)
LEMMA EndedStays ==
    ASSUME Types, StagesOK, LocksHeld, [Next]_vars, NEW p \in Requests, Ended(call[p].session)
    PROVE  Ended(call[p].session)' \/ call'[p].session # call[p].session
<1> DEFINE s == call[p].session
<1>1. s \in Sessions \cup {None} /\ (s = None \/ sessions[s].state # "unused")
  BY DEF Types, StagesOK, Used
<1>2. CASE s = None
  BY <1>2 DEF Ended
<1>3. CASE user # "active"
  BY <1>3, LeavingStays DEF Ended, Types
<1>4. CASE s \in Sessions /\ sessions[s].state = "revoked"
  BY <1>4, RevokedStays DEF Ended
<1> QED
  BY <1>1, <1>2, <1>3, <1>4 DEF Ended, Types

(* A step of one request says nothing of the others. *)
LEMMA OthersUntold ==
    ASSUME DOMAIN status = Requests, NEW p \in Requests, Arrives(p) \/ Listens(p) \/ Transacts(p)
    PROVE  /\ DOMAIN status' = Requests /\ stored' \in {stored, stored \cup {p}}
           /\ \A q \in Requests \ {p} : status'[q] = status[q]
<1> USE DEF Await, Replied, Waits, Answered
<1>1. CASE Arrives(p)
  BY <1>1 DEF Arrives, Receive
<1>2. CASE Listens(p)
  BY <1>2 DEF Listens, Authenticated, ReadBody, Handle, Serviced, Refused, Asks,
     StoredBefore
<1>3. CASE Transacts(p)
  BY <1>3 DEF Transacts
<1> QED
  BY <1>1, <1>2, <1>3

(* What a request was told still stands when another one moves. *)
LEMMA OthersKept ==
    ASSUME Types, StagesOK, LocksHeld, AnswersInv, [Next]_vars, NEW q \in Requests,
           call'[q] = call[q], phase'[q] = phase[q], request'[q] = request[q],
           status'[q] = status[q], (q \in stored') <=> (q \in stored)
    PROVE  StandOK(q)' /\ ToldOK(q)'
<1>1. StandOK(q) /\ ToldOK(q)
  BY DEF AnswersInv
<1>2. Ended(call[q].session) => Ended(call[q].session)'
  BY EndedStays
<1>3. /\ \A s \in Sessions : sessions[s].state = "revoked" => sessions'[s].state = "revoked"
      /\ user = "deletion_pending" => user' = "deletion_pending"
  BY RevokedStays, LeavingStays
<1>4. StandOK(q)'
  BY <1>1, <1>2, <1>3 DEF StandOK, PlaceOK, SessionAsked, LogoutAsked, DeletionAsked
<1>5. ToldOK(q)'
  BY <1>1, <1>3 DEF ToldOK
<1> QED
  BY <1>4, <1>5

-----------------------------------------------------------------------------
(* The transaction of a request that is not answered yet. *)
LEMMA TransactionAnswers ==
    ASSUME Types, StagesOK, AnswersInv, NEW p \in Requests, Transacts(p)
    PROVE  StandOK(p)' /\ ToldOK(p)'
<1> USE DEF Now, Going, To, Returned
<1>0. /\ call \in Calls /\ UNCHANGED <<phase, request, status, stored>>
      /\ StandOK(p) /\ ToldOK(p)
  BY DEF Types, Calls, Transacts, AnswersInv
<1>1. call[p].step \in Working /\ phase[p] \in {"session", "account"}
  <2>1. call[p].step \in Working
    BY DEF Transacts, Working, Reserve, LockAddress, IssueLink, SendLink, LockLink, OpenSession,
       Authenticate, Logout, LockUser, RevokeAll
  <2> QED
    BY <2>1 DEF StagesOK
<1>2. ToldOK(p)' /\ PlaceOK(p)'
  BY <1>0, <1>1 DEF ToldOK, PlaceOK, StandOK
<1>3. ASSUME Aborted(p)
      PROVE  /\ call'[p].step = "returned" /\ call'[p].result = "unavailable"
             /\ call'[p].session = call[p].session /\ UNCHANGED <<sessions, user>>
  BY <1>0, <1>3 DEF Aborted, Calls
<1>4. SessionAsked(p)'
  <2> SUFFICES ASSUME phase[p] = "session"
               PROVE  /\ call'[p].step \in {"authenticate", "returned"}
                      /\ request[p].ended => Ended(call[p].session)'
                      /\ call'[p].session = call[p].session
                      /\ call'[p].step = "returned" /\ call'[p].result = "account" =>
                           ~request[p].ended /\ call[p].session \in Sessions
    BY <1>0 DEF SessionAsked, Ended
  <2>0. /\ call[p].step = "authenticate"
        /\ request[p].ended => Ended(call[p].session)
    BY <1>0, <1>1 DEF StandOK, SessionAsked, Working
  <2>1. Authenticate(p) \/ Aborted(p)
    BY <2>0 DEF Transacts, Reserve, LockAddress, IssueLink, SendLink,
       LockLink, OpenSession, Logout, LockUser, RevokeAll
  <2>2. CASE Aborted(p)
    BY <1>3, <2>0, <2>2 DEF Ended
  <2>3. CASE Authenticate(p)
    <3>1. call'[p].step = "returned" /\ call'[p].session = call[p].session /\ user' = user
      BY <1>0, <2>3 DEF Authenticate, Calls
    <3>2. call'[p].result = "account" => ~Ended(call[p].session) /\ call[p].session # None
      BY <1>0, <2>3 DEF Authenticate, Calls, Known, Lapsed, Ended
    <3>3. call[p].session \in Sessions \cup {None}
      BY <1>0 DEF Calls
    <3>4. Ended(call[p].session) => Ended(call[p].session)'
      BY <2>3, <3>1, <3>3 DEF Authenticate, Known, Lapsed, Revoked, Ended, Types
    <3> QED
      BY <2>0, <3>1, <3>2, <3>3, <3>4
  <2> QED
    BY <2>1, <2>2, <2>3
<1>5. LogoutAsked(p)'
  <2> SUFFICES ASSUME phase[p] = "account", request[p].route = "logout"
               PROVE  /\ call'[p].session \in Sessions /\ call'[p].step = "returned"
                      /\ \/ call'[p].result = "unavailable"
                         \/ call'[p].result = "done" /\ sessions'[call'[p].session].state = "revoked"
    BY <1>0 DEF LogoutAsked
  <2>0. call[p].step = "logout" /\ call[p].session \in Sessions
    BY <1>0, <1>1 DEF StandOK, LogoutAsked, Working
  <2>1. Logout(p) \/ Aborted(p)
    BY <2>0 DEF Transacts, Reserve, LockAddress, IssueLink, SendLink,
       LockLink, OpenSession, Authenticate, LockUser, RevokeAll
  <2>2. CASE Logout(p)
    BY <1>0, <2>0, <2>2 DEF Logout, Calls, Revoked, Types
  <2> QED
    BY <1>3, <2>0, <2>1, <2>2
<1>6. DeletionAsked(p)'
  <2> SUFFICES ASSUME phase[p] = "account", request[p].route = "deletion-start"
               PROVE  \/ call'[p].step = "revoke"
                      \/ /\ call'[p].step = "returned"
                         /\ \/ call'[p].result = "unavailable"
                            \/ call'[p].result = "done" /\ user' = "deletion_pending"
    BY <1>0 DEF DeletionAsked
  <2>0. call[p].step \in {"delete", "revoke"}
    BY <1>0, <1>1 DEF StandOK, DeletionAsked, Working
  <2>1. LockUser(p) \/ RevokeAll(p) \/ Aborted(p)
    BY <2>0 DEF Transacts, Reserve, LockAddress, IssueLink, SendLink,
       LockLink, OpenSession, Authenticate, Logout
  <2>2. CASE LockUser(p)
    BY <1>0, <2>2 DEF LockUser, Calls
  <2>3. CASE RevokeAll(p)
    BY <1>0, <2>3 DEF RevokeAll, Calls
  <2> QED
    BY <1>3, <2>1, <2>2, <2>3
<1> QED
  BY <1>2, <1>4, <1>5, <1>6 DEF StandOK

(* An answer is a success only if what was asked is done or stored. *)
LEMMA AnswerIsTrue ==
    ASSUME Types, AnswersInv, NEW p \in Requests, NEW code \in Nat \ {0}, Answered(p, code),
           code < 300 /\ request[p].route \in Writes =>
              /\ request[p].route = "logout" =>
                   call[p].session \in Sessions /\ sessions[call[p].session].state = "revoked"
              /\ request[p].route = "deletion-start" => user = "deletion_pending"
              /\ request[p].route \notin Leaving => p \in stored',
           p \in stored' /\ request[p].route \in Writes =>
              request[p].trusted /\ request[p].csrf /\ ~request[p].ended
    PROVE  StandOK(p)' /\ ToldOK(p)'
<1>1. /\ phase'[p] = "answered" /\ status'[p] = code /\ UNCHANGED <<sessions, user>>
  BY DEF Answered, Replied, storeVars, Types, AnswersInv
<1>2. StandOK(p)'
  BY <1>1 DEF StandOK, PlaceOK, SessionAsked, LogoutAsked, DeletionAsked
<1>3. CASE code < 300 /\ request[p].route \in Writes
  <2>1. request' = request /\ call'[p].session = call[p].session
    BY <1>3 DEF Answered, Now, Types
  <2> QED
    BY <1>1, <1>2, <1>3, <2>1 DEF ToldOK
<1>4. CASE ~(code < 300 /\ request[p].route \in Writes)
  <2>1. request'[p].route \notin Writes
    BY <1>4, RoutesApart DEF Answered, Nothing, Types
  <2>2. request'[p].route \notin Leaving
    BY <2>1, RoutesApart
  <2> QED
    BY <1>1, <1>2, <2>1, <2>2 DEF ToldOK, Leaving
<1> QED
  BY <1>3, <1>4

(* What the listener may answer with, and what it then may say is stored. *)
LEMMA AnsweredWell ==
    ASSUME Types, AnswersInv, NEW p \in Requests, Listens(p), NEW c, Answered(p, c)
    PROVE  StandOK(p)' /\ ToldOK(p)'
<1> USE DEF Replied
<1>0. /\ StandOK(p) /\ ToldOK(p) /\ p \in DOMAIN status
      /\ phase[p] # "answered" => p \notin stored
      /\ phase \in [Requests -> Phases]
  BY DEF AnswersInv, ToldOK, Types
<1>1. ASSUME NEW code \in 300..600, Answered(p, code), phase[p] # "answered",
             p \in stored' => (request[p].route \in Writes =>
               request[p].trusted /\ request[p].csrf /\ ~request[p].ended)
      PROVE  StandOK(p)' /\ ToldOK(p)'
  <2>1. code \in Nat \ {0} /\ ~(code < 300)
    BY <1>1
  <2> QED
    BY <1>1, <2>1, AnswerIsTrue
<1>2. CASE Authenticated(p)
  <2>1. phase[p] = "session" /\ UNCHANGED stored /\ call'[p].step = "idle"
    BY <1>2 DEF Authenticated, Answered, Now, Types
  <2>2. PICK code \in {200, 403, 404, 503} :
          Answered(p, code) /\ (code = 200 => request[p].route = "csrf-token")
    <3>1. Unavailable(request[p].route) \in {404, 503}
      BY StatusCodes
    <3>2. CASE phase'[p] # "answered"
      BY <1>0, <3>2 DEF Answered
    <3>3. CASE phase'[p] = "answered"
      BY <1>0, <1>2, <3>1, <3>3 DEF Authenticated, Await, Waits
    <3> QED
      BY <3>2, <3>3
  <2>3. CASE code = 200
    BY <1>0, <2>1, <2>2, <2>3, RoutesApart, AnswerIsTrue
  <2>4. CASE code # 200
    BY <1>0, <1>1, <2>1, <2>2, <2>4
  <2> QED
    BY <2>3, <2>4
<1>3. CASE ReadBody(p)
  <2>1. phase[p] = "body" /\ UNCHANGED stored
    BY <1>3 DEF ReadBody
  <2>2. PICK e \in {"invalid_request", "too_large"} : Answered(p, ErrorStatus[e])
    <3>1. phase'[p] = "answered"
      BY <1>0 DEF Answered
    <3> QED
      BY <1>0, <1>3, <3>1 DEF ReadBody, Await, Waits
  <2>3. ErrorStatus[e] \in 400..503
    BY StatusCodes
  <2>4. ErrorStatus[e] \in 300..600
    BY <2>3
  <2> QED
    BY <1>0, <1>1, <2>1, <2>2, <2>4
<1>4. CASE Handle(p)
  <2>1. /\ phase[p] = "handler" /\ request[p].route \notin Leaving
        /\ request[p].route \in Writes => request[p].trusted /\ request[p].csrf /\ ~request[p].ended
    BY <1>0, <1>4 DEF Handle, StandOK, PlaceOK
  <2>2. CASE /\ Answered(p, Success(request[p].route))
             /\ request[p].route \in Writes => p \in stored'
    <3>1. Success(request[p].route) \in {200, 202, 204}
      BY StatusCodes
    <3>2. Success(request[p].route) \in Nat \ {0}
      BY <3>1
    <3> QED
      BY <2>1, <2>2, <3>2, AnswerIsTrue DEF Leaving
  <2>3. CASE Answered(p, 404)
    BY <1>1, <2>1, <2>3
  <2>4. ASSUME NEW e \in Errors(request[p].route), Answered(p, ErrorStatus[e])
        PROVE  StandOK(p)' /\ ToldOK(p)'
    <3>1. ErrorStatus[e] \in 400..503
      BY StatusCodes
    <3>2. ErrorStatus[e] \in 300..600
      BY <3>1
    <3> QED
      BY <1>1, <2>1, <2>4, <3>2
  <2> QED
    BY <1>4, <2>2, <2>3, <2>4 DEF Handle
<1>5. CASE Serviced(p)
  <2>1. /\ phase[p] = "account" /\ call[p].step = "returned"
        /\ Answered(p, AccountStatus(p))
        /\ request[p].route \in Signing \cup Leaving
        /\ request[p].route \in Writes => request[p].trusted /\ request[p].csrf /\ ~request[p].ended
    BY <1>0, <1>5 DEF Serviced, StandOK, PlaceOK
  <2>2. /\ AccountStatus(p) \in Nat \ {0}
        /\ AccountStatus(p) < 300 => call[p].result \notin {"refused", "unavailable", "recent_required"}
    BY AccountStatusCode
  <2>3. AccountStatus(p) < 300 =>
          /\ request[p].route = "logout" =>
               call[p].session \in Sessions /\ sessions[call[p].session].state = "revoked"
          /\ request[p].route = "deletion-start" => user = "deletion_pending"
    BY <1>0, <2>1, <2>2 DEF StandOK, LogoutAsked, DeletionAsked
  <2>4. request[p].route \in Writes => request[p].route \in Leaving
    BY <2>1, RoutesApart
  <2> QED
    BY <2>1, <2>2, <2>3, <2>4, AnswerIsTrue
<1>6. CASE Refused(p)
  <2>1. Refusal(call[p].result) \in {401, 503}
    BY StatusCodes
  <2>2. Refusal(call[p].result) \in 300..600
    BY <2>1
  <2> QED
    BY <1>0, <1>1, <1>6, <2>2 DEF Refused
<1>7. CASE Asks(p)
  <2>1. PICK code \in {200, 404, 503} : Answered(p, code)
    BY <1>7 DEF Asks
  <2>2. request[p].route \notin Writes /\ UNCHANGED stored /\ phase[p] = "asked"
    BY <1>0, <1>7 DEF Asks, StandOK, PlaceOK
  <2> QED
    BY <1>0, <2>1, <2>2, AnswerIsTrue
<1> QED
  BY <1>2, <1>3, <1>4, <1>5, <1>6, <1>7 DEF Listens

(* What arrives has nothing stored yet; what is let through to a handler  *)
(* has been looked at.                                                    *)
LEMMA ArrivalStands ==
    ASSUME Types, StagesOK, AnswersInv, NEW p \in Requests, Arrives(p)
    PROVE  StandOK(p)' /\ ToldOK(p)'
<1> USE DEF Replied, Await, Waits
<1>0. /\ call \in Calls /\ phase \in [Requests -> Phases] /\ p \in DOMAIN status
      /\ p \in DOMAIN request /\ StandOK(p) /\ ToldOK(p) /\ UNCHANGED <<sessions, user>>
  BY ListenerTypes DEF AnswersInv, Types, Calls
<1>1. PICK r \in Routes, trusted \in BOOLEAN, csrf \in BOOLEAN, s \in Cookies :
        \E l \in (IF r = "redeem" THEN inbox ELSE {None}) : Receive(p, r, trusted, csrf, l, s)
  BY DEF Arrives
<1>2. PICK l \in (IF r = "redeem" THEN inbox ELSE {None}) : Receive(p, r, trusted, csrf, l, s)
  BY <1>1
<1>3. /\ request'[p] = [route |-> r, trusted |-> trusted, csrf |-> csrf, ended |-> Ended(s)]
      /\ phase[p] = "free" /\ status[p] = 0 /\ p \notin stored /\ UNCHANGED stored
  BY <1>0, <1>2 DEF Receive, StandOK, PlaceOK, ToldOK
<1>4. CASE /\ r \in AtOnce \cup Asked \cup Hooks \cup Signing
           /\ \/ phase'[p] = "answered" /\ status'[p] # 0
              \/ phase'[p] \in {"asked", "body"} /\ status'[p] = 0
  <2>1. request'[p].route \notin Writes /\ request'[p].route \notin Leaving
    BY <1>3, <1>4, RoutesApart
  <2>2. StandOK(p)'
    BY <1>4, <2>1 DEF StandOK, PlaceOK, SessionAsked, LogoutAsked, DeletionAsked
  <2> QED
    BY <1>3, <2>1, <2>2 DEF ToldOK, Leaving
<1>5. CASE BeginAuthenticate(p, s) /\ phase'[p] = "session" /\ status'[p] = 0
  <2>1. call'[p].step = "authenticate" /\ call'[p].session = s
    BY <1>0, <1>5 DEF BeginAuthenticate, Calling, Now, Calls
  <2>2. request'[p].ended => Ended(call[p].session)'
    <3>1. request'[p].ended = Ended(s)
      BY <1>3
    <3>2. Ended(s) => Ended(call[p].session)'
      BY <1>0, <2>1 DEF Ended
    <3> QED
      BY <3>1, <3>2
  <2>3. StandOK(p)'
    BY <1>5, <2>1, <2>2 DEF StandOK, PlaceOK, SessionAsked, LogoutAsked, DeletionAsked
  <2> QED
    BY <1>3, <1>5, <2>3 DEF ToldOK
<1>6. /\ AtOnceStatus(r, trusted) # 0
      /\ r \in Asked \cup Hooks => Unavailable(r) # 0
  BY StatusCodes
<1> QED
  BY <1>0, <1>2, <1>3, <1>4, <1>5, <1>6 DEF Receive

(* A request that passes the listener without an answer keeps to what it *)
(* asked. *)
LEMMA PassageStands ==
    ASSUME Types, StagesOK, AnswersInv, NEW p \in Requests, Listens(p),
           ~ \E code : Answered(p, code)
    PROVE  StandOK(p)' /\ ToldOK(p)'
<1> USE DEF Await, Waits
<1>0. /\ call \in Calls /\ phase \in [Requests -> Phases] /\ p \in DOMAIN status
      /\ p \in DOMAIN request /\ StandOK(p) /\ ToldOK(p) /\ UNCHANGED <<sessions, user>>
  BY ListenerTypes DEF AnswersInv, Types, Calls
<1>1. CASE Authenticated(p)
  <2> DEFINE r == request[p].route
  <2>1. /\ phase[p] = "session" /\ call[p].step = "returned" /\ call[p].result = "account"
        /\ status' = status /\ request' = request /\ UNCHANGED stored
        /\ r \in Writes => request[p].trusted /\ request[p].csrf
    BY <1>1 DEF Authenticated, MayChange
  <2>2. /\ status[p] = 0 /\ p \notin stored /\ ~request[p].ended
        /\ call[p].session \in Sessions
    BY <1>0, <2>1 DEF StandOK, PlaceOK, SessionAsked, ToldOK
  <2>3. CASE r = "logout" /\ BeginLogout(p) /\ phase'[p] = "account"
    <3>1. call'[p].step = "logout" /\ call'[p].session = call[p].session
      BY <1>0, <2>3 DEF BeginLogout, Calling, Now, Calls
    <3>2. StandOK(p)'
      BY <2>1, <2>2, <2>3, <3>1
      DEF StandOK, PlaceOK, SessionAsked, LogoutAsked, DeletionAsked, Leaving
    <3> QED
      BY <2>1, <2>2, <2>3, <3>2 DEF ToldOK
  <2>4. CASE r = "deletion-start" /\ BeginDeletion(p) /\ phase'[p] = "account"
    <3>1. \/ call'[p].step = "delete"
          \/ call'[p].step = "returned" /\ call'[p].result = "recent_required"
      BY <1>0, <2>4 DEF BeginDeletion, Calling, Returned, Going, Now, Calls
    <3>2. StandOK(p)'
      BY <2>1, <2>2, <2>4, <3>1
      DEF StandOK, PlaceOK, SessionAsked, LogoutAsked, DeletionAsked, Leaving
    <3> QED
      BY <2>1, <2>2, <2>4, <3>2 DEF ToldOK
  <2>5. CASE r \notin Leaving /\ phase'[p] \in {"body", "handler"}
    <3>1. StandOK(p)'
      BY <2>1, <2>2, <2>5 DEF StandOK, PlaceOK, SessionAsked, LogoutAsked, DeletionAsked
    <3> QED
      BY <2>1, <2>2, <2>5, <3>1 DEF ToldOK
  <2> QED
    BY <1>0, <1>1, <2>3, <2>4, <2>5 DEF Authenticated, Leaving
<1>2. CASE ReadBody(p)
  <2>1. /\ phase[p] = "body" /\ UNCHANGED <<status, request, stored>>
        /\ \/ phase'[p] = "account" /\ request[p].route \in Signing
           \/ phase'[p] = "handler"
    BY <1>0, <1>2 DEF ReadBody, Signing
  <2>2. /\ status[p] = 0 /\ p \notin stored /\ request[p].route \notin Leaving
        /\ request[p].route \in Writes => request[p].trusted /\ request[p].csrf /\ ~request[p].ended
    BY <1>0, <2>1 DEF StandOK, PlaceOK, ToldOK
  <2>3. StandOK(p)'
    BY <2>1, <2>2 DEF StandOK, PlaceOK, SessionAsked, LogoutAsked, DeletionAsked, Leaving
  <2> QED
    BY <2>1, <2>2, <2>3 DEF ToldOK
<1>3. ~(Handle(p) \/ Serviced(p) \/ Refused(p) \/ Asks(p))
  BY DEF Handle, Serviced, Refused, Asks
<1> QED
  BY <1>1, <1>2, <1>3 DEF Listens

-----------------------------------------------------------------------------
(* The answers stay true whatever happens next. *)
LEMMA AnswersStep ==
    Types /\ StagesOK /\ LocksHeld /\ AnswersInv /\ [Next]_vars => AnswersInv'
<1> SUFFICES ASSUME Types, StagesOK, LocksHeld, AnswersInv, [Next]_vars PROVE AnswersInv'
  OBVIOUS
<1>1. ASSUME NEW p \in Requests, Arrives(p) \/ Listens(p) \/ Transacts(p) PROVE AnswersInv'
  <2>1. DOMAIN status' = Requests /\ stored' \subseteq Requests
    BY <1>1, OthersUntold DEF AnswersInv
  <2>2. StandOK(p)' /\ ToldOK(p)'
    BY <1>1, ArrivalStands, AnsweredWell, PassageStands, TransactionAnswers
  <2>3. ASSUME NEW q \in Requests \ {p} PROVE StandOK(q)' /\ ToldOK(q)'
    BY <1>1, OthersStay, OthersUntold, OthersKept DEF AnswersInv
  <2> QED
    BY <2>1, <2>2, <2>3 DEF AnswersInv
<1>2. ASSUME NEW p \in Requests, Rejected(p) PROVE AnswersInv'
  <2>1. UNCHANGED <<request, status, stored>>
    BY <1>2 DEF Rejected
  <2>2. ASSUME NEW q \in InFlight PROVE StandOK(q)' /\ ToldOK(q)'
    <3>1. phase'[q] = "lost" /\ phase[q] # "answered"
      BY <1>2 DEF Rejected, InFlight
    <3>2. status[q] = 0 /\ q \notin stored
      BY <3>1 DEF AnswersInv, StandOK, PlaceOK, ToldOK, InFlight
    <3> QED
      BY <2>1, <3>1, <3>2 DEF StandOK, PlaceOK, SessionAsked, LogoutAsked, DeletionAsked, ToldOK
  <2>3. ASSUME NEW q \in Requests \ InFlight PROVE StandOK(q)' /\ ToldOK(q)'
    BY <1>2, <2>1, OthersKept DEF Rejected
  <2> QED
    BY <2>1, <2>2, <2>3 DEF AnswersInv
<1>3. CASE (Tick /\ UNCHANGED serverVars) \/ UNCHANGED vars
  <2>1. UNCHANGED <<call, phase, request, status, stored>>
    BY <1>3 DEF Tick, vars, accountVars, serverVars
  <2> QED
    BY <2>1, OthersKept DEF AnswersInv
<1> QED
  BY <1>1, <1>2, <1>3, NextCases

(* Nothing was answered yet. *)
LEMMA InitAnswers == ServerInit => AnswersInv
  BY DEF ServerInit, AnswersInv, StandOK, PlaceOK, SessionAsked, LogoutAsked, DeletionAsked,
     ToldOK, Nothing

(* AnswersSound, what the run of overlapping requests checks: what a route *)
(* changes was asked for with the origin, the token and a session that had *)
(* not ended, and an answer that says a change is made is true from then   *)
(* on (server.ts over service.ts).                                         *)
THEOREM AnswersAreSound == Spec => []AnswersSound
<1>1. SignInInv /\ AnswersInv /\ [Next]_vars => AnswersInv'
  BY AnswersStep DEF SignInInv
<1>2. SignInInv /\ SignInSound /\ AnswersInv => AnswersSound
  <2> SUFFICES ASSUME SignInInv, SignInSound, AnswersInv PROVE AnswersSound
    OBVIOUS
  <2>1. \A p \in Requests : /\ phase[p] \in Phases
                            /\ (phase[p] = "answered") <=> (status[p] # 0)
    BY DEF SignInInv, Types, AnswersInv, StandOK, PlaceOK
  <2>2. TypeOK
    BY <2>1 DEF TypeOK, SignInSound, AnswersInv, Phases
  <2>3. ChangesAreAuthorized
    BY DEF ChangesAreAuthorized, AnswersInv, ToldOK
  <2>4. ToldIsDone
    BY DEF ToldIsDone, AnswersInv, ToldOK, Leaving
  <2> QED
    BY <2>2, <2>3, <2>4 DEF AnswersSound
<1> QED
  BY InitAnswers, <1>1, <1>2, SignInInvariant, SigningInIsSound, PTL DEF Spec

-----------------------------------------------------------------------------
(* The grading of a session, as the run composes it (Grading).             *)
(***************************************************************************)

(* The finalizations, and what projections may count of one. *)
Finalized(k) == final[k] # Grading!NoView

(* The eligible evidence of a view is in the knowledge state under k. *)
Projected(k, evidence) ==
    \A e \in evidence : e[2] = "eligible" => k \in mastery[e[1]]

(* An outcome: eligible evidence only when all of it is. *)
OutcomeOK(g) ==
    /\ g.outcome \in {"graded", "abstained"}
    /\ \A e \in g.evidence : e[2] = "eligible" => g.outcome = "graded"

(* A key: its finalization, the replacements it offers, and, from the      *)
(* claim on, the prompts held for every concept of its question.           *)
KeyOK(k) ==
    /\ Finalized(k) => OutcomeOK(final[k])
    /\ op[k] = "finalized" => Finalized(k)
    /\ final[k].of # Null => final[final[k].of].outcome = "abstained"
    /\ (\E i \in bundle : i.of = k) => final[k].outcome = "abstained"
    /\ op[k] # "absent" =>
         \A c \in ConceptsOf[digest[k][1]] : \E x \in snapshot[k] : x[1] = c
    /\ op[k] = "processing" =>
         \A x \in snapshot[k] : \E row \in asked : row.prompt = x[2] /\ row.key = k
    /\ final[k].outcome = "abstained" =>
         /\ \A c \in ConceptsOf[final[k].digest[1]] : \E i \in bundle : i.of = k /\ i.concept = c
         /\ \A i \in bundle : i.of = k =>
              \E row \in asked : row.prompt = i.prompt /\ row.key = k /\ row.shown

(* A claim is held by a call under way, for its own command. *)
TokenOK(k, r) ==
    token[k] = r =>
        /\ op[k] = "processing" /\ await[r] # "idle"
        /\ cmd[r].kind = "short" /\ cmd[r].key = k /\ digest[k] = Grading!Digest(cmd[r])

(* Where the commands of each kind are. *)
ShortSteps == {"claiming", "grading", "finalizing", "releasing"}
ReplacementSteps == {"looking", "resolving", "replacing"}

(* What a call has at its step: a view only if it is stored, and what is   *)
(* not left to project of it is projected.                                 *)
CallOK(r) ==
    /\ IF await[r] = "idle" THEN view[r] = Grading!NoView ELSE cmd[r] \in Commands
    /\ await[r] \in ShortSteps => cmd[r].kind = "short"
    /\ await[r] \in ReplacementSteps => cmd[r].kind # "short"
    /\ await[r] = "finalizing" => OutcomeOK(grade[r])
    /\ view[r] # Grading!NoView => view[r] = final[cmd[r].key]
    /\ await[r] = "projecting" =>
         view[r] # Grading!NoView /\ Projected(cmd[r].key, view[r].evidence \ left[r])
    /\ reply[r] = "final" =>
         /\ await[r] = "done" /\ view[r] # Grading!NoView
         /\ Projected(cmd[r].key, view[r].evidence)

(* The rows of the session: no prompt twice, and originals are shown. *)
AskedOK ==
    /\ \A x, y \in asked : x.prompt = y.prompt => x = y
    /\ \A x \in asked : x.kind = "original" => x.shown

(* The inductive invariant of the grading. *)
GradesInv ==
    /\ Grading!TypeOK /\ AskedOK
    /\ \A c \in Concepts : mastery[c] \subseteq Grading!Ledger(c)
    /\ \A k \in Keys : KeyOK(k) /\ \A r \in Requests : TokenOK(k, r)
    /\ \A r \in Requests : CallOK(r)

(* What the tables may hold, and what the calls may. *)
TablesTyped ==
    /\ op \in [Keys -> {"absent", "processing", "finalized"}]
    /\ token \in [Keys -> Requests \cup {Null}]
    /\ lease \in [Keys -> {"none", "live", "expired"}]
    /\ digest \in [Keys -> Grading!Digests]
    /\ snapshot \in [Keys -> Grading!Snapshot]
    /\ asked \subseteq Grading!Rows
    /\ final \in [Keys -> Grading!Views]
    /\ bundle \subseteq Grading!Items
    /\ mastery \in [Concepts -> SUBSET Keys]

CallsTyped ==
    /\ await \in [Requests -> Grading!Phases]
    /\ cmd \in [Requests -> Commands \cup {Null}]
    /\ grade \in [Requests -> Grading!Grades]
    /\ view \in [Requests -> Grading!Views]
    /\ left \in [Requests -> Grading!Evidence]
    /\ tries \in [Requests -> 0..MaxRetries]
    /\ reply \in [Requests -> Grading!Replies]

(* The two are the types of the module. *)
LEMMA GradingTypes ==
    /\ Grading!TypeOK <=> TablesTyped /\ CallsTyped
    /\ Grading!TypeOK' <=> TablesTyped' /\ CallsTyped'
  BY DEF Grading!TypeOK, TablesTyped, CallsTyped

(* The values of nothing have their types. *)
LEMMA NothingTyped ==
    /\ Grading!NoView \in Grading!Views /\ Grading!NoGrade \in Grading!Grades
    /\ {} \in Grading!Evidence /\ {} \in Grading!Snapshot /\ Null \in Grading!Digests
    /\ Grading!NoView.evidence = {} /\ Grading!NoView.outcome = "none"
    /\ Grading!NoView.of = Null
<1>1. {} \in Grading!Evidence /\ {} \in Grading!Snapshot /\ Null \in Grading!Digests
  BY DEF Grading!Evidence, Grading!Snapshot, Grading!Digests
<1>2. QED
  BY <1>1 DEF Grading!NoView, Grading!NoGrade, Grading!Views, Grading!Grades, Grading!Outcomes

(* The session begins with nothing asked and nobody asking. *)
LEMMA InitGrades == Grading!Init => GradesInv
<1> SUFFICES ASSUME Grading!Init PROVE GradesInv
  OBVIOUS
<1> USE DEF Grading!Init
<1>1. TablesTyped
  BY NothingTyped DEF TablesTyped
<1>2. CallsTyped
  BY NothingTyped, GradingBounds DEF CallsTyped, Grading!Phases, Grading!Replies
<1>3. \A k \in Keys : KeyOK(k)
  BY NothingTyped DEF KeyOK, Finalized
<1>4. \A k \in Keys, r \in Requests : TokenOK(k, r)
  BY GradingBounds DEF TokenOK
<1>5. \A r \in Requests : CallOK(r)
  BY NothingTyped DEF CallOK, ShortSteps, ReplacementSteps
<1>6. AskedOK /\ \A c \in Concepts : mastery[c] \subseteq Grading!Ledger(c)
  BY DEF AskedOK
<1>7. QED
  BY <1>1, <1>2, <1>3, <1>4, <1>5, <1>6, GradingTypes DEF GradesInv

-----------------------------------------------------------------------------
(* A step of one call: the others are what they were, and the call is still *)
(* under way with its command, or new.                                      *)
OnlyCall(r) ==
    \A v \in Requests \ {r} :
        /\ await'[v] = await[v] /\ cmd'[v] = cmd[v] /\ grade'[v] = grade[v]
        /\ view'[v] = view[v] /\ left'[v] = left[v] /\ reply'[v] = reply[v]

StillCalls(r) == await[r] # "idle" => await'[r] # "idle" /\ cmd'[r] = cmd[r]

(* A finalization stands, and the knowledge state does not lose a key. *)
ResultsGrow ==
    /\ \A k \in Keys : Finalized(k) => final'[k] = final[k]
    /\ \A c \in Concepts : mastery[c] \subseteq mastery'[c]

(* The step of a call, all that its lemmas show. *)
CallMoves(r) == CallsTyped' /\ OnlyCall(r) /\ StillCalls(r) /\ CallOK(r)'

(* A call of which nothing changed keeps its condition. *)
LEMMA OthersKeep ==
  ASSUME GradesInv, NEW r \in Requests, OnlyCall(r), ResultsGrow, NEW v \in Requests, v # r
  PROVE  CallOK(v)'
<1>1. CallOK(v)
  BY DEF GradesInv
<1>2. /\ await'[v] = await[v] /\ cmd'[v] = cmd[v] /\ grade'[v] = grade[v]
      /\ view'[v] = view[v] /\ left'[v] = left[v] /\ reply'[v] = reply[v]
  BY DEF OnlyCall
<1>3. view[v].evidence \subseteq Concepts \X Grading!Marks
  BY DEF GradesInv, Grading!TypeOK, Grading!Views, Grading!Evidence
<1>4. ASSUME view[v] # Grading!NoView
      PROVE  cmd[v].key \in Keys /\ final'[cmd[v].key] = view[v]
  <2>1. await[v] # "idle" /\ cmd[v] \in Commands /\ view[v] = final[cmd[v].key]
    BY <1>1, <1>4 DEF CallOK
  <2>2. cmd[v].key \in Keys
    BY <2>1, GradingBounds
  <2>3. QED
    BY <1>4, <2>1, <2>2 DEF ResultsGrow, Finalized
<1>5. ASSUME NEW evidence, evidence \subseteq Concepts \X Grading!Marks,
             Projected(cmd[v].key, evidence)
      PROVE  \A e \in evidence : e[2] = "eligible" => cmd[v].key \in mastery'[e[1]]
  BY <1>5 DEF Projected, ResultsGrow
<1>6. /\ await[v] = "projecting" =>
           \A e \in view[v].evidence \ left[v] :
               e[2] = "eligible" => cmd[v].key \in mastery'[e[1]]
      /\ reply[v] = "final" =>
           \A e \in view[v].evidence : e[2] = "eligible" => cmd[v].key \in mastery'[e[1]]
  BY <1>1, <1>3, <1>5 DEF CallOK
<1>7. QED
  BY <1>1, <1>2, <1>4, <1>6 DEF CallOK, Projected, OutcomeOK

(* A call ends with a reply; a final one when all is projected. *)
LEMMA FinishMoves ==
  ASSUME GradesInv, NEW r \in Requests, NEW what \in Grading!Replies,
         Grading!Finish(r, what), final' = final, mastery' = mastery, await[r] # "idle",
         what = "final" => await[r] = "projecting" /\ left[r] = {}
  PROVE  CallMoves(r)
<1>1. /\ await' = [await EXCEPT ![r] = "done"] /\ reply' = [reply EXCEPT ![r] = what]
      /\ grade' = [grade EXCEPT ![r] = Grading!NoGrade] /\ left' = [left EXCEPT ![r] = {}]
      /\ tries' = [tries EXCEPT ![r] = 0] /\ cmd' = cmd /\ view' = view
  BY DEF Grading!Finish
<1>2. CallsTyped
  BY GradingTypes DEF GradesInv
<1>3. CallsTyped'
  BY <1>1, <1>2, NothingTyped, GradingBounds DEF CallsTyped, Grading!Phases
<1>4. /\ await'[r] = "done" /\ reply'[r] = what /\ cmd'[r] = cmd[r] /\ view'[r] = view[r]
      /\ OnlyCall(r)
  BY <1>1, <1>2 DEF CallsTyped, OnlyCall
<1>5. CallOK(r)
  BY DEF GradesInv
<1>6. what = "final" =>
        view[r] # Grading!NoView /\ Projected(cmd[r].key, view[r].evidence)
  BY <1>5 DEF CallOK, Projected
<1>7. CallOK(r)'
  BY <1>4, <1>5, <1>6 DEF CallOK, ShortSteps, ReplacementSteps, Projected
<1>8. QED
  BY <1>3, <1>4, <1>7 DEF CallMoves, StillCalls

(* A call goes on to a step of its kind. *)
LEMMA GotoMoves ==
  ASSUME GradesInv, NEW r \in Requests, NEW p \in ShortSteps \cup ReplacementSteps,
         p # "finalizing", Grading!Goto(r, p), final' = final, mastery' = mastery,
         await[r] \notin {"idle", "done"},
         p \in ShortSteps <=> cmd[r].kind = "short"
  PROVE  CallMoves(r)
<1>1. /\ await' = [await EXCEPT ![r] = p] /\ reply' = reply /\ grade' = grade
      /\ left' = left /\ tries' = tries /\ cmd' = cmd /\ view' = view
  BY DEF Grading!Goto
<1>2. CallsTyped
  BY GradingTypes DEF GradesInv
<1>3. CallsTyped'
  BY <1>1, <1>2 DEF CallsTyped, Grading!Phases, ShortSteps, ReplacementSteps
<1>4. await'[r] = p /\ OnlyCall(r)
  BY <1>1, <1>2 DEF CallsTyped, OnlyCall
<1>5. CallOK(r)
  BY DEF GradesInv
<1>6. CallOK(r)'
  BY <1>1, <1>4, <1>5 DEF CallOK, ShortSteps, ReplacementSteps
<1>7. QED
  BY <1>1, <1>3, <1>4, <1>6 DEF CallMoves, StillCalls, ShortSteps, ReplacementSteps

(* A call answers with what is stored under its key. *)
LEMMA AnswerMoves ==
  ASSUME GradesInv, NEW r \in Requests, NEW v \in Grading!Views, Grading!Answer(r, v),
         v # Grading!NoView, final'[cmd[r].key] = v,
         await[r] \notin {"idle", "done"}
  PROVE  CallMoves(r)
<1>1. /\ await' = [await EXCEPT ![r] = "projecting"] /\ view' = [view EXCEPT ![r] = v]
      /\ left' = [left EXCEPT ![r] = v.evidence]
      /\ grade' = [grade EXCEPT ![r] = Grading!NoGrade]
      /\ cmd' = cmd /\ tries' = tries /\ reply' = reply
  BY DEF Grading!Answer
<1>2. CallsTyped
  BY GradingTypes DEF GradesInv
<1>3. v.evidence \in Grading!Evidence
  BY DEF Grading!Views
<1>4. CallsTyped'
  BY <1>1, <1>2, <1>3, NothingTyped DEF CallsTyped, Grading!Phases
<1>5. /\ await'[r] = "projecting" /\ view'[r] = v /\ left'[r] = v.evidence /\ cmd'[r] = cmd[r]
      /\ reply'[r] = reply[r] /\ OnlyCall(r)
  BY <1>1, <1>2 DEF CallsTyped, OnlyCall
<1>6. CallOK(r)
  BY DEF GradesInv
<1>7. CallOK(r)'
  BY <1>5, <1>6 DEF CallOK, ShortSteps, ReplacementSteps, Projected
<1>8. QED
  BY <1>4, <1>5, <1>7 DEF CallMoves, StillCalls

(* A step that touches one call and no table. *)
LEMMA CallsOnly ==
  ASSUME GradesInv, NEW r \in Requests, CallMoves(r),
         UNCHANGED <<op, token, lease, digest, snapshot, asked, final, bundle, mastery>>
  PROVE  GradesInv'
<1>1. ResultsGrow
  BY DEF ResultsGrow
<1>2. TablesTyped'
  BY GradingTypes DEF GradesInv, TablesTyped
<1>3. \A v \in Requests : CallOK(v)'
  BY <1>1, OthersKeep DEF CallMoves
<1>4. \A k \in Keys : KeyOK(k)'
  BY DEF GradesInv, KeyOK, Finalized, OutcomeOK
<1>5. \A k \in Keys, v \in Requests : TokenOK(k, v)'
  BY DEF GradesInv, TokenOK, CallMoves, OnlyCall, StillCalls
<1>6. AskedOK' /\ \A c \in Concepts : (mastery[c] \subseteq Grading!Ledger(c))'
  BY DEF GradesInv, AskedOK, Grading!Ledger
<1>7. QED
  BY <1>2, <1>3, <1>4, <1>5, <1>6, GradingTypes DEF GradesInv, CallMoves

-----------------------------------------------------------------------------
(* The tables a call leaves alone, from the tuples of the module. *)
LEMMA TablesSame ==
  ASSUME UNCHANGED <<Grading!opVars, Grading!resultVars>>
  PROVE  UNCHANGED <<op, token, lease, digest, snapshot, asked, final, bundle, mastery>>
  BY Zenon DEF Grading!opVars, Grading!resultVars

(* A call that ends, goes on or answers, and changes no table. *)
LEMMA FinishGrades ==
  ASSUME GradesInv, NEW r \in Requests, NEW what \in Grading!Replies, Grading!Finish(r, what),
         UNCHANGED <<Grading!opVars, Grading!resultVars>>, await[r] # "idle",
         what = "final" => await[r] = "projecting" /\ left[r] = {}
  PROVE  GradesInv'
<1>1. UNCHANGED <<op, token, lease, digest, snapshot, asked, final, bundle, mastery>>
  BY TablesSame, Zenon
<1>2. CallMoves(r)
  BY <1>1, FinishMoves
<1>3. QED
  BY <1>1, <1>2, CallsOnly, Zenon

(* The same of a call that goes on. *)
LEMMA GotoGrades ==
  ASSUME GradesInv, NEW r \in Requests, NEW p \in ShortSteps \cup ReplacementSteps,
         p # "finalizing", Grading!Goto(r, p), await[r] \notin {"idle", "done"},
         UNCHANGED <<Grading!opVars, Grading!resultVars>>,
         p \in ShortSteps <=> cmd[r].kind = "short"
  PROVE  GradesInv'
<1>1. UNCHANGED <<op, token, lease, digest, snapshot, asked, final, bundle, mastery>>
  BY TablesSame, Zenon
<1>2. CallMoves(r)
  BY <1>1, GotoMoves
<1>3. QED
  BY <1>1, <1>2, CallsOnly, Zenon

(* The same of a call that answers with a stored finalization. *)
LEMMA ReplayGrades ==
  ASSUME GradesInv, NEW r \in Requests, await[r] \notin {"idle", "done"},
         Finalized(cmd[r].key), Grading!Answer(r, final[cmd[r].key]),
         UNCHANGED <<Grading!opVars, Grading!resultVars>>
  PROVE  GradesInv'
<1>1. UNCHANGED <<op, token, lease, digest, snapshot, asked, final, bundle, mastery>>
  BY TablesSame, Zenon
<1>2. cmd[r].key \in Keys
  BY GradingBounds DEF GradesInv, CallOK
<1>3. final[cmd[r].key] \in Grading!Views
  BY <1>2, GradingTypes DEF GradesInv, TablesTyped
<1>4. CallMoves(r)
  BY <1>1, <1>3, AnswerMoves DEF Finalized
<1>5. QED
  BY <1>1, <1>4, CallsOnly, Zenon

(* A call arrives: there is no claim in its name. *)
LEMMA CallGrades ==
  ASSUME GradesInv, NEW r \in Requests, Grading!Call(r)
  PROVE  GradesInv'
<1>1. PICK m \in Commands :
        /\ cmd' = [cmd EXCEPT ![r] = m]
        /\ await' = [await EXCEPT ![r] = IF m.kind = "short" THEN "claiming" ELSE "looking"]
  BY DEF Grading!Call
<1>2. UNCHANGED <<Grading!opVars, Grading!resultVars>>
  BY Zenon DEF Grading!Call
<1>3. UNCHANGED <<op, token, lease, digest, snapshot, asked, final, bundle, mastery>>
  BY <1>2, TablesSame, Zenon
<1>4. /\ await[r] = "idle" /\ grade' = grade /\ view' = view /\ left' = left /\ tries' = tries
      /\ reply' = reply
  BY DEF Grading!Call
<1>5. CallsTyped /\ CallOK(r)
  BY GradingTypes DEF GradesInv
<1>6. CallsTyped'
  BY <1>1, <1>4, <1>5 DEF CallsTyped, Grading!Phases
<1>7. /\ await'[r] = (IF m.kind = "short" THEN "claiming" ELSE "looking") /\ cmd'[r] = m
      /\ OnlyCall(r)
  BY <1>1, <1>4, <1>5 DEF CallsTyped, OnlyCall
<1>8. CallOK(r)'
  BY <1>4, <1>5, <1>7 DEF CallOK, ShortSteps, ReplacementSteps
<1>9. CallMoves(r)
  BY <1>4, <1>6, <1>7, <1>8 DEF CallMoves, StillCalls
<1>10. QED
  BY <1>3, <1>9, CallsOnly, Zenon

(* A finalized key of a claim has its finalization: what a claim may find. *)
LEMMA ClaimReadsGrades ==
  ASSUME GradesInv, NEW r \in Requests,
         \/ Grading!ClaimDenied(r) \/ Grading!ClaimRefused(r)
         \/ Grading!ClaimConflict(r) \/ Grading!ClaimDeadline(r)
  PROVE  GradesInv'
<1>1. PICK what \in Grading!Replies :
        /\ Grading!Finish(r, what) /\ UNCHANGED <<Grading!opVars, Grading!resultVars>>
        /\ await[r] = "claiming" /\ what # "final"
  BY DEF Grading!ClaimDenied, Grading!ClaimRefused, Grading!ClaimConflict, Grading!ClaimDeadline,
     Grading!Replies
<1>2. QED
  BY <1>1, FinishGrades

(* The model has judged, or its answer is no judgment: the attempt is      *)
(* graded only when the model is sure of every concept.                    *)
LEMMA ModelGrades ==
  ASSUME GradesInv, NEW r \in Requests, Grading!ModelAnswers(r) \/ Grading!ModelInvalid(r)
  PROVE  GradesInv'
<1>1. UNCHANGED <<Grading!opVars, Grading!resultVars>>
  BY Zenon DEF Grading!ModelAnswers, Grading!ModelInvalid
<1>2. UNCHANGED <<op, token, lease, digest, snapshot, asked, final, bundle, mastery>>
  BY <1>1, TablesSame, Zenon
<1>3. /\ await[r] = "grading" /\ await' = [await EXCEPT ![r] = "finalizing"]
      /\ cmd' = cmd /\ view' = view /\ left' = left /\ tries' = tries /\ reply' = reply
  BY DEF Grading!ModelAnswers, Grading!ModelInvalid
<1>4. CallsTyped /\ CallOK(r)
  BY GradingTypes DEF GradesInv
<1>5. cmd[r] \in Commands /\ cmd[r].kind = "short" /\ cmd[r].question \in Questions
  BY <1>3, <1>4, GradingBounds DEF CallOK, ShortSteps
<1>6. PICK g \in Grading!Grades : grade' = [grade EXCEPT ![r] = g] /\ OutcomeOK(g)
  <2>1. CASE Grading!ModelInvalid(r)
    <3>1. [outcome |-> "abstained", evidence |-> {}] \in Grading!Grades
      BY NothingTyped DEF Grading!Grades, Grading!Outcomes
    <3>2. QED
      BY <2>1, <3>1 DEF Grading!ModelInvalid, OutcomeOK
  <2>2. CASE Grading!ModelAnswers(r)
    <3>1. PICK sure \in SUBSET ConceptsOf[cmd[r].question] :
            grade' = [grade EXCEPT ![r] = Grading!Judged(cmd[r].question, sure)]
      BY <2>2 DEF Grading!ModelAnswers
    <3>2. ConceptsOf[cmd[r].question] \subseteq Concepts
      BY <1>5, GradingBounds
    <3>3. Grading!Judged(cmd[r].question, sure) \in Grading!Grades
      BY <3>1, <3>2
      DEF Grading!Judged, Grading!Grades, Grading!Outcomes, Grading!Evidence, Grading!Marks
    <3>4. OutcomeOK(Grading!Judged(cmd[r].question, sure))
      BY <3>1, <3>2 DEF Grading!Judged, OutcomeOK
    <3>5. QED
      BY <3>1, <3>3, <3>4
  <2>3. QED
    BY <2>1, <2>2
<1>7. CallsTyped'
  BY <1>3, <1>4, <1>6 DEF CallsTyped, Grading!Phases
<1>8. await'[r] = "finalizing" /\ grade'[r] = g /\ OnlyCall(r)
  BY <1>3, <1>4, <1>6 DEF CallsTyped, OnlyCall
<1>9. CallOK(r)'
  BY <1>2, <1>3, <1>4, <1>6, <1>8 DEF CallOK, OutcomeOK, ShortSteps, ReplacementSteps
<1>10. CallMoves(r)
  BY <1>3, <1>7, <1>8, <1>9 DEF CallMoves, StillCalls
<1>11. QED
  BY <1>2, <1>10, CallsOnly, Zenon

(* The steps of a projection that change no mastery. *)
LEMMA ProjectFailsGrades ==
  ASSUME GradesInv, NEW r \in Requests, Grading!ProjectFails(r)
  PROVE  GradesInv'
<1>1. UNCHANGED <<Grading!opVars, Grading!resultVars>> /\ await[r] = "projecting"
  BY Zenon DEF Grading!ProjectFails
<1>2. CASE Grading!Finish(r, "projection_unavailable")
  <2>1. "projection_unavailable" \in Grading!Replies
    BY DEF Grading!Replies
  <2>2. QED
    BY <1>1, <1>2, <2>1, FinishGrades
<1>3. CASE /\ tries[r] < MaxRetries /\ tries' = [tries EXCEPT ![r] = @ + 1]
           /\ UNCHANGED <<await, cmd, grade, view, left, reply>>
  <2>1. UNCHANGED <<op, token, lease, digest, snapshot, asked, final, bundle, mastery>>
    BY <1>1, TablesSame, Zenon
  <2>2. CallsTyped /\ CallOK(r)
    BY GradingTypes DEF GradesInv
  <2>3. tries[r] + 1 \in 0..MaxRetries
    BY <1>3, <2>2, GradingBounds DEF CallsTyped
  <2>4. CallsTyped' /\ OnlyCall(r) /\ StillCalls(r)
    BY <1>3, <2>2, <2>3 DEF CallsTyped, OnlyCall, StillCalls
  <2>5. CallOK(r)'
    BY <1>3, <2>1, <2>2 DEF CallOK, Projected, OutcomeOK
  <2>6. CallMoves(r)
    BY <2>4, <2>5 DEF CallMoves
  <2>7. QED
    BY <2>1, <2>6, CallsOnly, Zenon
<1>4. QED
  BY <1>2, <1>3 DEF Grading!ProjectFails

-----------------------------------------------------------------------------
(* The tables that stay when results do. *)
LEMMA ResultsSame ==
  ASSUME UNCHANGED Grading!resultVars
  PROVE  final' = final /\ bundle' = bundle /\ mastery' = mastery
  BY Zenon DEF Grading!resultVars

(* What no step of the results changes. *)
LEMMA SameResultsGrow ==
  ASSUME final' = final, mastery' = mastery
  PROVE  ResultsGrow
  BY DEF ResultsGrow

(* The reservations of a new claim: prompts that nobody holds, one for     *)
(* each concept of the question.                                           *)
LEMMA ReservationsOK ==
  ASSUME GradesInv, NEW k \in Keys, NEW q \in Questions, q \notin Grading!Seen,
         NEW s \in Grading!Snapshots(q)
  PROVE  /\ s \in Grading!Snapshot
         /\ \A c \in ConceptsOf[q] : \E x \in s : x[1] = c
         /\ \A x \in s : \E row \in Grading!Reservations(k, q, s) : row.prompt = x[2] /\ row.key = k
         /\ Grading!Reservations(k, q, s) \subseteq Grading!Rows
         /\ \A x \in Grading!Reservations(k, q, s), y \in asked : x.prompt # y.prompt
         /\ \A x, y \in Grading!Reservations(k, q, s) : x.prompt = y.prompt => x = y
         /\ \A x \in Grading!Reservations(k, q, s) : x.kind = "original" => x.shown
<1>1. /\ s \subseteq ConceptsOf[q] \X Grading!Prompts
      /\ \A c \in ConceptsOf[q] : \E p \in Grading!FallbackChoices(q, c) : <<c, p>> \in s
      /\ \A x, y \in s : (x[1] = y[1] \/ x[2] = y[2]) => x = y
      /\ \A x \in s : x[2] \in Grading!FallbackChoices(q, x[1])
  BY DEF Grading!Snapshots
<1>2. ConceptsOf[q] \subseteq Concepts /\ Generated[q] \notin Questions
  BY GradingBounds
<1>3. \A c : \A p \in Grading!FallbackChoices(q, c) : p \notin Grading!Seen /\ p # q
  BY <1>2 DEF Grading!FallbackChoices
<1>4. \A y \in asked : y.prompt \in Grading!Seen
  BY DEF Grading!Seen
<1>5. q \in Grading!Prompts
  BY DEF Grading!Prompts
<1>6. \A x \in s : x[2] \in Grading!Prompts /\ x[2] \notin Grading!Seen /\ x[2] # q
  BY <1>1, <1>3
<1>7. s \in Grading!Snapshot
  BY <1>1, <1>2 DEF Grading!Snapshot
<1>8. \A c \in ConceptsOf[q] : \E x \in s : x[1] = c
  BY <1>1
<1>9. \A row \in Grading!Reservations(k, q, s) :
        \/ row = [prompt |-> q, key |-> k, kind |-> "original", shown |-> TRUE]
        \/ \E x \in s : row = [prompt |-> x[2], key |-> k, kind |-> "fallback", shown |-> FALSE]
  BY DEF Grading!Reservations
<1>10. \A x \in s : [prompt |-> x[2], key |-> k, kind |-> "fallback", shown |-> FALSE]
                       \in Grading!Reservations(k, q, s)
  BY DEF Grading!Reservations
<1>11. Grading!Reservations(k, q, s) \subseteq Grading!Rows
  <2>1. [prompt |-> q, key |-> k, kind |-> "original", shown |-> TRUE] \in Grading!Rows
    BY <1>5 DEF Grading!Rows
  <2>2. \A x \in s :
          [prompt |-> x[2], key |-> k, kind |-> "fallback", shown |-> FALSE] \in Grading!Rows
    BY <1>6 DEF Grading!Rows
  <2>3. QED
    BY <1>9, <2>1, <2>2
<1>12. \A x \in Grading!Reservations(k, q, s), y \in asked : x.prompt # y.prompt
  BY <1>4, <1>6, <1>9
<1>13. ASSUME NEW x \in Grading!Reservations(k, q, s), NEW y \in Grading!Reservations(k, q, s),
              x.prompt = y.prompt
       PROVE  x = y
  <2>1. CASE x.prompt = q
    <3>1. \A row \in Grading!Reservations(k, q, s) : row.prompt = q =>
            row = [prompt |-> q, key |-> k, kind |-> "original", shown |-> TRUE]
      BY <1>6, <1>9
    <3>2. QED
      BY <1>13, <2>1, <3>1
  <2>2. CASE x.prompt # q
    <3>1. PICK a \in s :
            x = [prompt |-> a[2], key |-> k, kind |-> "fallback", shown |-> FALSE]
      BY <1>9, <2>2
    <3>2. PICK b \in s :
            y = [prompt |-> b[2], key |-> k, kind |-> "fallback", shown |-> FALSE]
      BY <1>9, <1>13, <2>2
    <3>3. a = b
      BY <1>1, <1>13, <3>1, <3>2
    <3>4. QED
      BY <3>1, <3>2, <3>3
  <2>3. QED
    BY <2>1, <2>2
<1>14. \A x \in s : \E row \in Grading!Reservations(k, q, s) : row.prompt = x[2] /\ row.key = k
  BY <1>10
<1>15. \A x \in Grading!Reservations(k, q, s) : x.kind = "original" => x.shown
  BY <1>9
<1>16. QED
  BY <1>7, <1>8, <1>11, <1>12, <1>13, <1>14, <1>15

(* A new claim holds the question and its fallbacks. *)
LEMMA ClaimNewGrades ==
  ASSUME GradesInv, NEW r \in Requests, Grading!ClaimNew(r)
  PROVE  GradesInv'
<1> DEFINE k == cmd[r].key
           q == cmd[r].question
<1>1. /\ await[r] = "claiming" /\ op[k] = "absent" /\ q \notin Grading!Seen
      /\ op' = [op EXCEPT ![k] = "processing"] /\ token' = [token EXCEPT ![k] = r]
      /\ lease' = [lease EXCEPT ![k] = "live"]
      /\ digest' = [digest EXCEPT ![k] = Grading!Digest(cmd[r])]
      /\ Grading!Goto(r, "grading")
  BY DEF Grading!ClaimNew
<1>2. UNCHANGED Grading!resultVars
  BY Zenon DEF Grading!ClaimNew
<1>3. final' = final /\ bundle' = bundle /\ mastery' = mastery
  BY <1>2, ResultsSame, Zenon
<1>4. PICK s \in Grading!Snapshots(q) :
        /\ snapshot' = [snapshot EXCEPT ![k] = s]
        /\ asked' = asked \cup Grading!Reservations(k, q, s)
  BY DEF Grading!ClaimNew
<1>5. CallOK(r) /\ TablesTyped /\ CallsTyped
  BY GradingTypes DEF GradesInv
<1>6. cmd[r] \in Commands /\ cmd[r].kind = "short" /\ k \in Keys /\ q \in Questions
  BY <1>1, <1>5, GradingBounds DEF CallOK, ShortSteps
<1>7. Grading!Digest(cmd[r]) \in Grading!Digests /\ Grading!Digest(cmd[r])[1] = q
  BY <1>6 DEF Grading!Digests, Grading!Digest
<1> HIDE DEF k, q
<1>8. CallMoves(r)
  BY <1>1, <1>3, <1>6, GotoMoves DEF ShortSteps
<1>9. \A v \in Requests : CallOK(v)'
  BY <1>3, <1>8, OthersKeep, SameResultsGrow DEF CallMoves
<1>10. /\ s \in Grading!Snapshot
       /\ \A c \in ConceptsOf[q] : \E x \in s : x[1] = c
       /\ \A x \in s : \E row \in Grading!Reservations(k, q, s) : row.prompt = x[2] /\ row.key = k
       /\ Grading!Reservations(k, q, s) \subseteq Grading!Rows
       /\ \A x \in Grading!Reservations(k, q, s), y \in asked : x.prompt # y.prompt
       /\ \A x, y \in Grading!Reservations(k, q, s) : x.prompt = y.prompt => x = y
       /\ \A x \in Grading!Reservations(k, q, s) : x.kind = "original" => x.shown
  BY <1>1, <1>4, <1>6, ReservationsOK
<1>11. TablesTyped'
  BY <1>1, <1>3, <1>4, <1>5, <1>7, <1>10 DEF TablesTyped
<1>12. AskedOK'
  BY <1>4, <1>10 DEF GradesInv, AskedOK
<1>13. /\ op'[k] = "processing" /\ token'[k] = r /\ snapshot'[k] = s
       /\ digest'[k] = Grading!Digest(cmd[r])
       /\ \A j \in Keys \ {k} : /\ op'[j] = op[j] /\ token'[j] = token[j]
                                /\ snapshot'[j] = snapshot[j] /\ digest'[j] = digest[j]
  BY <1>1, <1>4, <1>5, <1>6 DEF TablesTyped
<1>14. asked \subseteq asked'
  BY <1>4
<1>15. ASSUME NEW j \in Keys PROVE KeyOK(j)'
  <2>1. KeyOK(j)
    BY DEF GradesInv
  <2>2. CASE j # k
    BY <1>3, <1>13, <1>14, <2>1, <2>2 DEF KeyOK, Finalized, OutcomeOK
  <2>3. CASE j = k
    <3>1. /\ \A c \in ConceptsOf[digest'[k][1]] : \E x \in snapshot'[k] : x[1] = c
          /\ \A x \in snapshot'[k] : \E row \in asked' : row.prompt = x[2] /\ row.key = k
      BY <1>4, <1>7, <1>10, <1>13
    <3>2. op'[j] = "processing"
      BY <1>13, <2>3
    <3>3. QED
      BY <1>3, <1>14, <2>1, <2>3, <3>1, <3>2 DEF KeyOK, Finalized, OutcomeOK
  <2>4. QED
    BY <2>2, <2>3
<1>16. ASSUME NEW j \in Keys, NEW v \in Requests PROVE TokenOK(j, v)'
  <2>1. TokenOK(j, v)
    BY DEF GradesInv
  <2>2. \/ await'[v] = await[v] /\ cmd'[v] = cmd[v]
        \/ v = r /\ await'[r] # "idle" /\ cmd'[r] = cmd[r]
    BY <1>1, <1>8 DEF CallMoves, OnlyCall, StillCalls
  <2>3. CASE j # k
    BY <1>13, <2>1, <2>2, <2>3 DEF TokenOK
  <2>4. CASE j = k
    <3>1. CASE v # r
      BY <1>13, <2>4, <3>1 DEF TokenOK
    <3>2. CASE v = r
      <4>1. await'[r] # "idle" /\ cmd'[r] = cmd[r]
        BY <1>1, <1>8 DEF CallMoves, StillCalls
      <4>2. cmd'[r].kind = "short" /\ cmd'[r].key = j /\ digest'[j] = Grading!Digest(cmd'[r])
        BY <1>6, <1>13, <2>4, <4>1 DEF k
      <4>3. QED
        BY <1>13, <2>4, <3>2, <4>1, <4>2 DEF TokenOK
    <3>3. QED
      BY <3>1, <3>2
  <2>5. QED
    BY <2>3, <2>4
<1>17. \A c \in Concepts : (mastery[c] \subseteq Grading!Ledger(c))'
  BY <1>3 DEF GradesInv, Grading!Ledger
<1>18. QED
  BY <1>8, <1>9, <1>11, <1>12, <1>15, <1>16, <1>17, GradingTypes DEF GradesInv, CallMoves

(* A claim, an expiry or a release moves no row but the claim's. *)
LEMMA ClaimsOnly ==
  ASSUME GradesInv, TablesTyped', CallsTyped',
         UNCHANGED <<op, digest, snapshot, asked, final, bundle, mastery>>,
         \A v \in Requests : CallOK(v)',
         \A k \in Keys, v \in Requests : TokenOK(k, v)'
  PROVE  GradesInv'
<1>1. \A k \in Keys : KeyOK(k)'
  BY DEF GradesInv, KeyOK, Finalized, OutcomeOK
<1>2. AskedOK' /\ \A c \in Concepts : (mastery[c] \subseteq Grading!Ledger(c))'
  BY DEF GradesInv, AskedOK, Grading!Ledger
<1>3. QED
  BY <1>1, <1>2, GradingTypes DEF GradesInv

(* A claim is taken over for the same command. *)
LEMMA ClaimTakeoverGrades ==
  ASSUME GradesInv, NEW r \in Requests, Grading!ClaimTakeover(r)
  PROVE  GradesInv'
<1> DEFINE k == cmd[r].key
<1>1. /\ await[r] = "claiming" /\ op[k] = "processing" /\ digest[k] = Grading!Digest(cmd[r])
      /\ token' = [token EXCEPT ![k] = r] /\ lease' = [lease EXCEPT ![k] = "live"]
      /\ Grading!Goto(r, "grading")
  BY DEF Grading!ClaimTakeover
<1>2. /\ op' = op /\ digest' = digest /\ snapshot' = snapshot /\ asked' = asked
      /\ UNCHANGED Grading!resultVars
  BY Zenon DEF Grading!ClaimTakeover
<1>3. final' = final /\ bundle' = bundle /\ mastery' = mastery
  BY <1>2, ResultsSame, Zenon
<1>4. CallOK(r) /\ TablesTyped
  BY GradingTypes DEF GradesInv
<1>5. cmd[r] \in Commands /\ cmd[r].kind = "short" /\ k \in Keys
  BY <1>1, <1>4, GradingBounds DEF CallOK, ShortSteps
<1>6. CallMoves(r)
  BY <1>1, <1>3, <1>5, GotoMoves DEF ShortSteps
<1>7. \A v \in Requests : CallOK(v)'
  BY <1>3, <1>6, OthersKeep, SameResultsGrow DEF CallMoves
<1>8. TablesTyped'
  BY <1>1, <1>2, <1>3, <1>4, <1>5 DEF TablesTyped
<1>9. token'[k] = r /\ \A j \in Keys \ {k} : token'[j] = token[j]
  BY <1>1, <1>4, <1>5 DEF TablesTyped
<1>10. ASSUME NEW j \in Keys, NEW v \in Requests PROVE TokenOK(j, v)'
  <2>1. TokenOK(j, v)
    BY DEF GradesInv
  <2>2. \/ await'[v] = await[v] /\ cmd'[v] = cmd[v]
        \/ v = r /\ await'[r] # "idle" /\ cmd'[r] = cmd[r]
    BY <1>1, <1>6 DEF CallMoves, OnlyCall, StillCalls
  <2>3. QED
    BY <1>1, <1>2, <1>5, <1>9, <2>1, <2>2 DEF TokenOK
<1>11. QED
  BY <1>2, <1>3, <1>6, <1>7, <1>8, <1>10, ClaimsOnly DEF CallMoves

(* A claim is released by the call that holds it, and by no other. *)
LEMMA ReleaseGrades ==
  ASSUME GradesInv, NEW r \in Requests, Grading!Release(r)
  PROVE  GradesInv'
<1> DEFINE k == cmd[r].key
<1>1. /\ await[r] = "releasing" /\ Grading!Finish(r, "grading_unavailable")
      /\ IF token[k] = r
         THEN token' = [token EXCEPT ![k] = Null] /\ lease' = [lease EXCEPT ![k] = "none"]
         ELSE token' = token /\ lease' = lease
  BY DEF Grading!Release
<1>2. /\ op' = op /\ digest' = digest /\ snapshot' = snapshot /\ asked' = asked
      /\ UNCHANGED Grading!resultVars
  BY Zenon DEF Grading!Release
<1>3. final' = final /\ bundle' = bundle /\ mastery' = mastery
  BY <1>2, ResultsSame, Zenon
<1>4. CallOK(r) /\ TablesTyped
  BY GradingTypes DEF GradesInv
<1>5. k \in Keys
  BY <1>1, <1>4, GradingBounds DEF CallOK
<1>6. "grading_unavailable" \in Grading!Replies
  BY DEF Grading!Replies
<1>7. CallMoves(r)
  BY <1>1, <1>3, <1>6, FinishMoves
<1>8. \A v \in Requests : CallOK(v)'
  BY <1>3, <1>7, OthersKeep, SameResultsGrow DEF CallMoves
<1>9. TablesTyped'
  BY <1>1, <1>2, <1>3, <1>4, <1>5 DEF TablesTyped
<1>10. \A j \in Keys : token'[j] = token[j] \/ token'[j] = Null
  BY <1>1, <1>4, <1>5 DEF TablesTyped
<1>11. ASSUME NEW j \in Keys, NEW v \in Requests PROVE TokenOK(j, v)'
  <2>1. TokenOK(j, v)
    BY DEF GradesInv
  <2>2. \/ await'[v] = await[v] /\ cmd'[v] = cmd[v]
        \/ v = r /\ await'[r] # "idle" /\ cmd'[r] = cmd[r]
    BY <1>1, <1>7 DEF CallMoves, OnlyCall, StillCalls
  <2>3. v # Null
    BY GradingBounds
  <2>4. QED
    BY <1>2, <1>10, <2>1, <2>2, <2>3 DEF TokenOK
<1>12. QED
  BY <1>2, <1>3, <1>7, <1>8, <1>9, <1>11, ClaimsOnly DEF CallMoves

(* A lease runs out: the claim stays with its call. *)
LEMMA ExpireGrades ==
  ASSUME GradesInv, NEW k \in Keys, Grading!Expire(k)
  PROVE  GradesInv'
<1>1. lease' = [lease EXCEPT ![k] = "expired"]
  BY DEF Grading!Expire
<1>2. /\ op' = op /\ token' = token /\ digest' = digest /\ snapshot' = snapshot /\ asked' = asked
      /\ UNCHANGED Grading!resultVars /\ UNCHANGED Grading!callVars
  BY Zenon DEF Grading!Expire
<1>3. final' = final /\ bundle' = bundle /\ mastery' = mastery
  BY <1>2, ResultsSame, Zenon
<1>4. /\ await' = await /\ cmd' = cmd /\ grade' = grade /\ view' = view /\ left' = left
      /\ tries' = tries /\ reply' = reply
  BY <1>2, Zenon DEF Grading!callVars
<1>5. TablesTyped' /\ CallsTyped'
  BY <1>1, <1>2, <1>3, <1>4, GradingTypes DEF GradesInv, TablesTyped, CallsTyped
<1>6. \A v \in Requests : CallOK(v)'
  BY <1>3, <1>4 DEF GradesInv, CallOK, Projected, OutcomeOK
<1>7. \A j \in Keys, v \in Requests : TokenOK(j, v)'
  BY <1>2, <1>4 DEF GradesInv, TokenOK
<1>8. QED
  BY <1>2, <1>3, <1>5, <1>6, <1>7, ClaimsOnly

-----------------------------------------------------------------------------
(* A finalization is stored under a key that has none: what other keys say *)
(* of theirs, of the attempt they replace and of their items is the same.  *)
LEMMA StoredOthers ==
  ASSUME GradesInv, NEW k \in Keys, ~Finalized(k),
         NEW j \in Keys, j # k,
         \A i \in Keys \ {k} : final'[i] = final[i] /\ op'[i] = op[i],
         digest' = digest, snapshot' = snapshot,
         \A i \in Grading!Items : i.of = j => (i \in bundle' <=> i \in bundle),
         bundle' \subseteq Grading!Items,
         \A row \in asked : row.key = j => row \in asked'
  PROVE  KeyOK(j)'
<1>1. KeyOK(j)
  BY DEF GradesInv
<1>2. TablesTyped
  BY GradingTypes DEF GradesInv
<1>3. final'[j] = final[j] /\ op'[j] = op[j] /\ digest'[j] = digest[j] /\ snapshot'[j] = snapshot[j]
  OBVIOUS
<1>4. \A i : i.of = j => (i \in bundle' <=> i \in bundle)
  BY <1>2 DEF TablesTyped
<1>5. final[j].of # Null => final'[final[j].of].outcome = "abstained"
  <2>1. final[j].of \in Keys \cup {Null}
    BY <1>2 DEF TablesTyped, Grading!Views
  <2>2. ASSUME final[j].of # Null PROVE final[j].of # k
    BY <1>1, <2>2, NothingTyped DEF KeyOK, Finalized
  <2>3. QED
    BY <1>1, <2>1, <2>2 DEF KeyOK
<1>6. Finalized(j) => OutcomeOK(final'[j])
  BY <1>1, <1>3 DEF KeyOK
<1>7. (\E i \in bundle' : i.of = j) => final'[j].outcome = "abstained"
  BY <1>1, <1>3, <1>4 DEF KeyOK
<1>8. /\ op'[j] # "absent" =>
           \A c \in ConceptsOf[digest'[j][1]] : \E x \in snapshot'[j] : x[1] = c
      /\ op'[j] = "processing" =>
           \A x \in snapshot'[j] : \E row \in asked' : row.prompt = x[2] /\ row.key = j
  BY <1>1, <1>3 DEF KeyOK
<1>9. final'[j].outcome = "abstained" =>
         /\ \A c \in ConceptsOf[final'[j].digest[1]] :
              \E i \in bundle' : i.of = j /\ i.concept = c
         /\ \A i \in bundle' : i.of = j =>
              \E row \in asked' : row.prompt = i.prompt /\ row.key = j /\ row.shown
  BY <1>1, <1>3, <1>4 DEF KeyOK
<1>10. (op[j] = "finalized" => Finalized(j))'
  BY <1>1, <1>3 DEF KeyOK, Finalized
<1>11. (Finalized(j) => OutcomeOK(final[j]))'
  BY <1>3, <1>6 DEF Finalized, OutcomeOK
<1>12. QED
  BY <1>3, <1>5, <1>7, <1>8, <1>9, <1>10, <1>11 DEF KeyOK

(* What a key says once its operation is finalized. *)
LEMMA FinalizedKey ==
  ASSUME NEW k \in Keys, op'[k] = "finalized", digest' = digest, snapshot' = snapshot,
         final'[k].of = Null, OutcomeOK(final'[k]),
         \A c \in ConceptsOf[digest[k][1]] : \E x \in snapshot[k] : x[1] = c,
         final'[k].outcome = "graded" => ~(\E i \in bundle' : i.of = k),
         final'[k].outcome = "abstained" =>
            /\ \A c \in ConceptsOf[final'[k].digest[1]] :
                 \E i \in bundle' : i.of = k /\ i.concept = c
            /\ \A i \in bundle' : i.of = k =>
                 \E row \in asked' : row.prompt = i.prompt /\ row.key = k /\ row.shown
  PROVE  KeyOK(k)'
<1>1. final'[k].outcome \in {"graded", "abstained"}
  BY DEF OutcomeOK
<1>2. (Finalized(k) => OutcomeOK(final[k]))'
  BY DEF OutcomeOK
<1>3. (op[k] # "absent" =>
         \A c \in ConceptsOf[digest[k][1]] : \E x \in snapshot[k] : x[1] = c)'
  OBVIOUS
<1>4. Finalized(k)'
  BY <1>1, NothingTyped DEF Finalized
<1>5. QED
  BY <1>1, <1>2, <1>3, <1>4 DEF KeyOK

(* What the knowledge state may hold only grows with the finalizations. *)
LEMMA LedgersGrow ==
  ASSUME GradesInv, ResultsGrow, mastery' = mastery
  PROVE  \A c \in Concepts : (mastery[c] \subseteq Grading!Ledger(c))'
<1>1. SUFFICES ASSUME NEW c \in Concepts, NEW k \in mastery[c]
               PROVE  k \in Keys /\ <<c, "eligible">> \in final'[k].evidence
  BY DEF Grading!Ledger
<1>2. k \in Keys /\ <<c, "eligible">> \in final[k].evidence
  BY DEF GradesInv, Grading!Ledger
<1>3. Finalized(k)
  BY <1>2, NothingTyped DEF Finalized
<1>4. QED
  BY <1>2, <1>3 DEF ResultsGrow

(* An operation is completed: its fallbacks are shown, or given back, and  *)
(* no prompt is held twice.                                                *)
LEMMA CompletedOK ==
  ASSUME GradesInv, NEW k \in Keys, NEW outcome, asked' = Grading!Completed(k, outcome)
  PROVE  /\ asked' \subseteq Grading!Rows /\ AskedOK'
         /\ \A row \in asked : row.key # k => row \in asked'
         /\ outcome # "graded" => \A row \in asked : row.key = k =>
              \E x \in asked' : x.prompt = row.prompt /\ x.key = k /\ x.shown
<1>1. asked \subseteq Grading!Rows /\ AskedOK
  BY GradingTypes DEF GradesInv, TablesTyped
<1>2. \A x \in asked : /\ [x EXCEPT !.shown = TRUE] \in Grading!Rows
                       /\ [x EXCEPT !.shown = TRUE].prompt = x.prompt
                       /\ [x EXCEPT !.shown = TRUE].key = x.key
                       /\ [x EXCEPT !.shown = TRUE].kind = x.kind
                       /\ [x EXCEPT !.shown = TRUE].shown
                       /\ x.shown => [x EXCEPT !.shown = TRUE] = x
  BY <1>1 DEF Grading!Rows
<1>3. \A y \in asked' : \/ y \in asked /\ ~(y.key = k /\ y.kind = "fallback")
                        \/ \E x \in asked : x.key = k /\ y = [x EXCEPT !.shown = TRUE]
  BY DEF Grading!Completed
<1>4. \A x \in asked : ~(x.key = k /\ x.kind = "fallback") => x \in asked'
  BY DEF Grading!Completed
<1>5. outcome # "graded" =>
        \A x \in asked : x.key = k => [x EXCEPT !.shown = TRUE] \in asked'
  BY DEF Grading!Completed
<1>6. asked' \subseteq Grading!Rows
  BY <1>1, <1>2, <1>3
<1>7. \A y \in asked' : \E x \in asked :
        /\ x.prompt = y.prompt /\ x.kind = y.kind
        /\ \/ y = x /\ ~(x.key = k /\ x.kind = "fallback")
           \/ x.key = k /\ y = [x EXCEPT !.shown = TRUE]
  <2>1. SUFFICES ASSUME NEW y \in asked'
                 PROVE  \E x \in asked :
                          /\ x.prompt = y.prompt /\ x.kind = y.kind
                          /\ \/ y = x /\ ~(x.key = k /\ x.kind = "fallback")
                             \/ x.key = k /\ y = [x EXCEPT !.shown = TRUE]
    OBVIOUS
  <2>2. CASE y \in asked /\ ~(y.key = k /\ y.kind = "fallback")
    BY <2>2
  <2>3. CASE \E x \in asked : x.key = k /\ y = [x EXCEPT !.shown = TRUE]
    <3>1. PICK x \in asked : x.key = k /\ y = [x EXCEPT !.shown = TRUE]
      BY <2>3
    <3>2. x.prompt = y.prompt /\ x.kind = y.kind
      BY <1>2, <3>1
    <3>3. QED
      BY <3>1, <3>2
  <2>4. QED
    BY <1>3, <2>2, <2>3
<1>8. \A x \in asked : x.kind = "original" => x.shown
  BY <1>1 DEF AskedOK
<1>9. \A x \in asked : x.kind \in {"original", "fallback"}
  BY <1>1 DEF Grading!Rows
<1>10. ASSUME NEW y \in asked', NEW z \in asked', y.prompt = z.prompt PROVE y = z
  <2>1. PICK x \in asked :
          /\ x.prompt = y.prompt /\ x.kind = y.kind
          /\ \/ y = x /\ ~(x.key = k /\ x.kind = "fallback")
             \/ x.key = k /\ y = [x EXCEPT !.shown = TRUE]
    BY <1>7
  <2>2. PICK w \in asked :
          /\ w.prompt = z.prompt /\ w.kind = z.kind
          /\ \/ z = w /\ ~(w.key = k /\ w.kind = "fallback")
             \/ w.key = k /\ z = [w EXCEPT !.shown = TRUE]
    BY <1>7
  <2>3. x = w
    BY <1>1, <1>10, <2>1, <2>2 DEF AskedOK
  <2>4. x.key = k /\ x.kind = "original" => [x EXCEPT !.shown = TRUE] = x
    BY <1>2, <1>8
  <2>5. x.key = k /\ ~(x.key = k /\ x.kind = "fallback") => [x EXCEPT !.shown = TRUE] = x
    BY <1>9, <2>4
  <2>6. CASE y = x /\ ~(x.key = k /\ x.kind = "fallback")
    BY <2>2, <2>3, <2>5, <2>6
  <2>7. CASE x.key = k /\ y = [x EXCEPT !.shown = TRUE]
    <3>1. CASE z = w /\ ~(w.key = k /\ w.kind = "fallback")
      BY <2>3, <2>5, <2>7, <3>1
    <3>2. CASE z = [w EXCEPT !.shown = TRUE]
      BY <2>3, <2>7, <3>2
    <3>3. QED
      BY <2>2, <3>1, <3>2
  <2>8. QED
    BY <2>1, <2>6, <2>7
<1>11. \A y \in asked' : y.kind = "original" => y.shown
  BY <1>2, <1>7, <1>8
<1>12. \A row \in asked : row.key # k => row \in asked'
  BY <1>4
<1>13. outcome # "graded" => \A row \in asked : row.key = k =>
         \E x \in asked' : x.prompt = row.prompt /\ x.key = k /\ x.shown
  BY <1>2, <1>5
<1>14. QED
  BY <1>6, <1>10, <1>11, <1>12, <1>13 DEF AskedOK

(* The holder of a claim stores the finalization: of an abstention with    *)
(* one replacement for each concept.                                       *)
LEMMA FinalizeNewGrades ==
  ASSUME GradesInv, NEW r \in Requests, Grading!FinalizeNew(r)
  PROVE  GradesInv'
<1> DEFINE k == cmd[r].key
           v == [outcome |-> grade[r].outcome, evidence |-> grade[r].evidence,
                 digest |-> Grading!Digest(cmd[r]), of |-> Null]
           items == {[of |-> k, concept |-> x[1], prompt |-> x[2]] : x \in snapshot[k]}
<1>1. /\ await[r] = "finalizing" /\ final[k] = Grading!NoView /\ op[k] = "processing"
      /\ token[k] = r
      /\ final' = [final EXCEPT ![k] = v] /\ op' = [op EXCEPT ![k] = "finalized"]
      /\ token' = [token EXCEPT ![k] = Null] /\ lease' = [lease EXCEPT ![k] = "none"]
      /\ bundle' = IF v.outcome = "graded" THEN bundle ELSE bundle \cup items
      /\ asked' = Grading!Completed(k, v.outcome)
      /\ Grading!Answer(r, v)
  BY DEF Grading!FinalizeNew, Grading!MayFinalize
<1>2. digest' = digest /\ snapshot' = snapshot /\ mastery' = mastery
  BY Zenon DEF Grading!FinalizeNew
<1>3. CallOK(r) /\ TablesTyped /\ CallsTyped
  BY GradingTypes DEF GradesInv
<1>4. cmd[r] \in Commands /\ k \in Keys
  BY <1>1, <1>3, GradingBounds DEF CallOK
<1>5. TokenOK(k, r) /\ KeyOK(k)
  BY <1>4 DEF GradesInv
<1>6. digest[k] = Grading!Digest(cmd[r])
  BY <1>1, <1>5 DEF TokenOK
<1>7. Grading!Digest(cmd[r]) \in Grading!Digests
  BY <1>4 DEF Grading!Digests
<1>8. OutcomeOK(v) /\ v \in Grading!Views
  <2>1. OutcomeOK(grade[r]) /\ grade[r] \in Grading!Grades
    BY <1>1, <1>3 DEF CallOK, CallsTyped
  <2>2. v.outcome \in Grading!Outcomes /\ v.evidence \in Grading!Evidence
    BY <2>1 DEF Grading!Grades
  <2>3. v \in Grading!Views
    BY <1>7, <2>2 DEF Grading!Views
  <2>4. QED
    BY <2>1, <2>3 DEF OutcomeOK
<1>9. /\ v.digest = digest[k] /\ v.of = Null /\ v # Grading!NoView
      /\ v.outcome \in {"graded", "abstained"}
  BY <1>6, <1>8, NothingTyped DEF OutcomeOK
<1>10. items \subseteq Grading!Items
  <2>1. snapshot[k] \in Grading!Snapshot
    BY <1>3, <1>4 DEF TablesTyped
  <2>2. QED
    BY <1>4, <2>1 DEF Grading!Items, Grading!Snapshot
<1>11. /\ \A i \in items : i.of = k /\ \E x \in snapshot[k] : i.prompt = x[2]
       /\ \A x \in snapshot[k] : \E i \in items : i.of = k /\ i.concept = x[1]
  <2>1. ASSUME NEW i \in items PROVE i.of = k /\ \E x \in snapshot[k] : i.prompt = x[2]
    <3>1. PICK x \in snapshot[k] : i = [of |-> k, concept |-> x[1], prompt |-> x[2]]
      OBVIOUS
    <3>2. QED
      BY <3>1
  <2>2. ASSUME NEW x \in snapshot[k] PROVE \E i \in items : i.of = k /\ i.concept = x[1]
    <3>1. [of |-> k, concept |-> x[1], prompt |-> x[2]] \in items
      OBVIOUS
    <3>2. QED
      BY <3>1
  <2>3. QED
    BY <2>1, <2>2
<1> HIDE DEF k, v, items
<1>12. /\ asked' \subseteq Grading!Rows /\ AskedOK'
       /\ \A row \in asked : row.key # k => row \in asked'
       /\ v.outcome # "graded" => \A row \in asked : row.key = k =>
            \E x \in asked' : x.prompt = row.prompt /\ x.key = k /\ x.shown
  BY <1>1, <1>4, CompletedOK
<1>13. TablesTyped'
  BY <1>1, <1>2, <1>3, <1>4, <1>8, <1>10, <1>12 DEF TablesTyped
<1>14. /\ final'[k] = v /\ op'[k] = "finalized" /\ token'[k] = Null
       /\ \A j \in Keys \ {k} : final'[j] = final[j] /\ op'[j] = op[j] /\ token'[j] = token[j]
  BY <1>1, <1>3, <1>4 DEF TablesTyped
<1>15. CallMoves(r)
  BY <1>1, <1>8, <1>9, <1>14, AnswerMoves DEF k
<1>16. ResultsGrow
  BY <1>1, <1>2, <1>14 DEF ResultsGrow, Finalized
<1>17. \A w \in Requests : CallOK(w)'
  BY <1>15, <1>16, OthersKeep DEF CallMoves
<1>18. ~Finalized(k) /\ \A i \in bundle : i.of # k
  BY <1>1, <1>5, NothingTyped DEF Finalized, KeyOK
<1>19. bundle' \subseteq Grading!Items
  BY <1>13 DEF TablesTyped
<1>20. ASSUME NEW j \in Keys, j # k PROVE KeyOK(j)'
  <2>1. \A i \in Grading!Items : i.of = j => (i \in bundle' <=> i \in bundle)
    BY <1>1, <1>11, <1>20
  <2>2. \A row \in asked : row.key = j => row \in asked'
    BY <1>12, <1>20
  <2>3. \A i \in Keys \ {k} : final'[i] = final[i] /\ op'[i] = op[i]
    BY <1>14
  <2>4. QED
    BY <1>2, <1>4, <1>18, <1>19, <1>20, <2>1, <2>2, <2>3, StoredOthers
<1>21. op'[k] = "finalized" /\ final'[k].of = Null /\ OutcomeOK(final'[k])
  BY <1>8, <1>9, <1>14
<1>22. ASSUME NEW j \in Keys, j = k PROVE KeyOK(j)'
  <2>1. CASE v.outcome = "graded"
    <3>1. bundle' = bundle
      BY <1>1, <2>1
    <3>2. ~(\E i \in bundle' : i.of = j)
      BY <1>22, <1>18, <3>1
    <3>3. \A c \in ConceptsOf[digest[j][1]] : \E x \in snapshot[j] : x[1] = c
      BY <1>22, <1>1, <1>5 DEF KeyOK
    <3>4. final'[j].outcome = "graded" => ~(\E i \in bundle' : i.of = j)
      BY <3>2
    <3>5. final'[j].outcome # "abstained"
      BY <1>22, <1>14, <2>1
    <3>6. final'[j].outcome = "abstained" =>
            /\ \A c \in ConceptsOf[final'[j].digest[1]] :
                 \E i \in bundle' : i.of = j /\ i.concept = c
            /\ \A i \in bundle' : i.of = j =>
                 \E row \in asked' : row.prompt = i.prompt /\ row.key = j /\ row.shown
      BY <3>5
    <3>7. op'[j] = "finalized" /\ final'[j].of = Null /\ OutcomeOK(final'[j])
      BY <1>14, <1>21, <1>22
    <3>8. QED
      BY <1>2, <3>3, <3>4, <3>6, <3>7, FinalizedKey, Zenon
  <2>2. CASE v.outcome = "abstained"
    <3>1. \A i \in bundle' : i.of = j => i \in items
      BY <1>22, <1>1, <1>18
    <3>2. \A c \in ConceptsOf[v.digest[1]] : \E i \in bundle' : i.of = j /\ i.concept = c
      <4>1. \A c \in ConceptsOf[digest[j][1]] : \E x \in snapshot[j] : x[1] = c
        BY <1>22, <1>1, <1>5 DEF KeyOK
      <4>2. items \subseteq bundle'
        BY <1>1, <2>2
      <4>3. QED
        BY <1>22, <1>9, <1>11, <4>1, <4>2
    <3>3. \A i \in bundle' : i.of = j =>
            \E row \in asked' : row.prompt = i.prompt /\ row.key = j /\ row.shown
      <4>1. \A x \in snapshot[j] : \E row \in asked : row.prompt = x[2] /\ row.key = j
        BY <1>22, <1>1, <1>5 DEF KeyOK
      <4>2. QED
        BY <1>22, <1>11, <1>12, <2>2, <3>1, <4>1
    <3>4. \A c \in ConceptsOf[digest[j][1]] : \E x \in snapshot[j] : x[1] = c
      BY <1>22, <1>1, <1>5 DEF KeyOK
    <3>5. final'[j].outcome = "graded" => ~(\E i \in bundle' : i.of = j)
      BY <1>22, <1>14, <2>2
    <3>6. final'[j].outcome = "abstained" =>
            /\ \A c \in ConceptsOf[final'[j].digest[1]] :
                 \E i \in bundle' : i.of = j /\ i.concept = c
            /\ \A i \in bundle' : i.of = j =>
                 \E row \in asked' : row.prompt = i.prompt /\ row.key = j /\ row.shown
      BY <1>22, <1>14, <3>2, <3>3
    <3>7. op'[j] = "finalized" /\ final'[j].of = Null /\ OutcomeOK(final'[j])
      BY <1>14, <1>21, <1>22
    <3>8. QED
      BY <1>2, <3>4, <3>5, <3>6, <3>7, FinalizedKey, Zenon
  <2>3. QED
    BY <1>9, <2>1, <2>2
<1>23. \A j \in Keys, w \in Requests : TokenOK(j, w)'
  <2>1. SUFFICES ASSUME NEW j \in Keys, NEW w \in Requests PROVE TokenOK(j, w)'
    OBVIOUS
  <2>2. TokenOK(j, w) /\ w # Null
    BY GradingBounds DEF GradesInv
  <2>3. \/ await'[w] = await[w] /\ cmd'[w] = cmd[w]
        \/ w = r /\ await'[r] # "idle" /\ cmd'[r] = cmd[r]
    BY <1>1, <1>15 DEF CallMoves, OnlyCall, StillCalls
  <2>4. QED
    BY <1>2, <1>14, <2>2, <2>3 DEF TokenOK
<1>24. \A c \in Concepts : (mastery[c] \subseteq Grading!Ledger(c))'
  BY <1>2, <1>16, LedgersGrow
<1>25. \A j \in Keys : KeyOK(j)'
  BY <1>4, <1>20, <1>22
<1>26. QED
  BY <1>12, <1>13, <1>15, <1>17, <1>23, <1>24, <1>25, GradingTypes DEF GradesInv, CallMoves

(* The keyed answer to a replacement is stored, under a key that has none. *)
LEMMA ReplaceNewGrades ==
  ASSUME GradesInv, NEW r \in Requests, await[r] = "replacing", Grading!Replaceable(cmd[r]),
         NEW v, v = [outcome |-> "graded", evidence |-> {<<cmd[r].concept, "eligible">>},
                     digest |-> Grading!Digest(cmd[r]), of |-> cmd[r].of],
         NEW k, k = cmd[r].key, ~Finalized(k), final' = [final EXCEPT ![k] = v],
         Grading!Answer(r, v), UNCHANGED <<Grading!opVars, bundle, mastery>>
  PROVE  GradesInv'
<1>1. UNCHANGED <<op, token, lease, digest, snapshot, asked>>
  BY Zenon DEF Grading!opVars
<1>2. CallOK(r) /\ TablesTyped /\ CallsTyped
  BY GradingTypes DEF GradesInv
<1>3. /\ cmd[r] \in Commands /\ k \in Keys /\ cmd[r].of \in Keys /\ cmd[r].concept \in Concepts
  BY <1>2, GradingBounds DEF CallOK, ReplacementSteps
<1>4. v \in Grading!Views /\ v # Grading!NoView /\ OutcomeOK(v)
  <2>1. {<<cmd[r].concept, "eligible">>} \in Grading!Evidence
    BY <1>3 DEF Grading!Evidence, Grading!Marks
  <2>2. Grading!Digest(cmd[r]) \in Grading!Digests
    BY <1>3 DEF Grading!Digests
  <2>3. v \in Grading!Views
    BY <1>3, <2>1, <2>2 DEF Grading!Views, Grading!Outcomes
  <2>4. v # Grading!NoView /\ OutcomeOK(v)
    BY NothingTyped DEF OutcomeOK
  <2>5. QED
    BY <2>3, <2>4
<1>5. v.outcome = "graded" /\ v.of \in Keys /\ final[v.of].outcome = "abstained"
  BY <1>3 DEF Grading!Replaceable
<1>6. /\ final'[k] = v /\ \A j \in Keys \ {k} : final'[j] = final[j]
  BY <1>2, <1>3 DEF TablesTyped
<1>7. CallMoves(r)
  BY <1>4, <1>6, AnswerMoves
<1>8. ResultsGrow
  BY <1>6 DEF ResultsGrow
<1>9. \A w \in Requests : CallOK(w)'
  BY <1>7, <1>8, OthersKeep DEF CallMoves
<1>10. TablesTyped'
  BY <1>1, <1>2, <1>3, <1>4 DEF TablesTyped
<1>11. ASSUME NEW j \in Keys, j # k PROVE KeyOK(j)'
  <2>1. \A i \in Keys \ {k} : final'[i] = final[i] /\ op'[i] = op[i]
    BY <1>1, <1>6
  <2>2. \A i \in Grading!Items : i.of = j => (i \in bundle' <=> i \in bundle)
    OBVIOUS
  <2>3. bundle' \subseteq Grading!Items /\ \A row \in asked : row.key = j => row \in asked'
    BY <1>1, <1>10 DEF TablesTyped
  <2>4. QED
    BY <1>1, <1>3, <1>11, <2>1, <2>2, <2>3, StoredOthers
<1>12. KeyOK(k)'
  <2>1. KeyOK(k) /\ final[k].outcome # "abstained"
    BY <1>3, NothingTyped DEF GradesInv, Finalized
  <2>2. final'[v.of].outcome = "abstained"
    BY <1>5, <1>6, <2>1
  <2>3. ~(\E i \in bundle' : i.of = k)
    BY <2>1 DEF KeyOK
  <2>4. /\ op'[k] # "absent" =>
             \A c \in ConceptsOf[digest'[k][1]] : \E x \in snapshot'[k] : x[1] = c
        /\ op'[k] = "processing" =>
             \A x \in snapshot'[k] : \E row \in asked' : row.prompt = x[2] /\ row.key = k
    BY <1>1, <2>1 DEF KeyOK
  <2>5. QED
    BY <1>4, <1>5, <1>6, <2>2, <2>3, <2>4 DEF KeyOK, Finalized, OutcomeOK
<1>13. \A j \in Keys, w \in Requests : TokenOK(j, w)'
  BY <1>1, <1>7 DEF GradesInv, TokenOK, CallMoves, OnlyCall, StillCalls
<1>14. \A c \in Concepts : (mastery[c] \subseteq Grading!Ledger(c))'
  BY <1>8, LedgersGrow
<1>15. \A j \in Keys : KeyOK(j)'
  BY <1>11, <1>12
<1>16. AskedOK'
  BY <1>1 DEF GradesInv, AskedOK
<1>17. QED
  BY <1>7, <1>9, <1>10, <1>13, <1>14, <1>15, <1>16, GradingTypes DEF GradesInv, CallMoves

(* A replacement is answered once: from then on it is replayed. *)
LEMMA ReplaceGrades ==
  ASSUME GradesInv, NEW r \in Requests, Grading!Replace(r)
  PROVE  GradesInv'
<1>1. PICK k : k = cmd[r].key
  OBVIOUS
<1>2. PICK v : v = [outcome |-> "graded", evidence |-> {<<cmd[r].concept, "eligible">>},
                    digest |-> Grading!Digest(cmd[r]), of |-> cmd[r].of]
  OBVIOUS
<1>3. /\ await[r] = "replacing" /\ Grading!Replaceable(cmd[r])
      /\ UNCHANGED <<Grading!opVars, bundle, mastery>>
      /\ \/ ~Finalized(k) /\ final' = [final EXCEPT ![k] = v] /\ Grading!Answer(r, v)
         \/ Finalized(k) /\ final' = final /\ Grading!Answer(r, final[k])
         \/ Finalized(k) /\ final' = final /\ Grading!Finish(r, "conflicting_duplicate")
  BY <1>1, <1>2 DEF Grading!Replace, Finalized
<1>4. CASE ~Finalized(k) /\ final' = [final EXCEPT ![k] = v] /\ Grading!Answer(r, v)
  BY <1>1, <1>2, <1>3, <1>4, ReplaceNewGrades
<1>5. CASE final' = final
  <2>1. UNCHANGED <<Grading!opVars, Grading!resultVars>>
    BY <1>3, <1>5, Zenon DEF Grading!resultVars
  <2>2. CASE Finalized(k) /\ Grading!Answer(r, final[k])
    BY <1>1, <1>3, <2>1, <2>2, ReplayGrades
  <2>3. CASE Grading!Finish(r, "conflicting_duplicate")
    <3>1. "conflicting_duplicate" \in Grading!Replies
      BY DEF Grading!Replies
    <3>2. QED
      BY <1>3, <2>1, <2>3, <3>1, FinishGrades
  <2>4. CASE ~Finalized(k) /\ final' = [final EXCEPT ![k] = v] /\ Grading!Answer(r, v)
    BY <1>4, <2>4
  <2>5. QED
    BY <1>3, <2>2, <2>3, <2>4
<1>6. QED
  BY <1>3, <1>4, <1>5

(* One evidence is projected with all that is committed on its concept. *)
LEMMA ProjectGrades ==
  ASSUME GradesInv, NEW r \in Requests, NEW e \in left[r], Grading!Project(r, e)
  PROVE  GradesInv'
<1>1. /\ await[r] = "projecting" /\ mastery' = [mastery EXCEPT ![e[1]] = Grading!Ledger(e[1])]
      /\ left' = [left EXCEPT ![r] = @ \ {e}] /\ tries' = [tries EXCEPT ![r] = 0]
  BY DEF Grading!Project
<1>2. /\ UNCHANGED Grading!opVars /\ final' = final /\ bundle' = bundle
      /\ await' = await /\ cmd' = cmd /\ grade' = grade /\ view' = view /\ reply' = reply
  BY Zenon DEF Grading!Project
<1>3. UNCHANGED <<op, token, lease, digest, snapshot, asked>>
  BY <1>2, Zenon DEF Grading!opVars
<1>4. CallOK(r) /\ TablesTyped /\ CallsTyped
  BY GradingTypes DEF GradesInv
<1>5. e[1] \in Concepts /\ left[r] \ {e} \in Grading!Evidence /\ Grading!Ledger(e[1]) \subseteq Keys
  BY <1>4 DEF CallsTyped, Grading!Evidence, Grading!Ledger
<1>6. /\ mastery'[e[1]] = Grading!Ledger(e[1])
      /\ \A c \in Concepts : c # e[1] => mastery'[c] = mastery[c]
      /\ mastery' \in [Concepts -> SUBSET Keys]
  BY <1>1, <1>4, <1>5 DEF TablesTyped
<1>7. \A c \in Concepts : mastery[c] \subseteq mastery'[c] /\ mastery'[c] \subseteq Grading!Ledger(c)
  BY <1>6 DEF GradesInv
<1>8. TablesTyped' /\ CallsTyped'
  BY <1>1, <1>2, <1>3, <1>4, <1>5, <1>6, GradingBounds DEF TablesTyped, CallsTyped
<1>9. OnlyCall(r) /\ StillCalls(r) /\ left'[r] = left[r] \ {e}
  BY <1>1, <1>2, <1>4 DEF CallsTyped, OnlyCall, StillCalls
<1>10. ResultsGrow
  BY <1>2, <1>7 DEF ResultsGrow
<1>11. view[r] = final[cmd[r].key] /\ view[r] # Grading!NoView /\ cmd[r].key \in Keys
  BY <1>1, <1>4, GradingBounds DEF CallOK
<1>12. \A d \in view[r].evidence \ (left[r] \ {e}) :
         d[2] = "eligible" => cmd[r].key \in mastery'[d[1]]
  <2>1. SUFFICES ASSUME NEW d \in view[r].evidence \ (left[r] \ {e}), d[2] = "eligible"
                 PROVE  cmd[r].key \in mastery'[d[1]]
    OBVIOUS
  <2>2. d \in Concepts \X Grading!Marks
    BY <1>4 DEF CallsTyped, Grading!Views, Grading!Evidence
  <2>3. CASE d = e
    <3>1. <<d[1], "eligible">> \in final[cmd[r].key].evidence
      BY <1>11, <2>1, <2>2
    <3>2. QED
      BY <1>6, <1>11, <2>3, <3>1 DEF Grading!Ledger
  <2>4. CASE d # e
    <3>1. cmd[r].key \in mastery[d[1]]
      BY <1>1, <1>4, <2>1, <2>4 DEF CallOK, Projected
    <3>2. QED
      BY <1>7, <2>2, <3>1
  <2>5. QED
    BY <2>3, <2>4
<1>13. CallOK(r)'
  BY <1>1, <1>2, <1>4, <1>9, <1>11, <1>12 DEF CallOK, Projected, ShortSteps, ReplacementSteps
<1>14. CallMoves(r)
  BY <1>8, <1>9, <1>13 DEF CallMoves
<1>15. \A w \in Requests : CallOK(w)'
  BY <1>9, <1>10, <1>13, OthersKeep
<1>16. \A j \in Keys : KeyOK(j)'
  BY <1>2, <1>3 DEF GradesInv, KeyOK, Finalized, OutcomeOK
<1>17. \A j \in Keys, w \in Requests : TokenOK(j, w)'
  BY <1>2, <1>3 DEF GradesInv, TokenOK
<1>18. AskedOK' /\ \A c \in Concepts : (mastery[c] \subseteq Grading!Ledger(c))'
  BY <1>2, <1>3, <1>7 DEF GradesInv, AskedOK, Grading!Ledger
<1>19. QED
  BY <1>8, <1>15, <1>16, <1>17, <1>18, GradingTypes DEF GradesInv

(* The steps of a call that only read the tables. *)
LEMMA ReadingGrades ==
  ASSUME GradesInv, NEW r \in Requests,
         \/ Grading!ClaimReplay(r) \/ Grading!ModelFails(r)
         \/ Grading!FinalizeReplay(r) \/ Grading!FinalizeFails(r)
         \/ Grading!LookReplay(r) \/ Grading!Resolve(r)
         \/ Grading!ProjectRefused(r) \/ Grading!Reply(r) \/ Grading!Crash(r)
  PROVE  GradesInv'
<1>1. UNCHANGED <<Grading!opVars, Grading!resultVars>>
  BY Zenon DEF Grading!ClaimReplay, Grading!ModelFails, Grading!FinalizeReplay,
     Grading!FinalizeFails, Grading!LookReplay, Grading!Resolve, Grading!ProjectRefused,
     Grading!Reply, Grading!Crash
<1>2. CallOK(r) /\ CallsTyped
  BY GradingTypes DEF GradesInv
<1>3. CASE \/ Grading!ProjectRefused(r) \/ Grading!Reply(r) \/ Grading!Crash(r)
  <2>1. PICK what \in Grading!Replies :
          /\ Grading!Finish(r, what) /\ await[r] # "idle"
          /\ what = "final" => await[r] = "projecting" /\ left[r] = {}
    BY <1>3 DEF Grading!ProjectRefused, Grading!Reply, Grading!Crash, Grading!Replies
  <2>2. QED
    BY <1>1, <2>1, FinishGrades
<1>4. CASE Grading!ModelFails(r)
  <2>1. await[r] = "grading" /\ Grading!Goto(r, "releasing")
    BY <1>4 DEF Grading!ModelFails
  <2>2. QED
    BY <1>1, <1>2, <2>1, GotoGrades DEF CallOK, ShortSteps
<1>5. CASE Grading!FinalizeFails(r)
  <2>1. /\ await[r] = "finalizing" /\ "error" \in Grading!Replies
        /\ Grading!Finish(r, "error") \/ Grading!Goto(r, "releasing")
    BY <1>5 DEF Grading!FinalizeFails, Grading!Replies
  <2>2. CASE Grading!Finish(r, "error")
    BY <1>1, <2>1, <2>2, FinishGrades
  <2>3. CASE Grading!Goto(r, "releasing")
    BY <1>1, <1>2, <2>1, <2>3, GotoGrades DEF CallOK, ShortSteps
  <2>4. QED
    BY <2>1, <2>2, <2>3
<1>6. CASE Grading!FinalizeReplay(r)
  BY <1>1, <1>6, ReplayGrades DEF Grading!FinalizeReplay, Finalized
<1>7. CASE Grading!ClaimReplay(r)
  <2>1. await[r] = "claiming" /\ op[cmd[r].key] = "finalized" /\ Grading!Answer(r, final[cmd[r].key])
    BY <1>7 DEF Grading!ClaimReplay
  <2>2. cmd[r].key \in Keys
    BY <1>2, <2>1, GradingBounds DEF CallOK
  <2>3. Finalized(cmd[r].key)
    BY <2>1, <2>2 DEF GradesInv, KeyOK
  <2>4. QED
    BY <1>1, <2>1, <2>3, ReplayGrades
<1>8. CASE Grading!LookReplay(r)
  <2>1. await[r] = "looking" /\ cmd[r].kind # "short"
    BY <1>2, <1>8 DEF Grading!LookReplay, CallOK, ReplacementSteps
  <2>2. CASE ~Finalized(cmd[r].key)
    <3>1. Grading!Goto(r, "resolving")
      BY <1>8, <2>2 DEF Grading!LookReplay, Finalized
    <3>2. QED
      BY <1>1, <2>1, <3>1, GotoGrades DEF ShortSteps, ReplacementSteps
  <2>3. CASE Finalized(cmd[r].key) /\ Grading!Answer(r, final[cmd[r].key])
    BY <1>1, <2>1, <2>3, ReplayGrades
  <2>4. CASE Grading!Finish(r, "conflicting_duplicate")
    <3>1. "conflicting_duplicate" \in Grading!Replies
      BY DEF Grading!Replies
    <3>2. QED
      BY <1>1, <2>1, <2>4, <3>1, FinishGrades
  <2>5. QED
    BY <1>8, <2>2, <2>3, <2>4 DEF Grading!LookReplay, Finalized
<1>9. CASE Grading!Resolve(r)
  <2>1. await[r] = "resolving" /\ cmd[r].kind # "short"
    BY <1>2, <1>9 DEF Grading!Resolve, CallOK, ReplacementSteps
  <2>2. CASE Grading!Goto(r, "replacing")
    BY <1>1, <2>1, <2>2, GotoGrades DEF ShortSteps, ReplacementSteps
  <2>3. CASE Grading!Finish(r, "authorization_denied")
    <3>1. "authorization_denied" \in Grading!Replies
      BY DEF Grading!Replies
    <3>2. QED
      BY <1>1, <2>1, <2>3, <3>1, FinishGrades
  <2>4. QED
    BY <1>9, <2>2, <2>3 DEF Grading!Resolve
<1>10. QED
  BY <1>3, <1>4, <1>5, <1>6, <1>7, <1>8, <1>9

-----------------------------------------------------------------------------
(* Every step keeps the invariant. *)
LEMMA NextGrades ==
  ASSUME GradesInv, [Grading!Next]_(Grading!vars)
  PROVE  GradesInv'
<1>1. CASE UNCHANGED Grading!vars
  <2>1. /\ UNCHANGED <<op, token, lease, digest, snapshot, asked, final, bundle, mastery>>
        /\ UNCHANGED <<await, cmd, grade, view, left, tries, reply>>
    BY <1>1, Zenon DEF Grading!vars, Grading!opVars, Grading!resultVars, Grading!callVars
  <2>2. TablesTyped' /\ CallsTyped'
    BY <2>1, GradingTypes DEF GradesInv, TablesTyped, CallsTyped
  <2>3. /\ \A v \in Requests : CallOK(v)'
        /\ \A k \in Keys, v \in Requests : TokenOK(k, v)'
    BY <2>1 DEF GradesInv, CallOK, TokenOK, Projected, OutcomeOK
  <2>4. QED
    BY <2>1, <2>2, <2>3, ClaimsOnly
<1>2. ASSUME NEW r \in Requests, Grading!Claim(r) PROVE GradesInv'
  BY <1>2, ClaimNewGrades, ClaimReadsGrades, ReadingGrades, ClaimTakeoverGrades
  DEF Grading!Claim
<1>3. ASSUME NEW r \in Requests, Grading!Finalize(r) PROVE GradesInv'
  BY <1>3, FinalizeNewGrades, ReadingGrades DEF Grading!Finalize
<1>4. ASSUME NEW r \in Requests, Grading!Projection(r) PROVE GradesInv'
  BY <1>4, ProjectGrades, ProjectFailsGrades, ReadingGrades DEF Grading!Projection
<1>5. ASSUME NEW r \in Requests,
             \/ Grading!Call(r) \/ Grading!ModelAnswers(r) \/ Grading!ModelInvalid(r)
             \/ Grading!Release(r) \/ Grading!Replace(r)
      PROVE  GradesInv'
  BY <1>5, CallGrades, ModelGrades, ReleaseGrades, ReplaceGrades
<1>6. ASSUME NEW r \in Requests,
             \/ Grading!ModelFails(r) \/ Grading!LookReplay(r) \/ Grading!Resolve(r)
             \/ Grading!Reply(r) \/ Grading!Crash(r)
      PROVE  GradesInv'
  BY <1>6, ReadingGrades
<1>7. QED
  BY <1>1, <1>2, <1>3, <1>4, <1>5, <1>6, ExpireGrades, Zenon DEF Grading!Next

(* What the invariant says of the answers. *)
LEMMA InvGradesSound == GradesInv => GradesSound
<1> SUFFICES ASSUME GradesInv PROVE GradesSound
  OBVIOUS
<1>1. TablesTyped /\ CallsTyped
  BY GradingTypes DEF GradesInv
<1>2. Grading!ShownIsFinal /\ Grading!NoPromptTwice
  BY DEF GradesInv, CallOK, AskedOK, Grading!ShownIsFinal, Grading!NoPromptTwice
<1>3. Grading!AnsweredIsProjected
  BY DEF GradesInv, CallOK, Projected, Grading!AnsweredIsProjected
<1>4. Grading!AbstentionReplaced
  BY DEF GradesInv, KeyOK, Grading!AbstentionReplaced
<1>5. Grading!MasteryEarned
  <2>1. SUFFICES ASSUME NEW c \in Concepts, NEW k \in mastery[c]
                 PROVE  /\ final[k].outcome = "graded"
                        /\ final[k].of # Null => final[final[k].of].outcome = "abstained"
    BY DEF Grading!MasteryEarned
  <2>2. k \in Keys /\ <<c, "eligible">> \in final[k].evidence
    BY DEF GradesInv, Grading!Ledger
  <2>3. KeyOK(k) /\ Finalized(k)
    BY <2>2, NothingTyped DEF GradesInv, Finalized
  <2>4. QED
    BY <2>2, <2>3 DEF KeyOK, OutcomeOK
<1>6. QED
  BY <1>2, <1>3, <1>4, <1>5 DEF GradesInv, GradesSound, Grading!GradesSound

(* Graders that outlive their claims, abstentions and repeated calls, any  *)
(* number of them, on any questions: what was told is stored and projected, *)
(* no prompt is held twice, and no abstained attempt earns mastery.         *)
THEOREM GradesAreSound == Grading!Spec => []GradesSound
<1>1. GradesInv /\ [Grading!Next]_(Grading!vars) => GradesInv'
  BY NextGrades
<1>2. QED
  BY InitGrades, <1>1, InvGradesSound, PTL DEF Grading!Spec

=============================================================================

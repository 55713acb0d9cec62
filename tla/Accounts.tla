------------------------------ MODULE Accounts ------------------------------
(***************************************************************************)
(* Signing in by magic link (packages/accounts/src/service.ts), as         *)
(* PostgresAccountRepository stores it (packages/db/src/index.ts), for the *)
(* one e-mail address whose requests can meet.  A request is one call; the *)
(* transactions run at READ COMMITTED, so a step ends where a statement    *)
(* can wait for a row that another transaction has locked, what it wrote   *)
(* is seen when it commits, and a lock is held until then.  The time of a  *)
(* call is read once, before its transactions begin.                       *)
(***************************************************************************)
EXTENDS Integers, FiniteSets, TLC

CONSTANTS
  Requests,          \* the requests in flight
  Links, Sessions,   \* numbers of the login tokens and of the sessions
  LinkLife,          \* LOGIN_LIFETIME_MS, in ticks of the clock
  IdleLife,          \* SESSION_IDLE_MS
  AbsoluteLife,      \* SESSION_ABSOLUTE_MS
  RecentAuth,        \* RECENT_AUTH_MS
  Window,            \* windowMs of the limiter
  DestinationLimit,  \* destinationLimit
  Day,               \* interval '24 hours'
  DailyLimit,        \* magicLinkDailyLimit
  TotalLimit,        \* magicLinkTotalLimit
  MaxTime            \* bound on the clock

None == 0
Free == "free"

ASSUME AccountsAssumption ==
    /\ Links \subseteq Nat \ {None} /\ 1 \in Links /\ Sessions \subseteq Nat \ {None}
    /\ Free \notin Requests
    /\ LinkLife \in Nat /\ IdleLife \in Nat /\ AbsoluteLife \in Nat /\ IdleLife <= AbsoluteLife
    /\ TotalLimit \in Nat /\ MaxTime \in Nat

VARIABLES
  clock,     \* AccountClock
  user,      \* app_user.status of the address
  links,     \* auth_login_token
  sessions,  \* auth_session
  reserved,  \* auth_email_delivery_reservation: <<request, reserved_at>>
  allowed,   \* the entries of the limiter: <<request, time>>
  inbox,     \* the links that were mailed
  lock,      \* the row locks: of the user and of each login token
  call       \* what each request is doing in the service

accountVars == <<clock, user, links, sessions, reserved, allowed, inbox, lock, call>>

Idle == [step |-> "idle", at |-> 0, link |-> None, session |-> None, result |-> "none"]
Now(p, step, at, link, session, result) ==
    [call EXCEPT ![p] = [step |-> step, at |-> at, link |-> link, session |-> session,
                         result |-> result]]
Calling(p, step, link, session) == Now(p, step, clock, link, session, "none")
Going(p, step, result) == Now(p, step, call[p].at, call[p].link, call[p].session, result)
To(p, step) == call' = Going(p, step, call[p].result)
Returned(p, result) == Going(p, "returned", result)

Live == {l \in Links : links[l].state = "live"}
Blocked(p, rows) == \E r \in rows : lock[r] \notin {Free, p}
Taken(p, rows) == [r \in DOMAIN lock |-> IF r \in rows THEN p ELSE lock[r]]
Released(p) == [r \in DOMAIN lock |-> IF lock[r] = p THEN Free ELSE lock[r]]

(* The address has an account, a link in its inbox, and a session that was *)
(* opened a tick ago.                                                      *)
Init ==
    /\ clock = 0
    /\ user = "active"
    /\ links = [l \in Links |-> IF l = 1 THEN [state |-> "live", issued |-> 0, expires |-> LinkLife]
                                ELSE [state |-> "unused", issued |-> 0, expires |-> 0]]
    /\ sessions = [s \in Sessions |->
          IF s = 1 THEN [state |-> "open", link |-> None, opened |-> -1, idle |-> IdleLife - 1,
                         absolute |-> AbsoluteLife - 1]
          ELSE [state |-> "unused", link |-> None, opened |-> 0, idle |-> 0, absolute |-> 0]]
    /\ reserved = {} /\ allowed = {} /\ inbox = {1}
    /\ lock = [r \in {0} \cup Links |-> Free]
    /\ call = [p \in Requests |-> Idle]

Tick == clock < MaxTime /\ clock' = clock + 1
        /\ UNCHANGED <<user, links, sessions, reserved, allowed, inbox, lock, call>>

----------------------------------------------------------------------------
(* requestMagicLink.  The limiter is asked at once, in memory. *)
Active(at) == {e \in allowed : e[2] + Window > at}
BeginMagicLink(p) ==
    LET active == Active(clock)
        allows == Cardinality(active) < DestinationLimit
    IN /\ call' = IF allows THEN Calling(p, "reserve", None, None)
                  ELSE Now(p, "returned", 0, None, None, "accepted")
       /\ allowed' = IF allows THEN active \cup {<<p, clock>>} ELSE allowed
       /\ UNCHANGED <<clock, user, links, sessions, reserved, inbox, lock>>

(* reserveMagicLinkDelivery, under one advisory lock. *)
Daily(at) == {r \in reserved : r[2] + Day > at /\ r[2] <= at}
MayReserveDaily(at) == Cardinality(Daily(at)) < DailyLimit
MayReserve(at) == Cardinality(Daily(at)) < DailyLimit /\ Cardinality(reserved) < TotalLimit
Reserve(p) ==
    /\ call[p].step = "reserve"
    /\ IF MayReserve(call[p].at)
       THEN reserved' = reserved \cup {<<p, call[p].at>>} /\ To(p, "address")
       ELSE call' = Returned(p, "accepted") /\ UNCHANGED reserved
    /\ UNCHANGED <<clock, user, links, sessions, allowed, inbox, lock>>

(* issueLoginToken: SELECT ... FROM app_user ... FOR UPDATE. *)
LockAddress(p) ==
    /\ call[p].step = "address" /\ ~Blocked(p, {0})
    /\ lock' = Taken(p, {0}) /\ To(p, "issue")
    /\ UNCHANGED <<clock, user, links, sessions, reserved, allowed, inbox>>

(* The earlier links are invalidated and the new one is inserted; a link  *)
(* that is dated after this request cannot be invalidated before it was   *)
(* issued, and the transaction fails.                                     *)
SupersededNone == {}
Superseded == Live
IssueLink(p) ==
    /\ call[p].step = "issue" /\ ~Blocked(p, Superseded)
    /\ lock' = Released(p)
    /\ IF \E l \in Superseded : links[l].issued > call[p].at
       THEN call' = Returned(p, "unavailable") /\ UNCHANGED links
       ELSE \E new \in {l \in Links : links[l].state = "unused" /\ \A k \in Links : k < l => links[k].state # "unused"} :
              /\ links' = [l \in Links |->
                    IF l = new THEN [state |-> "live", issued |-> call[p].at, expires |-> call[p].at + LinkLife]
                    ELSE IF l \in Superseded THEN [links[l] EXCEPT !.state = "invalidated"] ELSE links[l]]
              /\ call' = Now(p, "send", call[p].at, new, call[p].session, call[p].result)
    /\ UNCHANGED <<clock, user, sessions, reserved, allowed, inbox>>

(* sendMagicLink, after the link is stored. *)
SendLink(p) ==
    /\ call[p].step = "send"
    /\ inbox' = inbox \cup {call[p].link} /\ call' = Returned(p, "accepted")
    /\ UNCHANGED <<clock, user, links, sessions, reserved, allowed, lock>>

----------------------------------------------------------------------------
(* redeemLoginToken: the link is read FOR UPDATE, and with it the other   *)
(* live links of the account are taken ...                                *)
BeginRedeem(p, l) == call' = Calling(p, "redeem", l, None)
                     /\ UNCHANGED <<clock, user, links, sessions, reserved, allowed, inbox, lock>>
RedeemableAnyState(l, at) == links[l].state # "unused" /\ links[l].expires > at
Redeemable(l, at) == links[l].state = "live" /\ links[l].expires > at
LockLink(p) ==
    LET l == call[p].link
    IN /\ call[p].step = "redeem" /\ ~Blocked(p, {l})
       /\ IF Redeemable(l, call[p].at)
          THEN ~Blocked(p, Live) /\ lock' = Taken(p, {l} \cup Live) /\ To(p, "enter")
          ELSE call' = Returned(p, "refused") /\ UNCHANGED lock
       /\ UNCHANGED <<clock, user, links, sessions, reserved, allowed, inbox>>

(* ... then the user FOR UPDATE: the link is consumed, whoever it is of,  *)
(* and a session is opened for an active user.                            *)
OpensForAny == TRUE
Opens == user = "active"
OpenSession(p) ==
    LET l == call[p].link
        at == call[p].at
    IN /\ call[p].step = "enter" /\ ~Blocked(p, {0})
       /\ lock' = Released(p)
       /\ links' = [k \in Links |-> IF k = l THEN [links[k] EXCEPT !.state = "consumed"]
                                    ELSE IF k \in Live THEN [links[k] EXCEPT !.state = "invalidated"]
                                    ELSE links[k]]
       /\ IF ~Opens THEN call' = Returned(p, "refused") /\ UNCHANGED sessions
          ELSE \E s \in {s \in Sessions : sessions[s].state = "unused" /\ \A k \in Sessions : k < s => sessions[k].state # "unused"} :
                 /\ sessions' = [sessions EXCEPT ![s] = [state |-> "open", link |-> l, opened |-> at,
                                     idle |-> at + IdleLife, absolute |-> at + AbsoluteLife]]
                 /\ call' = Now(p, "returned", at, l, s, "opened")
       /\ UNCHANGED <<clock, user, reserved, allowed, inbox>>

----------------------------------------------------------------------------
(* authenticateSession: an expired session, or one of a user that is not  *)
(* active, is revoked; another has its idle expiry moved.                 *)
BeginAuthenticate(p, s) == call' = Calling(p, "authenticate", None, s)
                           /\ UNCHANGED <<clock, user, links, sessions, reserved, allowed, inbox, lock>>
KnownRevoked(s) == s # None /\ sessions[s].state # "unused"
Known(s) == s # None /\ sessions[s].state = "open"
Lapsed(s, at) == user # "active" \/ sessions[s].idle <= at \/ sessions[s].absolute <= at
Sooner(a, b) == IF a < b THEN a ELSE b
Revoked(s) == [sessions[s] EXCEPT !.state = "revoked"]
SlidToIdle(s, at) == at + IdleLife
SlidTo(s, at) == Sooner(sessions[s].absolute, at + IdleLife)
Authenticate(p) ==
    LET s == call[p].session
        at == call[p].at
    IN /\ call[p].step = "authenticate"
       /\ IF ~Known(s) THEN call' = Returned(p, "refused") /\ UNCHANGED sessions
          ELSE IF Lapsed(s, at)
          THEN sessions' = [sessions EXCEPT ![s] = Revoked(s)] /\ call' = Returned(p, "refused")
          ELSE /\ sessions' = [sessions EXCEPT ![s] = [@ EXCEPT !.idle = SlidTo(s, at)]]
               /\ call' = Returned(p, "account")
       /\ UNCHANGED <<clock, user, links, reserved, allowed, inbox, lock>>

(* logout: revokeSession. *)
BeginLogout(p) == call' = Calling(p, "logout", call[p].link, call[p].session)
                  /\ UNCHANGED <<clock, user, links, sessions, reserved, allowed, inbox, lock>>
Logout(p) ==
    /\ call[p].step = "logout"
    /\ sessions' = [sessions EXCEPT ![call[p].session] = Revoked(call[p].session)]
    /\ call' = Returned(p, "done")
    /\ UNCHANGED <<clock, user, links, reserved, allowed, inbox, lock>>

----------------------------------------------------------------------------
(* beginDeletion: only soon after signing in. *)
Recent(s) == clock <= sessions[s].opened + RecentAuth
BeginDeletion(p) ==
    /\ call' = IF Recent(call[p].session)
               THEN Calling(p, "delete", call[p].link, call[p].session)
               ELSE Returned(p, "recent_required")
    /\ UNCHANGED <<clock, user, links, sessions, reserved, allowed, inbox, lock>>

(* UPDATE app_user ... WHERE status = 'active', which waits for the row. *)
LockUser(p) ==
    /\ call[p].step = "delete" /\ (user = "active" => ~Blocked(p, {0}))
    /\ lock' = IF user = "active" THEN Taken(p, {0}) ELSE lock
    /\ To(p, "revoke")
    /\ UNCHANGED <<clock, user, links, sessions, reserved, allowed, inbox>>

(* Every session is revoked; one that was opened after this request began *)
(* cannot be revoked before it was created, and the transaction fails.    *)
RevokeAll(p) ==
    /\ call[p].step = "revoke"
    /\ lock' = Released(p)
    /\ IF \E s \in Sessions : sessions[s].state = "open" /\ sessions[s].opened > call[p].at
       THEN call' = Returned(p, "unavailable") /\ UNCHANGED <<user, sessions>>
       ELSE /\ sessions' = [s \in Sessions |-> IF sessions[s].state = "open"
                                               THEN Revoked(s) ELSE sessions[s]]
            /\ user' = "deletion_pending" /\ call' = Returned(p, "done")
    /\ UNCHANGED <<clock, links, reserved, allowed, inbox>>

----------------------------------------------------------------------------
(* A statement, a commit or the mail fails: the transaction is rolled back. *)
Working == {"reserve", "address", "issue", "send", "redeem", "enter", "authenticate", "logout", "delete", "revoke"}
RolledBackHolding(p) == lock
RolledBack(p) == Released(p)
Aborted(p) == lock' = RolledBack(p) /\ call' = Returned(p, "unavailable")
              /\ UNCHANGED <<clock, user, links, sessions, reserved, allowed, inbox>>
Fail(p) == call[p].step \in Working /\ Aborted(p)

(* Two transactions that wait for each other: the database ends one. *)
Awaited(p) == CASE call[p].step \in {"address", "enter", "delete"} -> {0}
                [] call[p].step = "issue" -> Superseded
                [] call[p].step = "redeem" -> {call[p].link}
                [] OTHER -> {}
WaitsFor(p, q) == p # q /\ \E r \in Awaited(p) : lock[r] = q
DeadlockVictim(p) == (\E q \in Requests : WaitsFor(p, q) /\ WaitsFor(q, p)) /\ Aborted(p)

Serve(p) ==
    \/ Reserve(p) \/ LockAddress(p) \/ IssueLink(p) \/ SendLink(p)
    \/ LockLink(p) \/ OpenSession(p)
    \/ Authenticate(p) \/ Logout(p)
    \/ LockUser(p) \/ RevokeAll(p)
    \/ DeadlockVictim(p)

----------------------------------------------------------------------------
AccountTypeOK ==
    /\ clock \in 0..MaxTime /\ user \in {"active", "deletion_pending"}
    /\ inbox \subseteq Links
    /\ \A r \in DOMAIN lock : lock[r] # Free => lock[r] \in Requests /\ call[lock[r]].step \in Working
    /\ \A p \in Requests : call[p].step \in Working \cup {"idle", "returned"} /\ call[p].session \in {0} \cup Sessions

(* "It works once": no two sessions come from one link, however the       *)
(* requests that redeem it overlap (redeemLoginToken).                    *)
SpentOnce == \A s, t \in Sessions :
    sessions[s].state # "unused" /\ sessions[t].state # "unused" /\ sessions[s].link = sessions[t].link => s = t

(* A new link ends the earlier ones: one link of an address is live, even *)
(* when requests for it overlap (issueLoginToken).                        *)
OneLiveLink == Cardinality(Live) <= 1

(* An account that is being deleted has no open session, though a link    *)
(* may be redeemed while the deletion begins (beginDeletion).             *)
DeletionSignsOut == user = "deletion_pending" => \A s \in Sessions : sessions[s].state # "open"

(* The e-mail quota is spent by reservations and never exceeded           *)
(* (reserveMagicLinkDelivery).                                            *)
WithinTotal == Cardinality(reserved) <= TotalLimit

(* The idle expiry of a session never passes the absolute one             *)
(* (authenticateSession slides the idle one alone).                       *)
IdleBounded == \A s \in Sessions : sessions[s].idle <= sessions[s].absolute

(* However sign-ins, deletions and requests for links overlap in the      *)
(* database: a link opens one session, one link is live, the quota holds, *)
(* and nobody is signed in to an account that is being deleted.           *)
SignInSound ==
    /\ AccountTypeOK /\ SpentOnce /\ OneLiveLink /\ DeletionSignsOut
    /\ WithinTotal /\ IdleBounded
=============================================================================

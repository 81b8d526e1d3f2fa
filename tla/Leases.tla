------------------------------- MODULE Leases -------------------------------
(***************************************************************************)
(* Browser sessions and temporary services of the Controller: the handlers *)
(* of internal/controller/server.go that run several SQL statements, the   *)
(* session service they call (internal/session/service.go) and the rows    *)
(* the statements work on (internal/storage/sqlite_store.go).              *)
(*                                                                         *)
(* SQLite makes one statement atomic and nothing more, so a statement is a *)
(* step.  A handler reads the clock once and carries the value through its *)
(* statements.  Any statement can fail, or the browser can hang up and     *)
(* cancel the request's context: the handler then stops where it is.       *)
(***************************************************************************)
EXTENDS Integers, FiniteSets

CONSTANTS
  Users,       \* digests of authenticated browser sessions
  Services,    \* service ids that can be drawn
  Sessions,    \* browser session ids (and capability tokens) that can be drawn
  Calls,       \* concurrent requests
  IdleTTL,     \* session.IdleTTL, and the 30 minutes of a temporary service
  AbsoluteTTL, \* session.AbsoluteTTL, and the 2 hours of a temporary service
  MaxTime,     \* bound: the clock stops there
  NoUser,      \* NULL in owner_digest
  NoSession

ASSUME LeasesAssumption ==
  /\ NoUser \notin Users
  /\ NoSession \notin Sessions
  /\ IdleTTL \in Nat \ {0} /\ AbsoluteTTL \in Nat /\ IdleTTL < AbsoluteTTL
  /\ MaxTime \in Nat

VARIABLES
  now,       \* the clock, in the whole seconds that the tables store
  services,  \* rows of table services
  sessions,  \* rows of table browser_sessions
  calls      \* the requests being handled

vars == <<now, services, sessions, calls>>

\* born is history: how the row was inserted.
ServiceRow == [born: {"persistent", "temporary"}, enabled: BOOLEAN,
               owner: Users \cup {NoUser}, expires: Nat, absolute: Nat]

SessionRow == [user: Users, service: Services, created: Nat, seen: Nat,
               expires: Nat, absolute: Nat, revoked: BOOLEAN]

Idle == [at |-> "idle"]

Kinds == {"connect", "restart", "page", "create", "logout"}

Steps == {"lookup", "expire", "find", "select", "renew", "mint", "insert", "touch",
          "signal", "revoke", "createTemporary", "revokeAll", "revokeTemporary",
          "granted"}

\* session is the row a call works on; until, the absolute limit it has read;
\* found, that the slug was resolved.  before is history: the service rows
\* there were when the request came in.
Call == [kind: Kinds, at: Steps, user: Users, service: Services,
         session: Sessions \cup {NoSession}, stamp: Nat, until: Nat, found: BOOLEAN,
         before: SUBSET Services]

TypeOK ==
  /\ now \in 0..MaxTime
  /\ DOMAIN services \subseteq Services
  /\ services \in [DOMAIN services -> ServiceRow]
  /\ DOMAIN sessions \subseteq Sessions
  /\ sessions \in [DOMAIN sessions -> SessionRow]
  /\ calls \in [Calls -> {Idle} \cup Call]
  /\ \A c \in Calls : calls[c].at \in {"touch", "signal", "revoke"}
                        \/ (calls[c].at = "select" /\ calls[c].kind = "restart") =>
       calls[c].session \in DOMAIN sessions

Init ==
  /\ now = 0
  /\ services = [s \in {} |-> NoUser]
  /\ sessions = [s \in {} |-> NoUser]
  /\ calls = [c \in Calls |-> Idle]
-----------------------------------------------------------------------------
Least(a, b) == IF a <= b THEN a ELSE b

\* f with x mapped to v.
With(f, x, v) == [y \in DOMAIN f \cup {x} |-> IF y = x THEN v ELSE f[y]]

\* A bug: a withdrawn temporary service loses its owner but stays enabled.
WithdrawnEnabled(row) == [row EXCEPT !.owner = NoUser, !.expires = 0, !.absolute = 0]

\* What revocation and expiry write into a row of a temporary service.
Withdrawn(row) ==
  [row EXCEPT !.enabled = FALSE, !.owner = NoUser, !.expires = 0, !.absolute = 0]

\* The services table after the rows of the set ids are withdrawn.
WithdrawAll(ids) ==
  [s \in DOMAIN services |-> IF s \in ids THEN Withdrawn(services[s]) ELSE services[s]]

\* May user u use service row r at time t?  (the WHERE of AuthorizedService)
Authorized(r, u, t) ==
  /\ r.enabled
  /\ \/ r.owner = NoUser
     \/ r.owner = u /\ r.expires > t /\ r.absolute > t

\* Is session row r of user u alive at time t?  (the WHERE of BrowserSession)
Alive(r, u, t) ==
  /\ r.user = u /\ ~r.revoked
  /\ services[r.service].enabled
  /\ r.expires > t /\ r.absolute > t

\* A bug: a late touch brings back a session that was revoked meanwhile.
TouchableRevoked(r, u, t, next) == r.user = u /\ r.expires > t /\ r.absolute >= next

\* The WHERE of TouchBrowserSession.
Touchable(r, u, t, next) ==
  r.user = u /\ ~r.revoked /\ r.expires > t /\ r.absolute >= next

\* A bug: the later of the two limits is taken.
NextExpiryLatest(t, until) == IF t + IdleTTL >= until THEN t + IdleTTL ELSE until

\* The renewed expiry of a lease that ends at until at the latest.
NextExpiry(t, until) == Least(t + IdleTTL, until)
-----------------------------------------------------------------------------
\* The requests being handled.
Active == {c \in Calls : calls[c] # Idle}

Go(c, step) == calls' = [calls EXCEPT ![c].at = step]

End(c) == calls' = [calls EXCEPT ![c] = Idle]

Begin(c, kind, step, u, v, s) ==
  /\ calls[c] = Idle
  /\ calls' = [calls EXCEPT ![c] =
       [kind |-> kind, at |-> step, user |-> u, service |-> v, session |-> s,
        stamp |-> now, until |-> 0, found |-> FALSE, before |-> DOMAIN services]]
  /\ UNCHANGED <<now, services, sessions>>

\* createConnection without restart_of: Sessions.Create.
Connect(c, u, v) == Begin(c, "connect", "expire", u, v, NoSession)

\* createConnection with restart_of: Sessions.Lookup of session s.
Restart(c, u, v, s) == Begin(c, "restart", "lookup", u, v, s)

\* currentTemporaryService: the page on the random subdomain of service v.
Page(c, u, v) == Begin(c, "page", "expire", u, v, NoSession)

\* No row has id v, and no request has drawn it.
Fresh(v) ==
  /\ v \notin DOMAIN services
  /\ \A d \in Active : calls[d].kind # "create" \/ calls[d].service # v

\* createTemporaryService draws an id.
CreateTemporary(c, u, v) == Fresh(v) /\ Begin(c, "create", "expire", u, v, NoSession)

Logout(c, u, v) == Begin(c, "logout", "revokeAll", u, v, NoSession)

\* createService: one statement.
CreateService(v) ==
  /\ Fresh(v)
  /\ services' = With(services, v, [born |-> "persistent", enabled |-> TRUE,
                                    owner |-> NoUser, expires |-> 0, absolute |-> 0])
  /\ UNCHANGED <<now, sessions, calls>>

\* BrowserSession finds the row.
Known(q) == q.session \in DOMAIN sessions /\ Alive(sessions[q.session], q.user, q.stamp)

\* BrowserSession and the digest comparison.  tokenOk: the caller sent the
\* token of this session.
Lookup(c, tokenOk) ==
  /\ calls[c].at = "lookup"
  /\ IF Known(calls[c]) /\ tokenOk THEN Go(c, "expire") ELSE End(c)
  /\ UNCHANGED <<now, services, sessions>>

\* The service a call asks the store about: a restart uses the row's.
Target(q) == IF q.kind = "restart" THEN sessions[q.session].service ELSE q.service

\* expireTemporaryServices.
Expire(c) ==
  LET q == calls[c]
      due == {s \in DOMAIN services : LET r == services[s] IN
                r.owner # NoUser /\ r.enabled /\ (r.expires <= q.stamp \/ r.absolute <= q.stamp)}
  IN
  /\ q.at = "expire"
  /\ services' = WithdrawAll(due)
  /\ Go(c, CASE q.kind = "create" -> "createTemporary"
             [] q.kind = "page" /\ ~q.found -> "find"
             [] OTHER -> "select")
  /\ UNCHANGED <<now, sessions>>

\* The lookup by slug of TemporaryServiceBySlug, which then calls
\* AuthorizedService and so expires and selects again.
Find(c) ==
  LET q == calls[c] IN
  /\ q.at = "find"
  /\ IF /\ q.service \in DOMAIN services
        /\ services[q.service].owner = q.user
        /\ Authorized(services[q.service], q.user, q.stamp)
     THEN calls' = [calls EXCEPT ![c].at = "expire", ![c].found = TRUE]
     ELSE End(c)
  /\ UNCHANGED <<now, services, sessions>>

\* What follows AuthorizedService in the handler.
Authorised(kind) ==
  CASE kind = "connect" -> "mint" [] kind = "restart" -> "touch" [] OTHER -> "granted"

\* The SELECT of AuthorizedService.  A restart also needs the service to be
\* of the kind it was; a row never changes its Agent.
Select(c) ==
  LET q == calls[c]
      v == Target(q)
  IN
  /\ q.at = "select"
  /\ IF v \in DOMAIN services /\ Authorized(services[v], q.user, q.stamp)
     THEN calls' = [calls EXCEPT
            ![c].at = IF services[v].owner # NoUser THEN "renew" ELSE Authorised(q.kind),
            ![c].until = services[v].absolute]
     ELSE End(c)
  /\ UNCHANGED <<now, services, sessions>>

\* The UPDATE of AuthorizedService, which checks the row again.
Renew(c) ==
  LET q == calls[c]
      v == Target(q)
      next == NextExpiry(q.stamp, q.until)
  IN
  /\ q.at = "renew"
  /\ \/ /\ services[v].owner = q.user /\ services[v].enabled
        /\ services[v].expires > q.stamp /\ services[v].absolute >= next
        /\ services' = [services EXCEPT ![v].expires = next]
        /\ Go(c, Authorised(q.kind))
     \/ /\ ~(/\ services[v].owner = q.user /\ services[v].enabled
             /\ services[v].expires > q.stamp /\ services[v].absolute >= next)
        /\ UNCHANGED services
        /\ End(c)
  /\ UNCHANGED <<now, sessions>>

\* Create draws an id and a token and reads the clock a second time.
Mint(c, s) ==
  /\ calls[c].at = "mint"
  /\ s \notin DOMAIN sessions \cup {calls[d].session : d \in Active}
  /\ calls' = [calls EXCEPT ![c].at = "insert", ![c].session = s, ![c].stamp = now]
  /\ UNCHANGED <<now, services, sessions>>

\* CreateBrowserSession.
Insert(c) ==
  LET q == calls[c] IN
  /\ q.at = "insert"
  /\ sessions' = With(sessions, q.session,
       [user |-> q.user, service |-> q.service, created |-> q.stamp, seen |-> q.stamp,
        expires |-> q.stamp + IdleTTL, absolute |-> q.stamp + AbsoluteTTL, revoked |-> FALSE])
  /\ Go(c, "signal")
  /\ UNCHANGED <<now, services>>

\* TouchBrowserSession, and the handler's comparison of the service asked
\* for with the session's, which comes after the lease was extended.
Touch(c) ==
  LET q == calls[c]
      row == sessions[q.session]
      next == NextExpiry(q.stamp, row.absolute)
  IN
  /\ q.at = "touch"
  /\ \/ /\ Touchable(row, q.user, q.stamp, next)
        /\ sessions' = [sessions EXCEPT ![q.session].seen = q.stamp,
                                        ![q.session].expires = next]
        /\ IF row.service = q.service THEN Go(c, "signal") ELSE End(c)
     \/ /\ ~Touchable(row, q.user, q.stamp, next)
        /\ UNCHANGED sessions
        /\ End(c)
  /\ UNCHANGED <<now, services>>

\* Signals.Create (module Broker) accepts the offer or refuses it; a session
\* created for a refused offer is revoked.
Signal(c, accepted) ==
  /\ calls[c].at = "signal"
  /\ CASE accepted -> Go(c, "granted")
       [] ~accepted /\ calls[c].kind = "connect" -> Go(c, "revoke")
       [] OTHER -> End(c)
  /\ UNCHANGED <<now, services, sessions>>

\* RevokeBrowserSession.
Revoke(c) ==
  LET q == calls[c] IN
  /\ q.at = "revoke"
  /\ sessions' = [sessions EXCEPT ![q.session].revoked = TRUE]
  /\ End(c)
  /\ UNCHANGED <<now, services>>

\* The INSERT of CreateTemporaryService.
InsertTemporary(c) ==
  LET q == calls[c] IN
  /\ q.at = "createTemporary"
  /\ services' = With(services, q.service,
       [born |-> "temporary", enabled |-> TRUE, owner |-> q.user,
        expires |-> q.stamp + IdleTTL, absolute |-> q.stamp + AbsoluteTTL])
  /\ Go(c, "granted")
  /\ UNCHANGED <<now, sessions>>

\* A bug: logout answers after its first statement.
RevokeAllOnly(c) ==
  LET q == calls[c] IN
  /\ q.at = "revokeAll"
  /\ sessions' = [s \in DOMAIN sessions |->
       IF sessions[s].user = q.user THEN [sessions[s] EXCEPT !.revoked = TRUE]
       ELSE sessions[s]]
  /\ Go(c, "granted")
  /\ UNCHANGED <<now, services>>

\* The first statement of logout: RevokeBrowserSessions.
RevokeAll(c) ==
  LET q == calls[c] IN
  /\ q.at = "revokeAll"
  /\ sessions' = [s \in DOMAIN sessions |->
       IF sessions[s].user = q.user THEN [sessions[s] EXCEPT !.revoked = TRUE]
       ELSE sessions[s]]
  /\ Go(c, "revokeTemporary")
  /\ UNCHANGED <<now, services>>

\* The second: RevokeTemporaryServices.
RevokeTemporary(c) ==
  LET q == calls[c]
      owned == {s \in DOMAIN services : services[s].owner = q.user /\ services[s].enabled}
  IN
  /\ q.at = "revokeTemporary"
  /\ services' = WithdrawAll(owned)
  /\ Go(c, "granted")
  /\ UNCHANGED <<now, sessions>>

\* The handler answers; or a statement fails, or the browser hung up.
Return(c) == c \in Active /\ End(c) /\ UNCHANGED <<now, services, sessions>>

Tick == now < MaxTime /\ now' = now + 1 /\ UNCHANGED <<services, sessions, calls>>

Request(c) ==
  \E u \in Users, v \in Services :
    \/ Connect(c, u, v) \/ Page(c, u, v) \/ CreateTemporary(c, u, v) \/ Logout(c, u, v)
    \/ \E s \in Sessions : Restart(c, u, v, s)

Next ==
  \/ \E v \in Services : CreateService(v)
  \/ \E c \in Calls :
       \/ Request(c) \/ Expire(c) \/ Find(c) \/ Select(c) \/ Renew(c)
       \/ \E s \in Sessions : Mint(c, s)
       \/ \E ok \in BOOLEAN : Lookup(c, ok) \/ Signal(c, ok)
       \/ Insert(c) \/ Touch(c) \/ Revoke(c) \/ InsertTemporary(c)
       \/ RevokeAll(c) \/ RevokeTemporary(c) \/ Return(c)
  \/ Tick

Spec == Init /\ [][Next]_vars
-----------------------------------------------------------------------------
\* However lookups with different clock readings interleave, a lease that the
\* store still honours is within the absolute limit set when it was created,
\* and was renewed at most IdleTTL before it ends.
LeaseBounded ==
  /\ TypeOK
  /\ \A s \in DOMAIN sessions : LET r == sessions[s] IN
       /\ r.absolute = r.created + AbsoluteTTL
       /\ r.expires <= r.absolute
       /\ r.expires <= r.seen + IdleTTL
  /\ \A v \in DOMAIN services : services[v].expires <= services[v].absolute

\* A temporary service never becomes a row that every user may use: owner NULL
\* means public only for a row that createService inserted.
TemporaryNeverPublic ==
  \A v \in DOMAIN services :
    services[v].enabled /\ services[v].owner = NoUser => services[v].born = "persistent"

\* When logout has answered, no session of that user on a temporary service
\* that existed when logout came in is alive, not even one that a concurrent
\* createConnection inserted after logout had revoked the sessions.
LogoutEndsTemporary ==
  \A c \in Active :
    calls[c].kind = "logout" /\ calls[c].at = "granted" =>
      \A s \in DOMAIN sessions : LET r == sessions[s] IN
        r.user = calls[c].user /\ r.service \in calls[c].before
          /\ services[r.service].born = "temporary" => ~Alive(r, r.user, calls[c].stamp)

\* What revocation took away stays away: a revoked session is never renewed and
\* a withdrawn service is never enabled, whatever requests were in flight.
RevocationFinal ==
  [][/\ \A s \in DOMAIN sessions : sessions[s].revoked => sessions'[s] = sessions[s]
     /\ \A v \in DOMAIN services : ~services[v].enabled => services'[v] = services[v]]_vars
=============================================================================

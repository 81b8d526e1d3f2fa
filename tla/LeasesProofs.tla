---------------------------- MODULE LeasesProofs ----------------------------
(***************************************************************************)
(* Proofs about sessions and temporary services, for any number of users,  *)
(* rows and concurrent requests and any lifetimes.                         *)
(***************************************************************************)
EXTENDS Leases, TLAPS

\* The changes the steps make to a call keep its type.
LEMMA CallGoes ==
  ASSUME NEW q \in Call, NEW step \in Steps
  PROVE  /\ [q EXCEPT !.at = step] \in Call
         /\ \A n \in Nat : [q EXCEPT !.at = step, !.until = n] \in Call
         /\ \A s \in Sessions, n \in Nat :
              [q EXCEPT !.at = step, !.session = s, !.stamp = n] \in Call
         /\ [q EXCEPT !.at = step, !.found = TRUE] \in Call
BY Zenon DEF Call

\* The rows that statements write have the type of a row.
LEMMA RowsTyped ==
  /\ \A r \in ServiceRow : Withdrawn(r) \in ServiceRow
  /\ \A r \in ServiceRow, n \in Nat : [r EXCEPT !.expires = n] \in ServiceRow
  /\ \A r \in SessionRow : [r EXCEPT !.revoked = TRUE] \in SessionRow
  /\ \A r \in SessionRow, m, n \in Nat : [r EXCEPT !.seen = m, !.expires = n] \in SessionRow
BY Zenon DEF ServiceRow, SessionRow, Withdrawn
-----------------------------------------------------------------------------
\* The types of the rows and of the calls.
Typed ==
  /\ now \in 0..MaxTime
  /\ DOMAIN services \subseteq Services
  /\ services \in [DOMAIN services -> ServiceRow]
  /\ DOMAIN sessions \subseteq Sessions
  /\ sessions \in [DOMAIN sessions -> SessionRow]
  /\ calls \in [Calls -> {Idle} \cup Call]

\* v is a row that is not another user's temporary service.
Entitled(u, v) ==
  /\ v \in DOMAIN services
  /\ services[v].born = "temporary" /\ services[v].enabled => services[v].owner = u

\* A createTemporaryService that has drawn its id and not inserted the row.
Drawing(q) == q.kind = "create" /\ q.at \in {"expire", "createTemporary"}

\* The leases are bounded, a row open to everyone was created by the
\* administrator, and sessions are on services their users were entitled to.
RowsOK ==
  /\ \A s \in DOMAIN sessions : LET r == sessions[s] IN
       /\ r.absolute = r.created + AbsoluteTTL
       /\ r.expires <= r.absolute
       /\ r.expires <= r.seen + IdleTTL
  /\ \A v \in DOMAIN services : services[v].expires <= services[v].absolute
  /\ TemporaryNeverPublic
  /\ \A s \in DOMAIN sessions : Entitled(sessions[s].user, sessions[s].service)

\* What a handler knows at each of its statements.
CallOK(q) ==
  /\ q.kind = "restart" /\ q.at # "lookup" => q.session \in DOMAIN sessions
  /\ q.at \in {"signal", "revoke"} => q.session \in DOMAIN sessions
  /\ q.at \in {"lookup", "touch"} => q.kind = "restart"
  /\ q.at = "createTemporary" => q.kind = "create"
  /\ q.at = "renew" => Target(q) \in DOMAIN services /\ q.kind \in {"connect", "restart", "page"}
  /\ q.at = "select" => q.kind \in {"connect", "restart", "page"}
  /\ q.at = "find" => q.kind = "page"
  /\ q.at \in {"mint", "insert"} => q.kind = "connect" /\ Entitled(q.user, q.service)
  /\ q.at = "insert" => q.session \in Sessions \ DOMAIN sessions
  /\ Drawing(q) => q.service \notin DOMAIN services
  /\ q.kind = "logout" => q.at \in {"revokeAll", "revokeTemporary", "granted"}
  /\ q.at \in {"revokeAll", "revokeTemporary"} => q.kind = "logout"
  /\ q.before \subseteq DOMAIN services
  /\ q.kind = "logout" /\ q.at = "granted" =>
       \A v \in q.before :
         services[v].born = "temporary" /\ services[v].enabled => services[v].owner # q.user

\* No two calls are about to insert the same row.
Unique ==
  \A c, d \in Active : c # d =>
    /\ calls[c].at = "insert" /\ calls[d].at = "insert" => calls[c].session # calls[d].session
    /\ Drawing(calls[c]) /\ Drawing(calls[d]) => calls[c].service # calls[d].service

LeaseInv ==
  /\ Typed
  /\ RowsOK
  /\ \A c \in Active : CallOK(calls[c])
  /\ Unique

\* How a step may change the rows: none is deleted, none changes its origin
\* or its service, none is enabled or given to another user, and a withdrawn
\* or revoked one is left as it is.
Evolve ==
  /\ DOMAIN services \subseteq DOMAIN services'
  /\ \A v \in DOMAIN services :
       /\ services'[v].born = services[v].born
       /\ services'[v].enabled => services[v].enabled /\ services'[v].owner = services[v].owner
       /\ ~services[v].enabled => services'[v] = services[v]
  /\ DOMAIN sessions \subseteq DOMAIN sessions'
  /\ \A s \in DOMAIN sessions :
       /\ sessions'[s].service = sessions[s].service
       /\ sessions[s].revoked => sessions'[s] = sessions[s]

\* Rows evolve without a user losing or gaining a temporary service.
LEMMA EntitledFrame ==
  ASSUME Evolve, NEW u, NEW v, Entitled(u, v)
  PROVE  Entitled(u, v)'
BY DEF Evolve, Entitled

\* A call that stays where it is still knows what it knew.
LEMMA CallFrame ==
  ASSUME Evolve, NEW q \in Call, CallOK(q),
         q.at = "insert" => q.session \notin DOMAIN sessions',
         Drawing(q) => q.service \notin DOMAIN services'
  PROVE  CallOK(q)'
<1>1. q.at \in {"mint", "insert"} => Entitled(q.user, q.service)'
  BY EntitledFrame DEF CallOK
<1>2. q.at = "renew" => Target(q)' \in DOMAIN services'
  BY DEF CallOK, Target, Evolve
<1>3. q.kind = "logout" /\ q.at = "granted" =>
        \A v \in q.before : services'[v].born = "temporary" /\ services'[v].enabled =>
           services'[v].owner # q.user
  BY DEF CallOK, Evolve
<1>. QED
  BY <1>1, <1>2, <1>3 DEF CallOK, Evolve, Drawing

\* The calls after a step of the handler of c.
LEMMA CallsFrame ==
  ASSUME LeaseInv, Evolve, NEW c \in Calls, NEW p \in {Idle} \cup Call,
         calls' = [calls EXCEPT ![c] = p],
         \A s \in DOMAIN sessions' \ DOMAIN sessions :
           c \in Active /\ calls[c].at = "insert" /\ s = calls[c].session,
         \A v \in DOMAIN services' \ DOMAIN services :
           c \in Active /\ Drawing(calls[c]) /\ v = calls[c].service,
         p # Idle => CallOK(p)',
         p # Idle /\ p.at = "insert" => p.session \notin {calls[d].session : d \in Active},
         p # Idle /\ Drawing(p) =>
           \/ c \in Active /\ Drawing(calls[c]) /\ p.service = calls[c].service
           \/ \A d \in Active : calls[d].kind # "create" \/ calls[d].service # p.service
  PROVE  /\ calls' \in [Calls -> {Idle} \cup Call]
         /\ \A d \in Active' : CallOK(calls[d])'
         /\ Unique'
<1>1. /\ calls' \in [Calls -> {Idle} \cup Call]
      /\ calls'[c] = p
      /\ \A d \in Calls \ {c} : calls'[d] = calls[d] /\ (d \in Active' <=> d \in Active)
      /\ c \in Active' <=> p # Idle
  BY DEF LeaseInv, Typed, Active
<1>2. ASSUME NEW d \in Active' PROVE CallOK(calls[d])'
  <2>1. CASE d = c
    BY <1>1, <1>2, <2>1
  <2>2. CASE d # c
    <3>1. d \in Active /\ d \in Calls /\ calls'[d] = calls[d] /\ calls[d] \in Call
      BY <1>1, <1>2, <2>2 DEF Active, LeaseInv, Typed
    <3>2. calls[d].at = "insert" => calls[d].session \notin DOMAIN sessions'
      BY <3>1, <2>2 DEF LeaseInv, Unique, CallOK
    <3>3. Drawing(calls[d]) => calls[d].service \notin DOMAIN services'
      BY <3>1, <2>2 DEF LeaseInv, Unique, CallOK
    <3>4. PICK q \in Call : q = calls[d]
      BY <3>1
    <3>5. CallOK(q)
      BY <3>1, <3>4 DEF LeaseInv
    <3>6. CallOK(q)'
      BY <3>2, <3>3, <3>4, <3>5, CallFrame
    <3>7. q = calls'[d]
      BY <3>1, <3>4
    <3>. QED
      BY <3>6, <3>7 DEF CallOK, Entitled, Target, Drawing
  <2>. QED
    BY <2>1, <2>2
<1>3. Unique'
  <2>1. SUFFICES ASSUME NEW a \in Active', NEW b \in Active', a # b
                 PROVE  /\ calls'[a].at = "insert" /\ calls'[b].at = "insert" =>
                             calls'[a].session # calls'[b].session
                        /\ Drawing(calls'[a]) /\ Drawing(calls'[b]) =>
                             calls'[a].service # calls'[b].service
    BY DEF Unique, Drawing
  <2>2. a \in Calls /\ b \in Calls
    BY DEF Active
  <2>3. CASE a # c /\ b # c
    BY <1>1, <2>1, <2>2, <2>3 DEF LeaseInv, Unique
  <2>4. CASE a = c
    <3>1. b \in Active /\ calls'[b] = calls[b] /\ p # Idle
      BY <1>1, <2>1, <2>2, <2>4
    <3>. QED
      BY <1>1, <2>1, <2>4, <3>1 DEF LeaseInv, Unique, Drawing
  <2>5. CASE b = c
    <3>1. a \in Active /\ calls'[a] = calls[a] /\ p # Idle
      BY <1>1, <2>1, <2>2, <2>5
    <3>. QED
      BY <1>1, <2>1, <2>5, <3>1 DEF LeaseInv, Unique, Drawing
  <2>. QED
    BY <2>3, <2>4, <2>5
<1>. QED
  BY <1>1, <1>2, <1>3
-----------------------------------------------------------------------------
\* A step that changes no row and leaves call c as p.
LEMMA CallStep ==
  ASSUME LeaseInv, UNCHANGED <<now, services, sessions>>,
         NEW c \in Calls, NEW p \in {Idle} \cup Call,
         calls' = [calls EXCEPT ![c] = p],
         p # Idle => CallOK(p),
         p # Idle /\ p.at = "insert" => p.session \notin {calls[d].session : d \in Active},
         p # Idle /\ Drawing(p) =>
           \/ c \in Active /\ Drawing(calls[c]) /\ p.service = calls[c].service
           \/ \A d \in Active : calls[d].kind # "create" \/ calls[d].service # p.service
  PROVE  LeaseInv' /\ Evolve
<1>1. Evolve
  BY DEF Evolve
<1>2. p # Idle => CallOK(p)'
  BY DEF CallOK, Entitled, Target, Drawing
<1>3. /\ calls' \in [Calls -> {Idle} \cup Call]
      /\ \A d \in Active' : CallOK(calls[d])'
      /\ Unique'
  BY Zenon, <1>1, <1>2, CallsFrame
<1>4. Typed'
  BY <1>3 DEF LeaseInv, Typed
<1>5. RowsOK'
  BY DEF LeaseInv, RowsOK, TemporaryNeverPublic, Entitled
<1>. QED
  BY <1>1, <1>3, <1>4, <1>5 DEF LeaseInv

\* A request that ends, or whose context is cancelled.
LEMMA EndStep ==
  ASSUME LeaseInv, UNCHANGED <<now, services, sessions>>, NEW c \in Calls, End(c)
  PROVE  LeaseInv' /\ Evolve
BY Zenon, CallStep DEF End

\* The requests that arrive.
LEMMA BeginStep ==
  ASSUME LeaseInv, NEW c \in Calls, Request(c)
  PROVE  LeaseInv' /\ Evolve
<1>1. PICK u \in Users, v \in Services :
        \/ Connect(c, u, v) \/ Page(c, u, v) \/ CreateTemporary(c, u, v) \/ Logout(c, u, v)
        \/ \E s \in Sessions : Restart(c, u, v, s)
  BY DEF Request
<1>2. ASSUME NEW kind \in Kinds, NEW step \in Steps, NEW s \in Sessions \cup {NoSession},
             Begin(c, kind, step, u, v, s),
             \/ kind \in {"connect", "page"} /\ step = "expire"
             \/ kind = "create" /\ step = "expire" /\ Fresh(v)
             \/ kind = "logout" /\ step = "revokeAll"
             \/ kind = "restart" /\ step = "lookup"
      PROVE  LeaseInv' /\ Evolve
  <2>. DEFINE p == [kind |-> kind, at |-> step, user |-> u, service |-> v, session |-> s,
                    stamp |-> now, until |-> 0, found |-> FALSE, before |-> DOMAIN services]
  <2>1. p \in Call
    BY DEF Call, LeaseInv, Typed
  <2>2. CallOK(p)
    BY <1>2 DEF CallOK, Drawing, Fresh, Kinds
  <2>3. Drawing(p) => \A d \in Active : calls[d].kind # "create" \/ calls[d].service # p.service
    BY <1>2 DEF Drawing, Fresh
  <2>4. calls' = [calls EXCEPT ![c] = p] /\ UNCHANGED <<now, services, sessions>> /\ p.at # "insert"
    BY <1>2 DEF Begin
  <2>. HIDE DEF p
  <2>. QED
    BY Zenon, <2>1, <2>2, <2>3, <2>4, CallStep
<1>3. /\ {"connect", "page", "create", "logout", "restart"} \subseteq Kinds
      /\ {"expire", "revokeAll", "lookup"} \subseteq Steps
  BY DEF Kinds, Steps
<1>4. CASE Connect(c, u, v)
  BY <1>2, <1>3, <1>4 DEF Connect
<1>5. CASE Page(c, u, v)
  BY <1>2, <1>3, <1>5 DEF Page
<1>6. CASE CreateTemporary(c, u, v)
  BY <1>2, <1>3, <1>6 DEF CreateTemporary
<1>7. CASE Logout(c, u, v)
  BY <1>2, <1>3, <1>7 DEF Logout
<1>8. CASE \E s \in Sessions : Restart(c, u, v, s)
  BY <1>2, <1>3, <1>8 DEF Restart
<1>. QED
  BY <1>1, <1>4, <1>5, <1>6, <1>7, <1>8

\* What Go makes of a call.
LEMMA GoCall ==
  ASSUME LeaseInv, NEW c \in Calls, NEW step \in Steps, calls[c].at \in Steps, Go(c, step)
  PROVE  \E q, p \in Call :
           /\ q = calls[c] /\ c \in Active /\ CallOK(q)
           /\ calls' = [calls EXCEPT ![c] = p]
           /\ p = [q EXCEPT !.at = step]
           /\ p.at = step
           /\ p.kind = q.kind /\ p.user = q.user /\ p.service = q.service
           /\ p.session = q.session /\ p.stamp = q.stamp /\ p.before = q.before
<1>1. calls[c] \in Call /\ c \in Active
  BY DEF LeaseInv, Typed, Active, Idle, Steps
<1>2. PICK q \in Call : q = calls[c]
  BY <1>1
<1>. DEFINE p == [q EXCEPT !.at = step]
<1>3. p \in Call
  BY Zenon, CallGoes
<1>4. calls' = [calls EXCEPT ![c] = p]
  BY <1>2 DEF Go
<1>5. /\ p.at = step
      /\ p.kind = q.kind /\ p.user = q.user /\ p.service = q.service
      /\ p.session = q.session /\ p.stamp = q.stamp /\ p.before = q.before
  BY DEF Call
<1>6. CallOK(q)
  BY <1>1, <1>2 DEF LeaseInv
<1>. QED
  BY Zenon, <1>1, <1>2, <1>3, <1>4, <1>5, <1>6

\* The lookup by which a request begins.
LEMMA LookupStep ==
  ASSUME LeaseInv, NEW c \in Calls, NEW ok \in BOOLEAN, Lookup(c, ok)
  PROVE  LeaseInv' /\ Evolve
<1>1. CASE End(c)
  BY <1>1, EndStep DEF Lookup
<1>2. CASE Known(calls[c]) /\ Go(c, "expire")
  <2>1. calls[c].at \in Steps /\ "expire" \in Steps
    BY DEF Lookup, Steps
  <2>2. PICK q, p \in Call :
           /\ q = calls[c] /\ c \in Active /\ CallOK(q)
           /\ calls' = [calls EXCEPT ![c] = p]
           /\ p.at = "expire"
           /\ p.kind = q.kind /\ p.user = q.user /\ p.service = q.service
           /\ p.session = q.session /\ p.stamp = q.stamp /\ p.before = q.before
    BY <1>2, <2>1, GoCall
  <2>3. q.at = "lookup" /\ q.session \in DOMAIN sessions
    BY <1>2, <2>2 DEF Lookup, Known
  <2>4. q.kind = "restart"
    BY <2>2, <2>3 DEF CallOK, Call, Kinds
  <2>5. CallOK(p)
    BY <2>2, <2>3, <2>4 DEF CallOK, Drawing
  <2>. QED
    BY Zenon, <2>2, <2>4, <2>5, CallStep DEF Lookup, Drawing
<1>. QED
  BY <1>1, <1>2 DEF Lookup

\* The answer of Signals.Create.
LEMMA SignalStep ==
  ASSUME LeaseInv, NEW c \in Calls, NEW ok \in BOOLEAN, Signal(c, ok)
  PROVE  LeaseInv' /\ Evolve
<1>1. CASE End(c)
  BY <1>1, EndStep DEF Signal
<1>2. ASSUME NEW step \in {"granted", "revoke"}, Go(c, step) PROVE LeaseInv' /\ Evolve
  <2>1. calls[c].at \in Steps /\ step \in Steps
    BY DEF Signal, Steps
  <2>2. PICK q, p \in Call :
           /\ q = calls[c] /\ c \in Active /\ CallOK(q)
           /\ calls' = [calls EXCEPT ![c] = p]
           /\ p.at = step
           /\ p.kind = q.kind /\ p.user = q.user /\ p.service = q.service
           /\ p.session = q.session /\ p.stamp = q.stamp /\ p.before = q.before
    BY <1>2, <2>1, GoCall
  <2>3. q.at = "signal"
    BY <2>2 DEF Signal
  <2>4. CallOK(p)
    BY <2>2, <2>3 DEF CallOK, Drawing
  <2>. QED
    BY Zenon, <2>2, <2>4, CallStep DEF Signal, Drawing
<1>. QED
  BY <1>1, <1>2 DEF Signal

\* TemporaryServiceBySlug.
LEMMA FindStep ==
  ASSUME LeaseInv, NEW c \in Calls, Find(c)
  PROVE  LeaseInv' /\ Evolve
<1>1. CASE End(c)
  BY <1>1, EndStep DEF Find
<1>2. CASE calls' = [calls EXCEPT ![c].at = "expire", ![c].found = TRUE]
  <2>1. calls[c] \in Call /\ c \in Active
    BY DEF LeaseInv, Typed, Active, Idle, Find
  <2>2. PICK q \in Call : q = calls[c]
    BY <2>1
  <2>. DEFINE p == [q EXCEPT !.at = "expire", !.found = TRUE]
  <2>3. p \in Call
    BY Zenon, CallGoes DEF Steps
  <2>4. /\ p.at = "expire"
        /\ p.kind = q.kind /\ p.service = q.service
        /\ p.session = q.session /\ p.before = q.before
    BY DEF Call
  <2>5. calls' = [calls EXCEPT ![c] = p]
    BY Zenon, <1>2, <2>2
  <2>6. CallOK(q) /\ q.at = "find"
    BY <2>1, <2>2 DEF LeaseInv, Find
  <2>. HIDE DEF p
  <2>7. CallOK(p) /\ ~Drawing(p)
    BY <2>4, <2>6 DEF CallOK, Drawing
  <2>. QED
    BY Zenon, <2>3, <2>4, <2>5, <2>7, CallStep DEF Find
<1>. QED
  BY <1>1, <1>2 DEF Find

\* The SELECT of AuthorizedService: a row without an owner is persistent.
LEMMA SelectStep ==
  ASSUME LeaseInv, NEW c \in Calls, Select(c)
  PROVE  LeaseInv' /\ Evolve
<1>1. CASE End(c)
  BY <1>1, EndStep DEF Select
<1>2. CASE ~End(c)
  <2>1. calls[c] \in Call /\ c \in Active
    BY DEF LeaseInv, Typed, Active, Idle, Select
  <2>2. PICK q \in Call : q = calls[c]
    BY <2>1
  <2>. DEFINE v == Target(q)
              step == IF services[v].owner # NoUser THEN "renew" ELSE Authorised(q.kind)
              p == [q EXCEPT !.at = step, !.until = services[v].absolute]
  <2>3. /\ v \in DOMAIN services /\ Authorized(services[v], q.user, q.stamp)
        /\ calls' = [calls EXCEPT ![c].at = step, ![c].until = services[v].absolute]
    BY <1>2, <2>2 DEF Select
  <2>4. step \in Steps /\ services[v].absolute \in Nat
    BY <2>3 DEF Steps, Authorised, LeaseInv, Typed, ServiceRow
  <2>. HIDE DEF step
  <2>5. p \in Call
    BY Zenon, <2>4, CallGoes
  <2>6. /\ p.at = step
        /\ p.kind = q.kind /\ p.user = q.user /\ p.service = q.service
        /\ p.session = q.session /\ p.before = q.before
    BY DEF Call
  <2>7. calls' = [calls EXCEPT ![c] = p]
    BY Zenon, <2>2, <2>3
  <2>8. CallOK(q) /\ q.at = "select"
    BY <2>1, <2>2 DEF LeaseInv, Select
  <2>9. q.kind \in {"connect", "restart", "page"}
    BY <2>8 DEF CallOK
  <2>10. Target(p) = v
    BY <2>6 DEF Target
  <2>11. step = "renew" \/ (step = Authorised(q.kind) /\ services[v].owner = NoUser)
    BY DEF step
  <2>12. step = "mint" => q.kind = "connect" /\ Entitled(q.user, q.service)
    <3>1. step = "mint" => q.kind = "connect" /\ services[v].owner = NoUser
      BY <2>9, <2>11 DEF Authorised
    <3>2. services[v].enabled
      BY <2>3 DEF Authorized
    <3>. QED
      BY <2>3, <3>1, <3>2 DEF Entitled, Target, LeaseInv, RowsOK, TemporaryNeverPublic
  <2>13. step \in {"renew", "mint", "touch", "granted"} /\ (step = "touch" => q.kind = "restart")
    BY <2>9, <2>11 DEF Authorised
  <2>. HIDE DEF p
  <2>14. CallOK(p)
    BY <2>3, <2>6, <2>8, <2>9, <2>10, <2>12, <2>13 DEF CallOK, Drawing
  <2>. QED
    BY Zenon, <2>5, <2>6, <2>7, <2>13, <2>14, CallStep DEF Select, Drawing
<1>. QED
  BY <1>1, <1>2

\* The id that Create draws is new.
LEMMA MintStep ==
  ASSUME LeaseInv, NEW c \in Calls, NEW s \in Sessions, Mint(c, s)
  PROVE  LeaseInv' /\ Evolve
<1>1. calls[c] \in Call /\ c \in Active
  BY DEF LeaseInv, Typed, Active, Idle, Mint
<1>2. PICK q \in Call : q = calls[c]
  BY <1>1
<1>. DEFINE p == [q EXCEPT !.at = "insert", !.session = s, !.stamp = now]
<1>3. p \in Call
  <2>1. "insert" \in Steps
    BY DEF Steps
  <2>2. now \in Nat
    BY LeasesAssumption DEF LeaseInv, Typed
  <2>. QED
    BY Zenon, <2>1, <2>2, CallGoes
<1>4. /\ p.at = "insert" /\ p.session = s
      /\ p.kind = q.kind /\ p.user = q.user /\ p.service = q.service /\ p.before = q.before
  BY DEF Call
<1>5. calls' = [calls EXCEPT ![c] = p]
  BY Zenon, <1>2 DEF Mint
<1>6. CallOK(q) /\ q.at = "mint"
  BY <1>1, <1>2 DEF LeaseInv, Mint
<1>. HIDE DEF p
<1>7. s \notin DOMAIN sessions /\ s \notin {calls[d].session : d \in Active}
  BY DEF Mint
<1>8. CallOK(p) /\ ~Drawing(p)
  BY <1>4, <1>6, <1>7 DEF CallOK, Drawing
<1>. QED
  BY Zenon, <1>3, <1>4, <1>5, <1>7, <1>8, CallStep DEF Mint
-----------------------------------------------------------------------------
\* A statement that withdraws enabled rows.
LEMMA WithdrawRows ==
  ASSUME LeaseInv, UNCHANGED <<now, sessions>>, NEW ids \in SUBSET DOMAIN services,
         \A v \in ids : services[v].enabled,
         services' = WithdrawAll(ids)
  PROVE  /\ Evolve /\ RowsOK'
         /\ DOMAIN services' = DOMAIN services
         /\ services' \in [DOMAIN services' -> ServiceRow]
         /\ \A v \in DOMAIN services \ ids : services'[v] = services[v]
         /\ \A v \in ids : ~services'[v].enabled
<1>1. DOMAIN services' = DOMAIN services
  BY DEF WithdrawAll
<1>2. \A v \in DOMAIN services : services[v] \in ServiceRow
  BY DEF LeaseInv, Typed
<1>3. \A v \in DOMAIN services \ ids : services'[v] = services[v]
  BY DEF WithdrawAll
<1>4. ASSUME NEW r \in ServiceRow
      PROVE  /\ Withdrawn(r) \in ServiceRow
             /\ Withdrawn(r).born = r.born /\ ~Withdrawn(r).enabled
             /\ Withdrawn(r).expires = 0 /\ Withdrawn(r).absolute = 0
  BY Zenon DEF Withdrawn, ServiceRow
<1>5. ASSUME NEW v \in ids
      PROVE  /\ services'[v] \in ServiceRow
             /\ services'[v].born = services[v].born /\ ~services'[v].enabled
             /\ services'[v].expires = 0 /\ services'[v].absolute = 0
  <2>1. services'[v] = Withdrawn(services[v])
    BY <1>5 DEF WithdrawAll
  <2>. QED
    BY <1>2, <1>4, <2>1
<1>6. services' \in [DOMAIN services' -> ServiceRow]
  <2>1. services' = [v \in DOMAIN services' |-> services'[v]]
    BY <1>1 DEF WithdrawAll
  <2>2. \A v \in DOMAIN services' : services'[v] \in ServiceRow
    BY <1>1, <1>2, <1>3, <1>5
  <2>. QED
    BY <2>1, <2>2
<1>7. Evolve
  BY <1>1, <1>3, <1>5 DEF Evolve
<1>8. RowsOK'
  <2>1. \A v \in DOMAIN services' : services'[v].expires <= services'[v].absolute
    BY <1>1, <1>3, <1>5 DEF LeaseInv, RowsOK
  <2>2. TemporaryNeverPublic'
    BY <1>1, <1>3, <1>5 DEF LeaseInv, RowsOK, TemporaryNeverPublic
  <2>3. \A s \in DOMAIN sessions' : Entitled(sessions[s].user, sessions[s].service)'
    BY <1>1, <1>3, <1>5 DEF LeaseInv, RowsOK, Entitled
  <2>. QED
    BY <2>1, <2>2, <2>3 DEF LeaseInv, RowsOK
<1>. QED
  BY <1>1, <1>3, <1>5, <1>6, <1>7, <1>8

\* expireTemporaryServices.
LEMMA ExpireStep ==
  ASSUME LeaseInv, NEW c \in Calls, Expire(c)
  PROVE  LeaseInv' /\ Evolve
<1>. DEFINE step == CASE calls[c].kind = "create" -> "createTemporary"
                      [] calls[c].kind = "page" /\ ~calls[c].found -> "find"
                      [] OTHER -> "select"
<1>1. calls[c].at \in Steps /\ step \in Steps /\ Go(c, step)
  BY DEF Expire, Steps
<1>2. PICK q, p \in Call :
         /\ q = calls[c] /\ c \in Active /\ CallOK(q)
         /\ calls' = [calls EXCEPT ![c] = p]
         /\ p.at = step
         /\ p.kind = q.kind /\ p.user = q.user /\ p.service = q.service
         /\ p.session = q.session /\ p.stamp = q.stamp /\ p.before = q.before
  BY <1>1, GoCall
<1>3. /\ Evolve /\ RowsOK'
      /\ DOMAIN services' = DOMAIN services
      /\ services' \in [DOMAIN services' -> ServiceRow]
  BY WithdrawRows DEF Expire
<1>4. q.at = "expire"
  BY <1>2 DEF Expire
<1>5. CallOK(q)'
  BY <1>2, <1>3, <1>4, CallFrame DEF CallOK
<1>6. \/ q.kind = "create" /\ step = "createTemporary"
      \/ q.kind = "page" /\ step = "find"
      \/ q.kind \in {"connect", "restart", "page"} /\ step = "select"
  BY <1>2, <1>4 DEF CallOK, Call, Kinds
<1>. HIDE DEF step
<1>7. CallOK(p)'
  BY <1>2, <1>4, <1>5, <1>6 DEF CallOK, Drawing
<1>8. Drawing(p) => Drawing(q)
  BY <1>2, <1>4 DEF Drawing
<1>9. /\ calls' \in [Calls -> {Idle} \cup Call]
      /\ \A d \in Active' : CallOK(calls[d])'
      /\ Unique'
  BY Zenon, <1>2, <1>3, <1>6, <1>7, <1>8, CallsFrame DEF Expire
<1>. QED
  BY Zenon, <1>3, <1>9 DEF LeaseInv, Typed, Expire

\* RevokeTemporaryServices leaves no enabled row of this user's.
LEMMA RevokeTemporaryStep ==
  ASSUME LeaseInv, NEW c \in Calls, RevokeTemporary(c)
  PROVE  LeaseInv' /\ Evolve
<1>. DEFINE owned == {v \in DOMAIN services :
                        services[v].owner = calls[c].user /\ services[v].enabled}
<1>1. calls[c].at \in Steps /\ "granted" \in Steps /\ Go(c, "granted")
  BY DEF RevokeTemporary, Steps
<1>2. PICK q, p \in Call :
         /\ q = calls[c] /\ c \in Active /\ CallOK(q)
         /\ calls' = [calls EXCEPT ![c] = p]
         /\ p.at = "granted"
         /\ p.kind = q.kind /\ p.user = q.user /\ p.service = q.service
         /\ p.session = q.session /\ p.stamp = q.stamp /\ p.before = q.before
  BY <1>1, GoCall
<1>3. /\ Evolve /\ RowsOK'
      /\ DOMAIN services' = DOMAIN services
      /\ services' \in [DOMAIN services' -> ServiceRow]
      /\ \A v \in DOMAIN services \ owned : services'[v] = services[v]
      /\ \A v \in owned : ~services'[v].enabled
  BY WithdrawRows DEF RevokeTemporary
<1>4. q.at = "revokeTemporary"
  BY <1>2 DEF RevokeTemporary
<1>5. CallOK(q)'
  BY <1>2, <1>3, <1>4, CallFrame DEF CallOK, Drawing
<1>6. \A v \in DOMAIN services : services'[v].enabled => services'[v].owner # q.user
  BY <1>2, <1>3
<1>7. CallOK(p)'
  BY <1>2, <1>3, <1>4, <1>5, <1>6 DEF CallOK, Drawing
<1>8. /\ calls' \in [Calls -> {Idle} \cup Call]
      /\ \A d \in Active' : CallOK(calls[d])'
      /\ Unique'
  BY Zenon, <1>2, <1>3, <1>7, CallsFrame DEF RevokeTemporary, Drawing
<1>. QED
  BY Zenon, <1>3, <1>8 DEF LeaseInv, Typed, RevokeTemporary
\* A statement that inserts a service row.
LEMMA AddService ==
  ASSUME LeaseInv, UNCHANGED <<now, sessions>>, NEW v \in Services \ DOMAIN services,
         NEW row \in ServiceRow, row.expires <= row.absolute,
         row.owner = NoUser => row.born = "persistent",
         services' = With(services, v, row)
  PROVE  /\ Evolve /\ RowsOK'
         /\ DOMAIN services' = DOMAIN services \cup {v}
         /\ services' \in [DOMAIN services' -> ServiceRow]
<1>1. /\ DOMAIN services' = DOMAIN services \cup {v}
      /\ \A x \in DOMAIN services : services'[x] = services[x]
      /\ services'[v] = row
  BY DEF With
<1>2. services' \in [DOMAIN services' -> ServiceRow]
  <2>1. services' = [x \in DOMAIN services' |-> services'[x]]
    BY <1>1 DEF With
  <2>2. \A x \in DOMAIN services' : services'[x] \in ServiceRow
    BY <1>1 DEF LeaseInv, Typed
  <2>. QED
    BY <2>1, <2>2
<1>3. Evolve
  BY <1>1 DEF Evolve
<1>4. RowsOK'
  <2>1. \A x \in DOMAIN services' : services'[x].expires <= services'[x].absolute
    BY <1>1 DEF LeaseInv, RowsOK
  <2>2. TemporaryNeverPublic'
    BY <1>1 DEF LeaseInv, RowsOK, TemporaryNeverPublic
  <2>3. \A s \in DOMAIN sessions' : Entitled(sessions[s].user, sessions[s].service)'
    BY <1>1 DEF LeaseInv, RowsOK, Entitled
  <2>. QED
    BY <2>1, <2>2, <2>3 DEF LeaseInv, RowsOK
<1>. QED
  BY <1>1, <1>2, <1>3, <1>4

\* createService.
LEMMA CreateServiceStep ==
  ASSUME LeaseInv, NEW v \in Services, CreateService(v)
  PROVE  LeaseInv' /\ Evolve
<1>. DEFINE row == [born |-> "persistent", enabled |-> TRUE, owner |-> NoUser,
                    expires |-> 0, absolute |-> 0]
<1>1. /\ row \in ServiceRow /\ row.expires <= row.absolute /\ row.born = "persistent"
      /\ services' = With(services, v, row) /\ v \notin DOMAIN services
  BY DEF CreateService, Fresh, ServiceRow
<1>. HIDE DEF row
<1>2. /\ Evolve /\ RowsOK'
      /\ DOMAIN services' = DOMAIN services \cup {v}
      /\ services' \in [DOMAIN services' -> ServiceRow]
  BY Zenon, <1>1, AddService DEF CreateService
<1>3. ASSUME NEW d \in Active' PROVE CallOK(calls[d])'
  <2>1. d \in Active /\ calls'[d] = calls[d] /\ calls[d] \in Call
    BY <1>3 DEF Active, LeaseInv, Typed, CreateService
  <2>2. PICK q \in Call : q = calls[d]
    BY <2>1
  <2>3. CallOK(q)
    BY <2>1, <2>2 DEF LeaseInv
  <2>4. q.at = "insert" => q.session \notin DOMAIN sessions'
    BY <2>3 DEF CallOK, CreateService
  <2>5. Drawing(q) => q.service \notin DOMAIN services'
    BY <1>2, <2>1, <2>2, <2>3 DEF CallOK, CreateService, Fresh, Drawing
  <2>6. CallOK(q)' /\ q = calls'[d]
    BY <1>2, <2>1, <2>2, <2>3, <2>4, <2>5, CallFrame
  <2>. QED
    BY <2>6 DEF CallOK, Entitled, Target, Drawing
<1>4. Unique'
  BY DEF LeaseInv, Unique, Active, Drawing, CreateService
<1>. QED
  BY Zenon, <1>2, <1>3, <1>4 DEF LeaseInv, Typed, CreateService

\* The INSERT of CreateTemporaryService.
LEMMA InsertTemporaryStep ==
  ASSUME LeaseInv, NEW c \in Calls, InsertTemporary(c)
  PROVE  LeaseInv' /\ Evolve
<1>1. calls[c].at \in Steps /\ "granted" \in Steps /\ Go(c, "granted")
  BY DEF InsertTemporary, Steps
<1>2. PICK q, p \in Call :
         /\ q = calls[c] /\ c \in Active /\ CallOK(q)
         /\ calls' = [calls EXCEPT ![c] = p]
         /\ p.at = "granted"
         /\ p.kind = q.kind /\ p.user = q.user /\ p.service = q.service
         /\ p.session = q.session /\ p.stamp = q.stamp /\ p.before = q.before
  BY <1>1, GoCall
<1>. DEFINE row == [born |-> "temporary", enabled |-> TRUE, owner |-> q.user,
                    expires |-> q.stamp + IdleTTL, absolute |-> q.stamp + AbsoluteTTL]
<1>3. /\ row \in ServiceRow /\ row.expires <= row.absolute /\ row.owner # NoUser
      /\ services' = With(services, q.service, row)
  BY <1>2, LeasesAssumption DEF InsertTemporary, ServiceRow, Call
<1>. HIDE DEF row
<1>4. q.at = "createTemporary" /\ q.kind = "create" /\ Drawing(q)
  BY <1>2 DEF InsertTemporary, CallOK, Drawing
<1>5. q.service \in Services \ DOMAIN services
  BY <1>2, <1>4 DEF CallOK, Call
<1>6. /\ Evolve /\ RowsOK'
      /\ DOMAIN services' = DOMAIN services \cup {q.service}
      /\ services' \in [DOMAIN services' -> ServiceRow]
  BY Zenon, <1>3, <1>5, AddService DEF InsertTemporary
<1>7. CallOK(p)'
  BY <1>2, <1>4, <1>6 DEF CallOK, Drawing
<1>8. /\ calls' \in [Calls -> {Idle} \cup Call]
      /\ \A d \in Active' : CallOK(calls[d])'
      /\ Unique'
  BY Zenon, <1>2, <1>4, <1>6, <1>7, CallsFrame DEF InsertTemporary, Drawing
<1>. QED
  BY Zenon, <1>5, <1>6, <1>8 DEF LeaseInv, Typed, InsertTemporary

\* The UPDATE of AuthorizedService.
LEMMA RenewStep ==
  ASSUME LeaseInv, NEW c \in Calls, Renew(c)
  PROVE  LeaseInv' /\ Evolve
<1>1. CASE End(c) /\ UNCHANGED services
  BY <1>1, EndStep DEF Renew
<1>2. CASE ~(End(c) /\ UNCHANGED services)
  <2>. DEFINE step == Authorised(calls[c].kind)
              v == Target(calls[c])
              next == NextExpiry(calls[c].stamp, calls[c].until)
  <2>1. /\ calls[c].at = "renew"
        /\ services[v].owner = calls[c].user /\ services[v].enabled
        /\ services[v].absolute >= next
        /\ services' = [services EXCEPT ![v].expires = next]
        /\ Go(c, step)
    BY <1>2 DEF Renew
  <2>2. calls[c].at \in Steps /\ step \in Steps
    BY <2>1 DEF Steps, Authorised
  <2>. HIDE DEF step, v, next
  <2>3. PICK q, p \in Call :
           /\ q = calls[c] /\ c \in Active /\ CallOK(q)
           /\ calls' = [calls EXCEPT ![c] = p]
           /\ p.at = step
           /\ p.kind = q.kind /\ p.user = q.user /\ p.service = q.service
           /\ p.session = q.session /\ p.stamp = q.stamp /\ p.before = q.before
    BY <2>1, <2>2, GoCall
  <2>4. /\ q.at = "renew" /\ q.kind \in {"connect", "restart", "page"}
        /\ v = Target(q) /\ v \in DOMAIN services
    BY <2>1, <2>3 DEF CallOK, v
  <2>5. step \in {"mint", "touch", "granted"} /\ (step = "touch" => q.kind = "restart")
                                            /\ (step = "mint" => q.kind = "connect")
    BY <2>3, <2>4 DEF step, Authorised
  <2>6. next \in Nat
    BY <2>3, LeasesAssumption DEF next, NextExpiry, Least, Call
  <2>7. /\ DOMAIN services' = DOMAIN services
        /\ services' \in [DOMAIN services' -> ServiceRow]
        /\ \A x \in DOMAIN services \ {v} : services'[x] = services[x]
        /\ services'[v] = [services[v] EXCEPT !.expires = next]
    BY Zenon, <2>1, <2>4, <2>6, RowsTyped DEF LeaseInv, Typed
  <2>8. /\ services'[v].born = services[v].born /\ services'[v].owner = services[v].owner
        /\ services'[v].enabled = services[v].enabled
        /\ services'[v].expires = next /\ services'[v].absolute = services[v].absolute
    <3>1. services[v] \in ServiceRow
      BY <2>4 DEF LeaseInv, Typed
    <3>2. services'[v] = [services[v] EXCEPT !.expires = next]
      BY <2>7
    <3>. QED
      BY <3>1, <3>2 DEF ServiceRow
  <2>9. UNCHANGED <<now, sessions>>
    BY DEF Renew
  <2>10. Evolve
    BY <2>1, <2>7, <2>8, <2>9 DEF Evolve
  <2>11. RowsOK'
    <3>1. \A x \in DOMAIN services' : services'[x].expires <= services'[x].absolute
      <4>1. services[v].absolute \in Nat
        BY <2>4 DEF LeaseInv, Typed, ServiceRow
      <4>. QED
        BY <2>1, <2>6, <2>7, <2>8, <4>1 DEF LeaseInv, RowsOK
    <3>2. TemporaryNeverPublic'
      <4>1. services[v].owner = NoUser => services[v].born = "persistent"
        BY <2>1, <2>4 DEF LeaseInv, RowsOK, TemporaryNeverPublic
      <4>2. services'[v].owner = NoUser => services'[v].born = "persistent"
        BY <2>8, <4>1
      <4>. QED
        BY Zenon, <2>7, <4>2 DEF LeaseInv, RowsOK, TemporaryNeverPublic
    <3>3. \A s \in DOMAIN sessions' : Entitled(sessions[s].user, sessions[s].service)'
      <4>1. ASSUME NEW s \in DOMAIN sessions
            PROVE  Entitled(sessions[s].user, sessions[s].service)'
        <5>1. Entitled(sessions[s].user, sessions[s].service)
          BY DEF LeaseInv, RowsOK
        <5>. QED
          BY <2>9, <2>10, <5>1 DEF Evolve, Entitled
      <4>. QED
        BY <2>9, <4>1
    <3>. QED
      BY <2>9, <3>1, <3>2, <3>3 DEF LeaseInv, RowsOK
  <2>12. step = "mint" => Entitled(q.user, q.service)'
    BY Zenon, <2>1, <2>3, <2>4, <2>5, <2>7, <2>8 DEF Entitled, Target
  <2>13. CallOK(q)'
    BY <2>3, <2>4, <2>10, CallFrame DEF Drawing
  <2>14. CallOK(p)'
    BY <2>3, <2>4, <2>5, <2>12, <2>13 DEF CallOK, Drawing
  <2>15. /\ calls' \in [Calls -> {Idle} \cup Call]
         /\ \A d \in Active' : CallOK(calls[d])'
         /\ Unique'
    BY Zenon, <2>3, <2>5, <2>7, <2>9, <2>10, <2>14, CallsFrame DEF Drawing
  <2>. QED
    BY <2>7, <2>9, <2>10, <2>11, <2>15 DEF LeaseInv, Typed
<1>. QED
  BY <1>1, <1>2
-----------------------------------------------------------------------------
\* A statement on the sessions table keeps the invariant of the rows if it
\* keeps the bounds of each lease.
LEMMA SessionRows ==
  ASSUME LeaseInv, UNCHANGED <<now, services>>,
         DOMAIN sessions \subseteq DOMAIN sessions', DOMAIN sessions' \subseteq Sessions,
         sessions' \in [DOMAIN sessions' -> SessionRow],
         \A s \in DOMAIN sessions :
           /\ sessions'[s].service = sessions[s].service
           /\ sessions[s].revoked => sessions'[s] = sessions[s],
         \A s \in DOMAIN sessions' :
           /\ sessions'[s].absolute = sessions'[s].created + AbsoluteTTL
           /\ sessions'[s].expires <= sessions'[s].absolute
           /\ sessions'[s].expires <= sessions'[s].seen + IdleTTL
           /\ Entitled(sessions'[s].user, sessions'[s].service)
  PROVE  Evolve /\ RowsOK'
<1>1. Evolve
  BY DEF Evolve
<1>2. TemporaryNeverPublic'
  BY DEF LeaseInv, RowsOK, TemporaryNeverPublic
<1>3. \A s \in DOMAIN sessions' : Entitled(sessions[s].user, sessions[s].service)'
  BY DEF Entitled
<1>4. \A v \in DOMAIN services' : services'[v].expires <= services'[v].absolute
  BY DEF LeaseInv, RowsOK
<1>. QED
  BY <1>1, <1>2, <1>3, <1>4 DEF RowsOK

\* A statement that revokes sessions.
LEMMA RevokeRows ==
  ASSUME LeaseInv, UNCHANGED <<now, services>>, NEW ids \in SUBSET DOMAIN sessions,
         sessions' = [s \in DOMAIN sessions |->
           IF s \in ids THEN [sessions[s] EXCEPT !.revoked = TRUE] ELSE sessions[s]]
  PROVE  /\ Evolve /\ RowsOK'
         /\ DOMAIN sessions' = DOMAIN sessions
         /\ sessions' \in [DOMAIN sessions' -> SessionRow]
<1>1. DOMAIN sessions' = DOMAIN sessions
  OBVIOUS
<1>2. ASSUME NEW r \in SessionRow
      PROVE  LET n == [r EXCEPT !.revoked = TRUE] IN
             /\ n \in SessionRow /\ n.user = r.user /\ n.service = r.service
             /\ n.created = r.created /\ n.seen = r.seen
             /\ n.expires = r.expires /\ n.absolute = r.absolute
             /\ r.revoked => n = r
  BY Zenon DEF SessionRow
<1>3. ASSUME NEW s \in DOMAIN sessions
      PROVE  /\ sessions'[s] \in SessionRow
             /\ sessions'[s].user = sessions[s].user /\ sessions'[s].service = sessions[s].service
             /\ sessions'[s].created = sessions[s].created /\ sessions'[s].seen = sessions[s].seen
             /\ sessions'[s].expires = sessions[s].expires
             /\ sessions'[s].absolute = sessions[s].absolute
             /\ sessions[s].revoked => sessions'[s] = sessions[s]
  <2>1. sessions[s] \in SessionRow
    BY DEF LeaseInv, Typed
  <2>2. sessions'[s] = sessions[s] \/ sessions'[s] = [sessions[s] EXCEPT !.revoked = TRUE]
    OBVIOUS
  <2>. QED
    BY <1>2, <2>1, <2>2
<1>4. sessions' \in [DOMAIN sessions' -> SessionRow]
  <2>1. sessions' = [s \in DOMAIN sessions' |-> sessions'[s]]
    BY <1>1
  <2>. QED
    BY <1>1, <1>3, <2>1
<1>5. \A s \in DOMAIN sessions' :
        /\ sessions'[s].absolute = sessions'[s].created + AbsoluteTTL
        /\ sessions'[s].expires <= sessions'[s].absolute
        /\ sessions'[s].expires <= sessions'[s].seen + IdleTTL
        /\ Entitled(sessions'[s].user, sessions'[s].service)
  BY <1>1, <1>3 DEF LeaseInv, RowsOK
<1>6. DOMAIN sessions' \subseteq Sessions
  BY <1>1 DEF LeaseInv, Typed
<1>7. Evolve /\ RowsOK'
  BY <1>1, <1>3, <1>4, <1>5, <1>6, SessionRows
<1>. QED
  BY <1>1, <1>4, <1>7

\* RevokeBrowserSession.
LEMMA RevokeStep ==
  ASSUME LeaseInv, NEW c \in Calls, Revoke(c)
  PROVE  LeaseInv' /\ Evolve
<1>1. c \in Active /\ CallOK(calls[c]) /\ calls[c].session \in DOMAIN sessions
  BY DEF LeaseInv, Active, Idle, Revoke, CallOK
<1>2. PICK id \in DOMAIN sessions : id = calls[c].session
  BY <1>1
<1>3. sessions' = [s \in DOMAIN sessions |->
        IF s \in {id} THEN [sessions[s] EXCEPT !.revoked = TRUE] ELSE sessions[s]]
  BY Zenon, <1>2 DEF Revoke, LeaseInv, Typed
<1>4. /\ Evolve /\ RowsOK'
      /\ DOMAIN sessions' = DOMAIN sessions
      /\ sessions' \in [DOMAIN sessions' -> SessionRow]
  BY Zenon, <1>3, RevokeRows DEF Revoke
<1>5. /\ calls' \in [Calls -> {Idle} \cup Call]
      /\ \A d \in Active' : CallOK(calls[d])'
      /\ Unique'
  BY Zenon, <1>4, CallsFrame DEF Revoke, End
<1>. QED
  BY <1>4, <1>5 DEF LeaseInv, Typed, Revoke

\* RevokeBrowserSessions.
LEMMA RevokeAllStep ==
  ASSUME LeaseInv, NEW c \in Calls, RevokeAll(c)
  PROVE  LeaseInv' /\ Evolve
<1>. DEFINE ids == {s \in DOMAIN sessions : sessions[s].user = calls[c].user}
<1>1. calls[c].at \in Steps /\ "revokeTemporary" \in Steps /\ Go(c, "revokeTemporary")
  BY DEF RevokeAll, Steps
<1>2. PICK q, p \in Call :
         /\ q = calls[c] /\ c \in Active /\ CallOK(q)
         /\ calls' = [calls EXCEPT ![c] = p]
         /\ p.at = "revokeTemporary"
         /\ p.kind = q.kind /\ p.user = q.user /\ p.service = q.service
         /\ p.session = q.session /\ p.stamp = q.stamp /\ p.before = q.before
  BY <1>1, GoCall
<1>3. sessions' = [s \in DOMAIN sessions |->
        IF s \in ids THEN [sessions[s] EXCEPT !.revoked = TRUE] ELSE sessions[s]]
  BY DEF RevokeAll
<1>4. ids \in SUBSET DOMAIN sessions
  OBVIOUS
<1>. HIDE DEF ids
<1>5. /\ Evolve /\ RowsOK'
      /\ DOMAIN sessions' = DOMAIN sessions
      /\ sessions' \in [DOMAIN sessions' -> SessionRow]
  BY Zenon, <1>3, <1>4, RevokeRows DEF RevokeAll
<1>6. q.at = "revokeAll"
  BY <1>2 DEF RevokeAll
<1>7. CallOK(q)'
  BY <1>2, <1>5, <1>6, CallFrame DEF Drawing
<1>8. CallOK(p)'
  BY <1>2, <1>6, <1>7 DEF CallOK, Drawing
<1>9. /\ calls' \in [Calls -> {Idle} \cup Call]
      /\ \A d \in Active' : CallOK(calls[d])'
      /\ Unique'
  BY Zenon, <1>2, <1>5, <1>8, CallsFrame DEF RevokeAll, Drawing
<1>. QED
  BY <1>5, <1>9 DEF LeaseInv, Typed, RevokeAll

\* CreateBrowserSession.
LEMMA InsertStep ==
  ASSUME LeaseInv, NEW c \in Calls, Insert(c)
  PROVE  LeaseInv' /\ Evolve
<1>1. calls[c].at \in Steps /\ "signal" \in Steps /\ Go(c, "signal")
  BY DEF Insert, Steps
<1>2. PICK q, p \in Call :
         /\ q = calls[c] /\ c \in Active /\ CallOK(q)
         /\ calls' = [calls EXCEPT ![c] = p]
         /\ p.at = "signal"
         /\ p.kind = q.kind /\ p.user = q.user /\ p.service = q.service
         /\ p.session = q.session /\ p.stamp = q.stamp /\ p.before = q.before
  BY <1>1, GoCall
<1>. DEFINE row == [user |-> q.user, service |-> q.service, created |-> q.stamp,
                    seen |-> q.stamp, expires |-> q.stamp + IdleTTL,
                    absolute |-> q.stamp + AbsoluteTTL, revoked |-> FALSE]
<1>3. q.at = "insert" /\ q.session \in Sessions \ DOMAIN sessions
                      /\ Entitled(q.user, q.service) /\ q.kind = "connect"
  BY <1>2 DEF Insert, CallOK
<1>4. /\ row \in SessionRow /\ row.user = q.user /\ row.service = q.service
      /\ row.absolute = row.created + AbsoluteTTL
      /\ row.expires <= row.absolute /\ row.expires <= row.seen + IdleTTL
      /\ sessions' = With(sessions, q.session, row)
  BY <1>2, LeasesAssumption DEF Insert, SessionRow, Call
<1>. HIDE DEF row
<1>5. /\ DOMAIN sessions' = DOMAIN sessions \cup {q.session}
      /\ \A s \in DOMAIN sessions : sessions'[s] = sessions[s]
      /\ sessions'[q.session] = row
  BY <1>3, <1>4 DEF With
<1>6. sessions' \in [DOMAIN sessions' -> SessionRow]
  <2>1. sessions' = [s \in DOMAIN sessions' |-> sessions'[s]]
    BY <1>4, <1>5 DEF With
  <2>2. \A s \in DOMAIN sessions' : sessions'[s] \in SessionRow
    BY <1>4, <1>5 DEF LeaseInv, Typed
  <2>. QED
    BY <2>1, <2>2
<1>7. UNCHANGED <<now, services>> /\ DOMAIN sessions' \subseteq Sessions
  BY <1>3, <1>5 DEF Insert, LeaseInv, Typed
<1>8. \A s \in DOMAIN sessions' :
        /\ sessions'[s].absolute = sessions'[s].created + AbsoluteTTL
        /\ sessions'[s].expires <= sessions'[s].absolute
        /\ sessions'[s].expires <= sessions'[s].seen + IdleTTL
        /\ Entitled(sessions'[s].user, sessions'[s].service)
  BY <1>3, <1>4, <1>5 DEF LeaseInv, RowsOK
<1>9. Evolve /\ RowsOK'
  BY <1>5, <1>6, <1>7, <1>8, SessionRows
<1>10. CallOK(p)'
  BY <1>2, <1>3, <1>5, <1>7 DEF CallOK, Drawing
<1>11. /\ calls' \in [Calls -> {Idle} \cup Call]
       /\ \A d \in Active' : CallOK(calls[d])'
       /\ Unique'
  BY Zenon, <1>2, <1>3, <1>5, <1>7, <1>9, <1>10, CallsFrame DEF Drawing
<1>. QED
  BY <1>6, <1>7, <1>9, <1>11 DEF LeaseInv, Typed

\* The touch renews a session.
LEMMA TouchStep ==
  ASSUME LeaseInv, NEW c \in Calls, Touch(c)
  PROVE  LeaseInv' /\ Evolve
<1>1. CASE End(c) /\ UNCHANGED sessions
  BY <1>1, EndStep DEF Touch
<1>2. CASE ~(End(c) /\ UNCHANGED sessions)
  <2>1. calls[c] \in Call /\ c \in Active /\ CallOK(calls[c])
    BY DEF LeaseInv, Typed, Active, Idle, Touch
  <2>2. PICK q \in Call : q = calls[c]
    BY <2>1
  <2>. DEFINE id == q.session
              next == NextExpiry(q.stamp, sessions[id].absolute)
  <2>3. /\ q.at = "touch" /\ ~sessions[id].revoked
        /\ sessions[id].absolute >= next
        /\ sessions' = [sessions EXCEPT ![id].seen = q.stamp, ![id].expires = next]
        /\ Go(c, "signal") \/ End(c)
    BY <1>2, <2>2 DEF Touch, Touchable
  <2>4. id \in DOMAIN sessions /\ q.kind = "restart"
    BY <2>1, <2>2, <2>3 DEF CallOK
  <2>5. sessions[id] \in SessionRow
    BY <2>4 DEF LeaseInv, Typed
  <2>6. next \in Nat /\ next <= q.stamp + IdleTTL /\ next <= sessions[id].absolute
    BY <2>5, LeasesAssumption DEF NextExpiry, Least, Call, SessionRow
  <2>. HIDE DEF next
  <2>. DEFINE row == [sessions[id] EXCEPT !.seen = q.stamp, !.expires = next]
  <2>7. /\ row \in SessionRow
        /\ row.user = sessions[id].user /\ row.service = sessions[id].service
        /\ row.created = sessions[id].created /\ row.absolute = sessions[id].absolute
        /\ row.seen = q.stamp /\ row.expires = next
    BY Zenon, <2>5, <2>6 DEF SessionRow, Call
  <2>8. sessions' = [sessions EXCEPT ![id] = row]
    BY Zenon, <2>3
  <2>. HIDE DEF row
  <2>9. /\ DOMAIN sessions' = DOMAIN sessions
        /\ \A s \in DOMAIN sessions \ {id} : sessions'[s] = sessions[s]
        /\ sessions'[id] = row
        /\ sessions' \in [DOMAIN sessions' -> SessionRow]
    BY <2>4, <2>7, <2>8 DEF LeaseInv, Typed
  <2>10. UNCHANGED <<now, services>> /\ DOMAIN sessions' \subseteq Sessions
    BY <2>9 DEF Touch, LeaseInv, Typed
  <2>11. \A s \in DOMAIN sessions :
           /\ sessions'[s].service = sessions[s].service
           /\ sessions[s].revoked => sessions'[s] = sessions[s]
    BY <2>3, <2>7, <2>9
  <2>12. \A s \in DOMAIN sessions' :
           /\ sessions'[s].absolute = sessions'[s].created + AbsoluteTTL
           /\ sessions'[s].expires <= sessions'[s].absolute
           /\ sessions'[s].expires <= sessions'[s].seen + IdleTTL
           /\ Entitled(sessions'[s].user, sessions'[s].service)
    BY <2>4, <2>6, <2>7, <2>9 DEF LeaseInv, RowsOK
  <2>13. Evolve /\ RowsOK'
    BY <2>9, <2>10, <2>11, <2>12, SessionRows
  <2>14. \E p \in {Idle} \cup Call :
           /\ calls' = [calls EXCEPT ![c] = p]
           /\ p # Idle => CallOK(p)' /\ p.at = "signal"
    <3>1. CASE End(c)
      BY Zenon, <3>1 DEF End
    <3>2. CASE Go(c, "signal")
      <4>1. calls[c].at \in Steps /\ "signal" \in Steps
        BY <2>2, <2>3 DEF Steps
      <4>2. PICK r, p \in Call :
              /\ r = calls[c] /\ c \in Active /\ CallOK(r)
              /\ calls' = [calls EXCEPT ![c] = p]
              /\ p.at = "signal"
              /\ p.kind = r.kind /\ p.user = r.user /\ p.service = r.service
              /\ p.session = r.session /\ p.stamp = r.stamp /\ p.before = r.before
        BY <3>2, <4>1, GoCall
      <4>3. CallOK(p)'
        BY <2>2, <2>4, <2>9, <2>10, <4>2 DEF CallOK, Drawing
      <4>. QED
        BY Zenon, <4>2, <4>3
    <3>. QED
      BY <2>3, <3>1, <3>2
  <2>15. PICK p \in {Idle} \cup Call :
           /\ calls' = [calls EXCEPT ![c] = p]
           /\ p # Idle => CallOK(p)' /\ p.at = "signal"
    BY Zenon, <2>14
  <2>16. /\ calls' \in [Calls -> {Idle} \cup Call]
         /\ \A d \in Active' : CallOK(calls[d])'
         /\ Unique'
    BY Zenon, <2>9, <2>10, <2>13, <2>15, CallsFrame DEF Drawing
  <2>. QED
    BY <2>9, <2>10, <2>13, <2>16 DEF LeaseInv, Typed
<1>. QED
  BY <1>1, <1>2

\* The clock moves on, or nothing happens.
LEMMA TickStep ==
  ASSUME LeaseInv, now' \in 0..MaxTime, UNCHANGED <<services, sessions, calls>>
  PROVE  LeaseInv' /\ Evolve
<1>1. Evolve
  BY DEF Evolve
<1>2. RowsOK'
  BY SMTT(30) DEF LeaseInv, RowsOK, TemporaryNeverPublic, Entitled
<1>3. \A d \in Active' : CallOK(calls[d])'
  BY DEF LeaseInv, Active, CallOK, Entitled, Target, Drawing
<1>4. Unique'
  BY DEF LeaseInv, Unique, Active, Drawing
<1>. QED
  BY <1>1, <1>2, <1>3, <1>4 DEF LeaseInv, Typed
-----------------------------------------------------------------------------
\* The empty tables satisfy the invariant.
LEMMA LeaseInit == Init => LeaseInv
<1>. SUFFICES ASSUME Init PROVE LeaseInv
  OBVIOUS
<1>1. DOMAIN services = {} /\ DOMAIN sessions = {} /\ Active = {}
  BY DEF Init, Active
<1>2. Typed
  BY <1>1, LeasesAssumption DEF Init, Typed
<1>. QED
  BY <1>1, <1>2 DEF LeaseInv, RowsOK, TemporaryNeverPublic, Unique

\* Every step keeps the invariant and only lets rows evolve.
LEMMA LeaseStep == LeaseInv /\ [Next]_vars => LeaseInv' /\ Evolve
<1>. SUFFICES ASSUME LeaseInv, [Next]_vars PROVE LeaseInv' /\ Evolve
  OBVIOUS
<1>1. CASE UNCHANGED vars
  BY <1>1, TickStep DEF vars, LeaseInv, Typed
<1>2. CASE Tick
  <2>1. now' \in 0..MaxTime
    BY <1>2, LeasesAssumption DEF Tick, LeaseInv, Typed
  <2>. QED
    BY <1>2, <2>1, TickStep DEF Tick
<1>3. CASE \E v \in Services : CreateService(v)
  BY <1>3, CreateServiceStep
<1>4. ASSUME NEW c \in Calls, Return(c) PROVE LeaseInv' /\ Evolve
  BY <1>4, EndStep DEF Return
<1>5. ASSUME NEW c \in Calls,
             \/ Request(c) \/ Find(c) \/ Select(c)
             \/ \E s \in Sessions : Mint(c, s)
             \/ \E ok \in BOOLEAN : Lookup(c, ok) \/ Signal(c, ok)
      PROVE  LeaseInv' /\ Evolve
  BY <1>5, BeginStep, FindStep, SelectStep, MintStep, LookupStep, SignalStep
<1>6. ASSUME NEW c \in Calls,
             \/ Expire(c) \/ Renew(c) \/ InsertTemporary(c) \/ RevokeTemporary(c)
             \/ Insert(c) \/ Touch(c) \/ Revoke(c) \/ RevokeAll(c)
      PROVE  LeaseInv' /\ Evolve
  BY <1>6, ExpireStep, RenewStep, InsertTemporaryStep, RevokeTemporaryStep,
     InsertStep, TouchStep, RevokeStep, RevokeAllStep
<1>. QED
  BY <1>1, <1>2, <1>3, <1>4, <1>5, <1>6 DEF Next

\* The inductive invariant holds in every reachable state.
THEOREM LeasesInvariant == Spec => []LeaseInv
BY LeaseInit, LeaseStep, PTL DEF Spec

\* For any lifetimes and any interleaving of requests: a lease never outlives
\* the limit set when it was created, nor IdleTTL after its last renewal.
THEOREM LeasesBounded == Spec => []LeaseBounded
<1>1. LeaseInv => LeaseBounded
  <2>. SUFFICES ASSUME LeaseInv PROVE LeaseBounded
    OBVIOUS
  <2>1. ASSUME NEW c \in Calls,
               calls[c].at \in {"touch", "signal", "revoke"}
                 \/ (calls[c].at = "select" /\ calls[c].kind = "restart")
        PROVE  calls[c].session \in DOMAIN sessions
    <3>1. c \in Active
      BY <2>1 DEF Active, Idle
    <3>. QED
      BY <2>1, <3>1 DEF LeaseInv, CallOK
  <2>2. TypeOK
    BY <2>1 DEF TypeOK, LeaseInv, Typed
  <2>. QED
    BY <2>2 DEF LeaseBounded, LeaseInv, RowsOK
<1>. QED
  BY <1>1, LeasesInvariant, PTL

\* Only rows that createService inserted are ever open to every user.
THEOREM TemporaryStaysPrivate == Spec => []TemporaryNeverPublic
<1>1. LeaseInv => TemporaryNeverPublic
  BY DEF LeaseInv, RowsOK
<1>. QED
  BY <1>1, LeasesInvariant, PTL

\* A logout that has answered has ended its user's sessions on the temporary
\* services it found, also those inserted between its two statements.
THEOREM LogoutComplete == Spec => []LogoutEndsTemporary
<1>1. LeaseInv => LogoutEndsTemporary
  <2>. SUFFICES ASSUME LeaseInv,
                       NEW c \in Active, calls[c].kind = "logout", calls[c].at = "granted",
                       NEW s \in DOMAIN sessions,
                       sessions[s].user = calls[c].user, sessions[s].service \in calls[c].before,
                       services[sessions[s].service].born = "temporary"
                PROVE  ~services[sessions[s].service].enabled
    BY DEF LogoutEndsTemporary, Alive
  <2>1. Entitled(sessions[s].user, sessions[s].service)
    BY DEF LeaseInv, RowsOK
  <2>2. CallOK(calls[c])
    BY DEF LeaseInv
  <2>. QED
    BY <2>1, <2>2 DEF Entitled, CallOK
<1>. QED
  BY <1>1, LeasesInvariant, PTL

\* Nothing in flight brings back a revoked session or a withdrawn service.
THEOREM RevocationIsFinal == Spec => RevocationFinal
<1>1. Evolve => /\ \A s \in DOMAIN sessions : sessions[s].revoked => sessions'[s] = sessions[s]
                /\ \A v \in DOMAIN services : ~services[v].enabled => services'[v] = services[v]
  BY DEF Evolve
<1>. QED
  BY <1>1, LeaseStep, LeasesInvariant, PTL DEF Spec, RevocationFinal
=============================================================================

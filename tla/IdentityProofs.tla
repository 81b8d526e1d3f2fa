--------------------------- MODULE IdentityProofs ---------------------------
(***************************************************************************)
(* Proofs about signed requests, for any number of Agents, nonces and      *)
(* deliveries, any clocks and any limits.                                  *)
(***************************************************************************)
EXTENDS Identity, FiniteSetTheorems, TLAPS

\* A delivery is of a nonce.
LEMMA DeliveryOf == \A h \in Deliveries : h[1] \in Nonces
BY DEF Deliveries

\* A step of a handler keeps the handlers' type.
LEMMA HandlersTyped ==
  ASSUME handlers \in [Deliveries -> [at: Places, clock: Times]],
         NEW h \in Deliveries, NEW place \in Places, NEW t \in Times
  PROVE  /\ [handlers EXCEPT ![h].at = place] \in [Deliveries -> [at: Places, clock: Times]]
         /\ [handlers EXCEPT ![h] = [at |-> place, clock |-> t]]
              \in [Deliveries -> [at: Places, clock: Times]]
OBVIOUS

\* A step of a call keeps the calls' type.
LEMMA NoncesTyped ==
  ASSUME nonces \in [Nonces -> Nonce], NEW n, NEW r, n \in Nonces => r \in Nonce
  PROVE  [nonces EXCEPT ![n] = r] \in [Nonces -> Nonce]
BY Zenon

\* The updates the steps make keep the type of a call: its answer, ...
LEMMA ToldTyped ==
  ASSUME NEW r \in Nonce, NEW v \in {"done", "error", "timeout"}
  PROVE  [r EXCEPT !.told = v] \in Nonce
BY DEF Nonce

\* ... ConsumeNonce, ...
LEMMA ConsumedTyped == ASSUME NEW r \in Nonce PROVE [r EXCEPT !.consumed = TRUE] \in Nonce
BY Zenon DEF Nonce

\* ... the client's request for a challenge, ...
LEMMA AskedTyped ==
  ASSUME NEW r \in Nonce, NEW p \in Processes
  PROVE  [r EXCEPT !.stage = "asked", !.by = p] \in Nonce
BY Zenon DEF Nonce

\* ... Issue, ...
LEMMA DrawnTyped ==
  ASSUME NEW r \in Nonce, NEW t \in Times
  PROVE  [r EXCEPT !.stage = "drawn", !.drawn = t] \in Nonce
BY Zenon DEF Nonce

\* ... SaveNonce, ...
LEMMA SavedTyped ==
  ASSUME NEW r \in Nonce, NEW v \in {"saved", "unknown"}
  PROVE  [r EXCEPT !.stage = v] \in Nonce
BY DEF Nonce

\* ... and the signature.
LEMMA SignedTyped ==
  ASSUME NEW r \in Nonce, NEW i \in Int, NEW t \in Times
  PROVE  [r EXCEPT !.stage = "signed", !.issued = i, !.signedAt = t] \in Nonce
BY Zenon DEF Nonce

\* Nothing has happened at the start.
LEMMA IdentityInitTyped == Init => TypeOK
BY IdentityAssumption DEF Init, TypeOK, Idle, Nonce, Times, Places, Never

\* Every step keeps the type.
LEMMA IdentityTyped == TypeOK /\ [Next]_vars => TypeOK'
<1>. SUFFICES ASSUME TypeOK, [Next]_vars PROVE TypeOK'
  OBVIOUS
<1>. USE IdentityAssumption DEF TypeOK
<1>0. 0 \in Times /\ now \in Int
  BY DEF Times
<1>1. ASSUME NEW p \in Processes, Sign(p) PROVE TypeOK'
  <2>1. skew[p] \in Int
    BY DEF Clocks
  <2>2. now + skew[p] \in Int
    BY <2>1, <1>0
  <2>3. nonces' \in [Nonces -> Nonce]
    <3>1. clients[p].nonce \in Nonces => [nonces[clients[p].nonce] EXCEPT !.stage = "signed", !.issued = now + skew[p], !.signedAt = now] \in Nonce
      BY Zenon, <2>2, SignedTyped
    <3>2. nonces' = [nonces EXCEPT ![clients[p].nonce] = [nonces[clients[p].nonce] EXCEPT !.stage = "signed", !.issued = now + skew[p], !.signedAt = now]]
      BY Zenon, <1>1 DEF Sign
    <3>. QED
      BY <3>1, <3>2, NoncesTyped
  <2>4. clients' \in [Processes -> [at: {"idle", "challenge", "await"}, nonce: Nonces \cup {NoNonce}]]
    BY <1>1 DEF Sign, Sent
  <2>. QED
    BY <1>1, <2>3, <2>4 DEF Sign
<1>2. ASSUME NEW p \in Processes, GiveUp(p) PROVE TypeOK'
  <2>1. nonces' \in [Nonces -> Nonce]
    <3>1. clients[p].nonce \in Nonces => [nonces[clients[p].nonce] EXCEPT !.told = "timeout"] \in Nonce
      BY Zenon, ToldTyped
    <3>2. nonces' = [nonces EXCEPT ![clients[p].nonce] = [nonces[clients[p].nonce] EXCEPT !.told = "timeout"]]
      BY <1>2 DEF GiveUp
    <3>. QED
      BY <3>1, <3>2, NoncesTyped
  <2>. QED
    BY <1>2, <2>1 DEF GiveUp, Idle
<1>3. ASSUME NEW p \in Processes, NEW n \in Nonces, Ask(p, n) PROVE TypeOK'
  <2>1. nonces' \in [Nonces -> Nonce]
    <3>1. n \in Nonces => [nonces[n] EXCEPT !.stage = "asked", !.by = p] \in Nonce
      BY Zenon, AskedTyped
    <3>2. nonces' = [nonces EXCEPT ![n] = [nonces[n] EXCEPT !.stage = "asked", !.by = p]]
      BY Zenon, <1>3 DEF Ask
    <3>. QED
      BY <3>1, <3>2, NoncesTyped
  <2>. QED
    BY <1>3, <2>1 DEF Ask
<1>4. ASSUME NEW p \in Processes, NEW c \in Copies, Receive(p, c) PROVE TypeOK'
  <2>1. nonces' \in [Nonces -> Nonce]
    <3>1. PICK v \in {"done", "error"} : nonces' = [nonces EXCEPT ![clients[p].nonce].told = v]
      BY Zenon, <1>4 DEF Receive
    <3>2. clients[p].nonce \in Nonces => [nonces[clients[p].nonce] EXCEPT !.told = v] \in Nonce
      BY Zenon, ToldTyped
    <3>. QED
      BY <3>1, <3>2, NoncesTyped
  <2>. QED
    BY <1>4, <2>1 DEF Receive, Idle
<1>5. ASSUME NEW n \in Nonces, Issue(n) PROVE TypeOK'
  <2>1. nonces' \in [Nonces -> Nonce]
    <3>1. n \in Nonces => [nonces[n] EXCEPT !.stage = "drawn", !.drawn = now] \in Nonce
      BY Zenon, DrawnTyped
    <3>2. nonces' = [nonces EXCEPT ![n] = [nonces[n] EXCEPT !.stage = "drawn", !.drawn = now]]
      BY Zenon, <1>5 DEF Issue
    <3>. QED
      BY <3>1, <3>2, NoncesTyped
  <2>. QED
    BY <1>5, <2>1 DEF Issue
<1>6. ASSUME NEW n \in Nonces, SaveNonce(n) PROVE TypeOK'
  <2>1. nonces' \in [Nonces -> Nonce]
    <3>1. PICK v \in {"saved", "unknown"} : nonces' = [nonces EXCEPT ![n].stage = v]
      BY Zenon, <1>6 DEF SaveNonce
    <3>2. [nonces[n] EXCEPT !.stage = v] \in Nonce
      BY Zenon, SavedTyped
    <3>. QED
      BY <3>1, <3>2, NoncesTyped
  <2>. QED
    BY <1>6, <2>1 DEF SaveNonce
<1>7. ASSUME NEW h \in Deliveries, NEW ok \in BOOLEAN, Verify(h, ok) PROVE TypeOK'
  <2>1. PICK place \in {"verified", "refused"} : handlers' = [handlers EXCEPT ![h].at = place]
    BY Zenon, <1>7 DEF Verify, Moved
  <2>. QED
    BY Zenon, <1>7, <2>1, <1>0, HandlersTyped DEF Verify, Places
<1>8. ASSUME NEW h \in Deliveries, ReadClock(h) PROVE TypeOK'
  <2>1. PICK place \in {"consume", "touch"} :
          handlers' = [handlers EXCEPT ![h] = [at |-> place, clock |-> now]]
    BY <1>8 DEF ReadClock
  <2>. QED
    BY Zenon, <1>8, <2>1, HandlersTyped DEF ReadClock, Places
<1>9. ASSUME NEW h \in Deliveries, NEW ok \in BOOLEAN, ConsumeNonce(h, ok) PROVE TypeOK'
  <2>1. handlers' \in [Deliveries -> [at: Places, clock: Times]]
    <3>1. \/ handlers' = [handlers EXCEPT ![h].at = "accepted"]
          \/ handlers' = [handlers EXCEPT ![h] = [at |-> "refused", clock |-> 0]]
      BY <1>9 DEF ConsumeNonce, Moved, Answered
    <3>2. "accepted" \in Places /\ "refused" \in Places
      BY DEF Places
    <3>. QED
      BY <3>1, <3>2, <1>0, HandlersTyped
  <2>2. nonces' \in [Nonces -> Nonce]
    <3>1. h[1] \in Nonces /\ [nonces[h[1]] EXCEPT !.consumed = TRUE] \in Nonce
      BY DeliveryOf, ConsumedTyped
    <3>2. \/ nonces' = nonces
          \/ nonces' = [nonces EXCEPT ![h[1]] = [nonces[h[1]] EXCEPT !.consumed = TRUE]]
      BY <1>9 DEF ConsumeNonce
    <3>. QED
      BY <3>1, <3>2, NoncesTyped
  <2>. QED
    BY <1>9, <2>1, <2>2 DEF ConsumeNonce
<1>10. ASSUME NEW h \in Deliveries, NEW ok \in BOOLEAN, Touch(h, ok) PROVE TypeOK'
  <2>1. handlers' \in [Deliveries -> [at: Places, clock: Times]]
    <3>1. \/ handlers' = [handlers EXCEPT ![h].at = "apply"]
          \/ handlers' = [handlers EXCEPT ![h] = [at |-> "failed", clock |-> 0]]
      BY <1>10 DEF Touch, Moved, Answered
    <3>2. "apply" \in Places /\ "failed" \in Places
      BY DEF Places
    <3>. QED
      BY SMTT(30), <3>1, <3>2, <1>0, HandlersTyped
  <2>2. seen' \in [DOMAIN Holder -> Times \cup {Never}]
    BY <1>10 DEF Touch, SeenAt
  <2>. QED
    BY <1>10, <2>1, <2>2 DEF Touch
<1>11. ASSUME NEW h \in Deliveries, NEW ok \in BOOLEAN, Apply(h, ok) PROVE TypeOK'
  <2>1. handlers' \in [Deliveries -> [at: Places, clock: Times]]
    BY Zenon, <1>11, <1>0, HandlersTyped DEF Apply, Answered, Places
  <2>. QED
    BY <1>11, <2>1 DEF Apply
<1>12. ASSUME NEW h \in Deliveries, Undecodable(h) PROVE TypeOK'
  <2>1. handlers' \in [Deliveries -> [at: Places, clock: Times]]
    BY Zenon, <1>12, <1>0, HandlersTyped DEF Undecodable, Answered, Places
  <2>. QED
    BY <1>12, <2>1 DEF Undecodable
<1>13. CASE Tick
  BY <1>13 DEF Tick, Times
<1>14. CASE UNCHANGED vars
  BY <1>14 DEF vars
<1>. QED
  BY <1>1, <1>2, <1>3, <1>4, <1>5, <1>6, <1>7, <1>8, <1>9, <1>10, <1>11, <1>12, <1>13, <1>14 DEF Next

\* Every call, handler and table row keeps its shape, whatever the clocks do.
THEOREM IdentityTypeCorrect == Spec => []TypeOK
BY IdentityInitTyped, IdentityTyped, PTL DEF Spec
-----------------------------------------------------------------------------
(***************************************************************************)
(* NonceSpentOnce and AcceptedFresh are not inductive.  It must be known   *)
(* that a nonce is drawn before its request is signed and the request is   *)
(* signed before it is delivered, so that every clock its handlers read    *)
(* comes later; and that a handler past ConsumeNonce left consumed_at set. *)
(***************************************************************************)
CallOrdered(n) ==
  /\ nonces[n].stage \in {"drawn", "saved", "signed"} => nonces[n].drawn <= now
  /\ nonces[n].stage = "signed" =>
       nonces[n].drawn <= nonces[n].signedAt /\ nonces[n].signedAt <= now

HandlerOrdered(h) ==
  handlers[h].at # "none" =>
    /\ nonces[h[1]].stage = "signed"
    /\ handlers[h].at \in {"verified", "consume", "accepted"} => Genuine(h[1])
    /\ handlers[h].at = "consume" => nonces[h[1]].signedAt <= handlers[h].clock
    /\ Authenticated(h) => nonces[h[1]].consumed = TRUE

IdentityInv ==
  /\ \A n \in Nonces : CallOrdered(n)
  /\ \A h \in Deliveries : HandlerOrdered(h)
  /\ NonceSpentOnce
  /\ AcceptedFresh

\* It holds at the start: no call has been made.
LEMMA IdentityInitInv == Init => IdentityInv
<1>. SUFFICES ASSUME Init PROVE IdentityInv
  OBVIOUS
<1>1. ASSUME NEW n \in Nonces PROVE CallOrdered(n)
  BY DEF Init, CallOrdered
<1>2. ASSUME NEW h \in Deliveries PROVE handlers[h].at = "none"
  BY DEF Init
<1>. QED
  BY <1>1, <1>2 DEF IdentityInv, HandlerOrdered, NonceSpentOnce, AcceptedFresh, Authenticated

\* A step that changes one call, which has not been signed yet, and no handler: only
\* the order of that call's own times is at stake.
LEMMA UnsignedCallStep ==
  ASSUME TypeOK, IdentityInv, NEW n \in Nonces, nonces[n].stage # "signed",
         \A k \in Nonces : k # n => nonces'[k] = nonces[k],
         CallOrdered(n)', UNCHANGED <<now, handlers>>
  PROVE  IdentityInv'
<1>1. ASSUME NEW k \in Nonces PROVE CallOrdered(k)'
  BY DEF IdentityInv, CallOrdered
<1>2. ASSUME NEW h \in Deliveries, handlers[h].at # "none"
      PROVE  nonces'[h[1]] = nonces[h[1]] /\ h[1] \in Nonces
  BY <1>2, DeliveryOf DEF IdentityInv, HandlerOrdered
<1>3. ASSUME NEW h \in Deliveries PROVE HandlerOrdered(h)'
  BY <1>2 DEF IdentityInv, HandlerOrdered, Genuine, ClaimedId, Authenticated
<1>4. NonceSpentOnce'
  BY DEF IdentityInv, NonceSpentOnce, Authenticated
<1>5. AcceptedFresh'
  BY <1>2 DEF IdentityInv, AcceptedFresh, ClaimedId
<1>. QED
  BY <1>1, <1>3, <1>4, <1>5 DEF IdentityInv

\* A step that changes only what a client was told of its call.
LEMMA ToldStep ==
  ASSUME TypeOK, IdentityInv, UNCHANGED <<now, handlers>>, NEW n, NEW v,
         nonces' = [nonces EXCEPT ![n].told = v]
  PROVE  IdentityInv'
<1>1. ASSUME NEW k \in Nonces
      PROVE  /\ nonces'[k].stage = nonces[k].stage /\ nonces'[k].by = nonces[k].by
             /\ nonces'[k].drawn = nonces[k].drawn /\ nonces'[k].signedAt = nonces[k].signedAt
             /\ nonces'[k].consumed = nonces[k].consumed
  BY DEF TypeOK, Nonce
<1>2. ASSUME NEW k \in Nonces PROVE CallOrdered(k)'
  BY <1>1 DEF IdentityInv, CallOrdered
<1>3. ASSUME NEW h \in Deliveries PROVE HandlerOrdered(h)'
  BY <1>1, DeliveryOf DEF IdentityInv, HandlerOrdered, Genuine, ClaimedId, Authenticated
<1>4. NonceSpentOnce'
  BY DEF IdentityInv, NonceSpentOnce, Authenticated
<1>5. AcceptedFresh'
  BY <1>1, DeliveryOf DEF IdentityInv, AcceptedFresh, ClaimedId
<1>. QED
  BY <1>2, <1>3, <1>4, <1>5 DEF IdentityInv

\* A step of one handler that is not the one by which ConsumeNonce accepts.
LEMMA HandlerStep ==
  ASSUME TypeOK, IdentityInv, NEW h \in Deliveries, UNCHANGED <<now, nonces>>,
         \A g \in Deliveries : g # h => handlers'[g] = handlers[g],
         HandlerOrdered(h)', Authenticated(h)' => Authenticated(h),
         handlers'[h].at # "accepted"
  PROVE  IdentityInv'
<1>1. ASSUME NEW n \in Nonces PROVE CallOrdered(n)'
  BY DEF IdentityInv, CallOrdered
<1>2. ASSUME NEW g \in Deliveries PROVE HandlerOrdered(g)'
  BY DEF IdentityInv, HandlerOrdered, Genuine, ClaimedId, Authenticated
<1>3. NonceSpentOnce'
  BY DEF IdentityInv, NonceSpentOnce, Authenticated
<1>4. AcceptedFresh'
  BY DEF IdentityInv, AcceptedFresh, ClaimedId
<1>. QED
  BY <1>1, <1>2, <1>3, <1>4 DEF IdentityInv

\* ConsumeNonce accepts: the nonce was not spent, so no other delivery has passed, and
\* its lifetime began before the signature.
LEMMA AcceptStep ==
  ASSUME TypeOK, IdentityInv, NEW h \in Deliveries, handlers[h].at = "consume",
         Spendable(h), UNCHANGED now,
         nonces' = [nonces EXCEPT ![h[1]].consumed = TRUE],
         handlers' = [handlers EXCEPT ![h].at = "accepted"]
  PROVE  IdentityInv'
<1>1. h[1] \in Nonces
  BY DeliveryOf
<1>2. ASSUME NEW k \in Nonces
      PROVE  /\ nonces'[k].stage = nonces[k].stage /\ nonces'[k].by = nonces[k].by
             /\ nonces'[k].drawn = nonces[k].drawn /\ nonces'[k].signedAt = nonces[k].signedAt
             /\ nonces[k].consumed = TRUE => nonces'[k].consumed = TRUE
  BY DEF TypeOK, Nonce
<1>3. nonces'[h[1]].consumed = TRUE
  BY <1>1 DEF TypeOK, Nonce
<1>4. handlers'[h].at = "accepted" /\ handlers'[h].clock = handlers[h].clock
  BY DEF TypeOK
<1>5. ASSUME NEW g \in Deliveries, g # h PROVE handlers'[g] = handlers[g]
  BY <1>5 DEF TypeOK
<1>6. Genuine(h[1]) /\ nonces[h[1]].signedAt <= handlers[h].clock /\ nonces[h[1]].stage = "signed"
  BY DEF IdentityInv, HandlerOrdered
<1>7. ASSUME NEW n \in Nonces PROVE CallOrdered(n)'
  BY <1>2 DEF IdentityInv, CallOrdered
<1>8. ASSUME NEW g \in Deliveries PROVE HandlerOrdered(g)'
  <2>1. CASE g = h
    BY <2>1, <1>1, <1>2, <1>3, <1>4, <1>6 DEF HandlerOrdered, Genuine, ClaimedId
  <2>2. CASE g # h
    <3>1. g[1] \in Nonces /\ handlers'[g] = handlers[g] /\ HandlerOrdered(g)
      BY <2>2, <1>5, DeliveryOf DEF IdentityInv
    <3>2. /\ nonces'[g[1]].stage = nonces[g[1]].stage /\ nonces'[g[1]].by = nonces[g[1]].by
          /\ nonces'[g[1]].signedAt = nonces[g[1]].signedAt
          /\ nonces[g[1]].consumed = TRUE => nonces'[g[1]].consumed = TRUE
      BY <3>1, <1>2
    <3>3. Genuine(g[1]) => Genuine(g[1])'
      BY Zenon, <3>2 DEF Genuine, ClaimedId
    <3>. QED
      BY Zenon, <3>1, <3>2, <3>3 DEF HandlerOrdered, Authenticated
  <2>. QED
    BY <2>1, <2>2
<1>9. ASSUME NEW g \in Deliveries, g[1] = h[1] PROVE ~Authenticated(g)
  <2>1. ~(nonces[h[1]].consumed = TRUE)
    BY Zenon DEF Spendable
  <2>. QED
    BY <1>9, <2>1 DEF IdentityInv, HandlerOrdered, Authenticated
<1>10. NonceSpentOnce'
  BY <1>5, <1>9 DEF IdentityInv, NonceSpentOnce, Authenticated
<1>11. AcceptedFresh'
  <2>1. handlers[h].clock < nonces[h[1]].signedAt + ChallengeTTL
    <3>1. nonces[h[1]].drawn <= nonces[h[1]].signedAt
      BY <1>1, <1>6 DEF IdentityInv, CallOrdered
    <3>2. nonces[h[1]].drawn \in Int /\ nonces[h[1]].signedAt \in Int /\ handlers[h].clock \in Int
      BY <1>1 DEF TypeOK, Nonce, Times
    <3>. QED
      BY <3>1, <3>2, IdentityAssumption DEF Spendable
  <2>2. nonces'[h[1]].signedAt = nonces[h[1]].signedAt /\ nonces'[h[1]].by = nonces[h[1]].by
    BY <1>1, <1>2
  <2>3. Holder[ClaimedId(h[1])'] = nonces'[h[1]].by
    BY <1>6, <2>2 DEF Genuine, ClaimedId
  <2>4. ASSUME NEW g \in Deliveries, g # h, handlers'[g].at = "accepted"
        PROVE  /\ nonces'[g[1]].signedAt <= handlers'[g].clock
               /\ handlers'[g].clock < nonces'[g[1]].signedAt + ChallengeTTL
               /\ Holder[ClaimedId(g[1])'] = nonces'[g[1]].by
    <3>1. g[1] \in Nonces
      BY DeliveryOf
    <3>2. nonces'[g[1]].signedAt = nonces[g[1]].signedAt /\ nonces'[g[1]].by = nonces[g[1]].by
      BY <3>1, <1>2
    <3>3. handlers'[g] = handlers[g]
      BY <2>4, <1>5
    <3>. QED
      BY Zenon, <2>4, <3>2, <3>3 DEF IdentityInv, AcceptedFresh, ClaimedId
  <2>. QED
    BY <2>1, <2>2, <2>3, <2>4, <1>4, <1>6 DEF AcceptedFresh
<1>. QED
  BY <1>7, <1>8, <1>10, <1>11 DEF IdentityInv

\* Every step keeps IdentityInv.
LEMMA IdentityStep == TypeOK /\ IdentityInv /\ [Next]_vars => IdentityInv'
<1>. SUFFICES ASSUME TypeOK, IdentityInv, [Next]_vars PROVE IdentityInv'
  OBVIOUS
<1>0. /\ now \in Int
      /\ \A n \in Nonces : nonces[n].drawn \in Int /\ nonces[n].signedAt \in Int
  BY DEF TypeOK, Times, Nonce
<1>1. ASSUME NEW p \in Processes, Sign(p) PROVE IdentityInv'
  <2>0. PICK n : n = clients[p].nonce
    OBVIOUS
  <2>1. CASE n \in Nonces
    <3>1. nonces[n].stage = "saved" /\ UNCHANGED <<now, handlers>>
      BY <2>0, <1>1 DEF Sign
    <3>2. nonces'[n].drawn = nonces[n].drawn /\ nonces'[n].signedAt = now
      BY <2>0, <1>1, <2>1 DEF Sign, TypeOK, Nonce
    <3>3. CallOrdered(n)'
      BY <2>1, <3>1, <3>2, <1>0 DEF CallOrdered, IdentityInv
    <3>4. \A k \in Nonces : k # n => nonces'[k] = nonces[k]
      BY <2>0, <1>1 DEF Sign, TypeOK
    <3>. QED
      BY <2>1, <3>1, <3>3, <3>4, UnsignedCallStep
  <2>2. CASE n \notin Nonces
    <3>1. nonces' = nonces
      BY <2>0, <1>1, <2>2 DEF Sign, TypeOK
    <3>2. UNCHANGED <<now, handlers>>
      BY <1>1 DEF Sign
    <3>. QED
      BY <3>1, <3>2 DEF IdentityInv, CallOrdered, HandlerOrdered, NonceSpentOnce, AcceptedFresh,
                        Genuine, ClaimedId, Authenticated
  <2>. QED
    BY <2>1, <2>2
<1>2. ASSUME NEW p \in Processes, GiveUp(p) PROVE IdentityInv'
  BY Zenon, <1>2, ToldStep DEF GiveUp
<1>3. ASSUME NEW p \in Processes, NEW n \in Nonces, Ask(p, n) PROVE IdentityInv'
  <2>1. nonces'[n].stage = "asked" /\ UNCHANGED <<now, handlers>> /\ nonces[n].stage = "free"
    BY <1>3 DEF Ask, TypeOK, Nonce
  <2>2. \A k \in Nonces : k # n => nonces'[k] = nonces[k]
    BY <1>3 DEF Ask, TypeOK
  <2>3. CallOrdered(n)'
    BY <2>1 DEF CallOrdered
  <2>. QED
    BY <2>1, <2>2, <2>3, UnsignedCallStep
<1>4. ASSUME NEW p \in Processes, NEW c \in Copies, Receive(p, c) PROVE IdentityInv'
  BY Zenon, <1>4, ToldStep DEF Receive
<1>5. ASSUME NEW n \in Nonces, Issue(n) PROVE IdentityInv'
  <2>1. /\ nonces'[n].stage = "drawn" /\ nonces'[n].drawn = now
        /\ UNCHANGED <<now, handlers>> /\ nonces[n].stage = "asked"
    BY <1>5 DEF Issue, TypeOK, Nonce
  <2>2. \A k \in Nonces : k # n => nonces'[k] = nonces[k]
    BY <1>5 DEF Issue, TypeOK
  <2>3. CallOrdered(n)'
    BY <2>1, <1>0 DEF CallOrdered
  <2>. QED
    BY <2>1, <2>2, <2>3, UnsignedCallStep
<1>6. ASSUME NEW n \in Nonces, SaveNonce(n) PROVE IdentityInv'
  <2>1. /\ nonces'[n].stage \in {"saved", "unknown"} /\ nonces'[n].drawn = nonces[n].drawn
        /\ UNCHANGED <<now, handlers>> /\ nonces[n].stage = "drawn"
    BY <1>6 DEF SaveNonce, TypeOK, Nonce
  <2>2. \A k \in Nonces : k # n => nonces'[k] = nonces[k]
    BY <1>6 DEF SaveNonce, TypeOK
  <2>3. CallOrdered(n)'
    BY <2>1 DEF CallOrdered, IdentityInv
  <2>. QED
    BY <2>1, <2>2, <2>3, UnsignedCallStep
<1>7. ASSUME NEW h \in Deliveries, NEW ok \in BOOLEAN, Verify(h, ok) PROVE IdentityInv'
  <2>1. /\ handlers'[h].at \in {"verified", "refused"} /\ UNCHANGED <<now, nonces>>
        /\ handlers'[h].at = "verified" => Genuine(h[1])
        /\ nonces[h[1]].stage = "signed"
        /\ \A g \in Deliveries : g # h => handlers'[g] = handlers[g]
    BY <1>7 DEF Verify, Moved, TypeOK
  <2>2. HandlerOrdered(h)' /\ ~Authenticated(h)'
    BY <2>1 DEF HandlerOrdered, Authenticated, Genuine, ClaimedId
  <2>. QED
    BY <2>1, <2>2, HandlerStep
<1>8. ASSUME NEW h \in Deliveries, ReadClock(h) PROVE IdentityInv'
  <2>1. /\ UNCHANGED <<now, nonces>>
        /\ handlers'[h].clock = now
        /\ \/ handlers[h].at = "verified" /\ handlers'[h].at = "consume"
           \/ handlers[h].at = "accepted" /\ handlers'[h].at = "touch"
        /\ \A g \in Deliveries : g # h => handlers'[g] = handlers[g]
    BY <1>8 DEF ReadClock, TypeOK
  <2>2. nonces[h[1]].stage = "signed" /\ HandlerOrdered(h)
    BY <2>1 DEF IdentityInv, HandlerOrdered
  <2>3. nonces[h[1]].signedAt <= now
    BY <2>2, DeliveryOf DEF IdentityInv, CallOrdered
  <2>4. HandlerOrdered(h)' /\ (Authenticated(h)' => Authenticated(h))
    BY <2>1, <2>2, <2>3 DEF HandlerOrdered, Authenticated, Genuine, ClaimedId
  <2>. QED
    BY <2>1, <2>4, HandlerStep
<1>9. ASSUME NEW h \in Deliveries, NEW ok \in BOOLEAN, ConsumeNonce(h, ok) PROVE IdentityInv'
  <2>1. CASE ok /\ Spendable(h)
    BY <1>9, <2>1, AcceptStep DEF ConsumeNonce, Moved
  <2>2. CASE ~(ok /\ Spendable(h))
    <3>1. handlers' = [handlers EXCEPT ![h] = [at |-> "refused", clock |-> 0]]
      BY <1>9, <2>2 DEF ConsumeNonce, Answered
    <3>2. UNCHANGED <<now, nonces>> /\ handlers[h].at = "consume"
      BY <1>9, <2>2 DEF ConsumeNonce
    <3>3. /\ handlers'[h].at = "refused"
          /\ \A g \in Deliveries : g # h => handlers'[g] = handlers[g]
      BY <3>1 DEF TypeOK
    <3>4. HandlerOrdered(h)' /\ ~Authenticated(h)'
      BY <3>2, <3>3 DEF IdentityInv, HandlerOrdered, Authenticated
    <3>. QED
      BY <3>2, <3>3, <3>4, HandlerStep
  <2>. QED
    BY <2>1, <2>2
<1>10. ASSUME NEW h \in Deliveries, NEW ok \in BOOLEAN,
              Touch(h, ok) \/ Apply(h, ok) \/ Undecodable(h)
       PROVE  IdentityInv'
  <2>1. /\ UNCHANGED <<now, nonces>> /\ handlers[h].at \in {"accepted", "touch", "apply"}
        /\ handlers'[h].at \in {"apply", "done", "failed"}
        /\ \A g \in Deliveries : g # h => handlers'[g] = handlers[g]
    BY <1>10 DEF Touch, Apply, Undecodable, Moved, Answered, TypeOK
  <2>2. HandlerOrdered(h)' /\ Authenticated(h)
    BY <2>1 DEF IdentityInv, HandlerOrdered, Authenticated
  <2>. QED
    BY <2>1, <2>2, HandlerStep
<1>11. CASE Tick
  <2>1. now' = now + 1 /\ UNCHANGED <<nonces, handlers>>
    BY <1>11 DEF Tick
  <2>2. ASSUME NEW n \in Nonces PROVE CallOrdered(n)'
    BY <2>1, <1>0 DEF IdentityInv, CallOrdered
  <2>. QED
    BY <2>1, <2>2 DEF IdentityInv, HandlerOrdered, NonceSpentOnce, AcceptedFresh, Genuine,
                      ClaimedId, Authenticated
<1>12. CASE UNCHANGED vars
  BY <1>12 DEF vars, IdentityInv, CallOrdered, HandlerOrdered, NonceSpentOnce, AcceptedFresh,
               Genuine, ClaimedId, Authenticated
<1>. QED
  BY Zenon, <1>1, <1>2, <1>3, <1>4, <1>5, <1>6, <1>7, <1>8, <1>9, <1>10, <1>11, <1>12 DEF Next

\* The inductive invariant holds throughout.
THEOREM IdentityInvariant == Spec => []IdentityInv
BY IdentityInitInv, IdentityStep, IdentityTypeCorrect, PTL DEF Spec

\* A signed request takes effect once, for any number of deliveries: at most one
\* handler passes the UPDATE of ConsumeNonce.
THEOREM NonceSpentOnceAlways == Spec => []NonceSpentOnce
<1>1. IdentityInv => NonceSpentOnce
  BY DEF IdentityInv
<1>. QED
  BY <1>1, IdentityInvariant, PTL

\* Whatever the Agents' clocks show, a nonce is spent less than ChallengeTTL after the
\* signature, for a request the holder of the key made.
THEOREM AcceptedFreshAlways == Spec => []AcceptedFresh
<1>1. IdentityInv => AcceptedFresh
  BY DEF IdentityInv
<1>. QED
  BY <1>1, IdentityInvariant, PTL
-----------------------------------------------------------------------------
(***************************************************************************)
(* OnlyOverlapRewinds.  Unless its client gave up on a call or a request   *)
(* was delivered twice, a process has one request under way: the one its   *)
(* client awaits.  So nobody else touches its row between the moment a     *)
(* handler reads the clock for Touch and the moment it stores it.          *)
(***************************************************************************)
UnderWay(h) == handlers[h].at \in {"verified", "consume", "accepted", "touch", "apply"}

Answer(h) == handlers[h].at \in {"done", "failed", "refused"}

\* The deliveries of a request that have arrived.
Arrived(n) == {c \in Copies : handlers[<<n, c>>].at # "none"}

Twice(n) == \E c, d \in Arrived(n) : c # d

Disturbed(p) == \E n \in Nonces : nonces[n].by = p /\ (nonces[n].told = "timeout" \/ Twice(n))

\* The call a client makes is its own, and unanswered.
ClientOK(p) ==
  clients[p].at # "idle" =>
    LET n == clients[p].nonce IN
    /\ n \in Nonces /\ nonces[n].by = p /\ nonces[n].told = "nothing" /\ nonces[n].stage # "free"
    /\ clients[p].at = "await" <=> nonces[n].stage = "signed"

\* A signed request is awaited, or given up, or one of its handlers has answered.
CallOK(n) ==
  /\ nonces[n].stage = "free" => nonces[n].told = "nothing"
  /\ nonces[n].stage = "signed" /\ nonces[n].told = "nothing" =>
       nonces[n].by \in Processes /\ clients[nonces[n].by] = [at |-> "await", nonce |-> n]
  /\ nonces[n].stage = "signed" /\ nonces[n].told \in {"done", "error"} =>
       \E c \in Copies : Answer(<<n, c>>)
  /\ IsFiniteSet(Arrived(n))

\* Clocks are read before now, and the one Touch is about to store is not behind.
HandlerOK(h) ==
  /\ handlers[h].clock <= now
  /\ UnderWay(h) => Genuine(h[1])
  /\ handlers[h].at = "touch" =>
       Disturbed(nonces[h[1]].by) \/ seen[ClaimedId(h[1])] <= handlers[h].clock

RewindInv ==
  /\ \A i \in DOMAIN Holder : seen[i] <= now
  /\ \A p \in Processes : ClientOK(p)
  /\ \A n \in Nonces : CallOK(n)
  /\ \A h \in Deliveries : HandlerOK(h)

\* Two deliveries that arrived are more than one.
LEMMA TwiceCounts ==
  ASSUME NEW n, IsFiniteSet(Arrived(n)), Twice(n)
  PROVE  Cardinality(Arrived(n)) > 1
<1>1. PICK c, d \in Arrived(n) : c # d
  BY DEF Twice
<1>2. /\ IsFiniteSet(Arrived(n) \ {c}) /\ Cardinality(Arrived(n) \ {c}) = Cardinality(Arrived(n)) - 1
  BY <1>1, FS_RemoveElement
<1>3. d \in Arrived(n) \ {c}
  BY <1>1
<1>4. /\ IsFiniteSet((Arrived(n) \ {c}) \ {d})
      /\ Cardinality((Arrived(n) \ {c}) \ {d}) = Cardinality(Arrived(n) \ {c}) - 1
  BY <1>2, <1>3, FS_RemoveElement
<1>5. Cardinality((Arrived(n) \ {c}) \ {d}) \in Nat /\ Cardinality(Arrived(n) \ {c}) \in Nat
      /\ Cardinality(Arrived(n)) \in Nat
  BY <1>2, <1>4, FS_CardinalityType
<1>. QED
  BY <1>2, <1>4, <1>5

\* The records of the state, by type.
LEMMA Parts ==
  ASSUME TypeOK
  PROVE  /\ now \in Nat
         /\ \A h \in Deliveries : handlers[h].clock \in Nat /\ handlers[h].at \in Places
         /\ \A i \in DOMAIN Holder : seen[i] \in Int
BY IdentityAssumption DEF TypeOK, Times, Never

\* A delivery is a pair.
LEMMA DeliveryPair ==
  /\ \A h \in Deliveries : h = <<h[1], h[2]>> /\ h[1] \in Nonces /\ h[2] \in Copies
  /\ \A n \in Nonces, c \in Copies : <<n, c>> \in Deliveries /\ <<n, c>>[1] = n /\ <<n, c>>[2] = c
BY DEF Deliveries

\* A process that is not disturbed has one request under way.
LEMMA OneUnderWay ==
  ASSUME TypeOK, IdentityInv, RewindInv, NEW h \in Deliveries, NEW g \in Deliveries,
         UnderWay(h), UnderWay(g), nonces[h[1]].by = nonces[g[1]].by
  PROVE  h = g \/ Disturbed(nonces[h[1]].by)
<1>. SUFFICES ASSUME ~Disturbed(nonces[h[1]].by) PROVE h = g
  OBVIOUS
<1>1. ASSUME NEW k \in Deliveries, UnderWay(k), nonces[k[1]].by = nonces[h[1]].by
      PROVE  clients[nonces[k[1]].by] = [at |-> "await", nonce |-> k[1]] /\ ~Twice(k[1])
  <2>1. /\ k[1] \in Nonces /\ k[2] \in Copies /\ k = <<k[1], k[2]>> /\ CallOK(k[1])
        /\ nonces[k[1]].told \in {"nothing", "done", "error", "timeout"}
    BY DeliveryPair DEF RewindInv, TypeOK, Nonce
  <2>2. nonces[k[1]].stage = "signed"
    BY <1>1 DEF IdentityInv, HandlerOrdered, UnderWay
  <2>3. nonces[k[1]].told # "timeout" /\ ~Twice(k[1])
    BY <1>1, <2>1 DEF Disturbed
  <2>4. ASSUME nonces[k[1]].told \in {"done", "error"} PROVE FALSE
    <3>1. PICK c \in Copies : Answer(<<k[1], c>>)
      BY <2>1, <2>2, <2>4 DEF CallOK
    <3>2. c \in Arrived(k[1]) /\ k[2] \in Arrived(k[1]) /\ c # k[2]
      BY <1>1, <2>1, <3>1 DEF Arrived, Answer, UnderWay
    <3>. QED
      BY <2>3, <3>2 DEF Twice
  <2>. QED
    BY <2>1, <2>2, <2>3, <2>4 DEF CallOK
<1>2. h[1] = g[1]
  <2>1. /\ clients[nonces[h[1]].by] = [at |-> "await", nonce |-> h[1]]
        /\ clients[nonces[g[1]].by] = [at |-> "await", nonce |-> g[1]]
    BY Zenon, <1>1
  <2>. QED
    BY <2>1
<1>3. h[2] = g[2]
  <2>1. h[2] \in Arrived(h[1]) /\ g[2] \in Arrived(h[1])
    BY <1>2, DeliveryPair DEF Arrived, UnderWay
  <2>. QED
    BY Zenon, <1>1, <2>1 DEF Twice
<1>. QED
  BY <1>2, <1>3, DeliveryPair

\* Whoever was disturbed stays so: calls keep their client, timeouts and deliveries stay.
Lasting(n) ==
  /\ nonces[n].stage # "free" => nonces'[n].by = nonces[n].by
  /\ nonces[n].told = "timeout" => nonces'[n].told = "timeout"

\* A client that gave up or a request delivered twice is not forgotten.
LEMMA DisturbedStays ==
  ASSUME TypeOK, IdentityInv, RewindInv, \A n \in Nonces : Lasting(n),
         \A h \in Deliveries : handlers[h].at # "none" => handlers'[h].at # "none",
         NEW p, Disturbed(p)
  PROVE  Disturbed(p)'
<1>1. PICK n \in Nonces : nonces[n].by = p /\ (nonces[n].told = "timeout" \/ Twice(n))
  BY DEF Disturbed
<1>2. Arrived(n) \subseteq Arrived(n)'
  BY DeliveryPair DEF Arrived
<1>3. Twice(n) => Twice(n)'
  BY <1>2 DEF Twice
<1>4. nonces[n].stage # "free"
  <2>1. CASE nonces[n].told = "timeout"
    BY Zenon, <2>1 DEF RewindInv, CallOK
  <2>2. CASE Twice(n)
    <3>1. PICK c \in Copies : handlers[<<n, c>>].at # "none"
      BY <2>2 DEF Twice, Arrived
    <3>2. HandlerOrdered(<<n, c>>) /\ <<n, c>>[1] = n
      BY DeliveryPair DEF IdentityInv
    <3>. QED
      BY <3>1, <3>2 DEF HandlerOrdered
  <2>. QED
    BY <1>1, <2>1, <2>2
<1>5. nonces'[n].by = p /\ (nonces'[n].told = "timeout" \/ Twice(n)')
  BY <1>1, <1>3, <1>4 DEF Lasting
<1>. QED
  BY <1>5 DEF Disturbed

\* A step of a call leaves the handlers as they were.
LEMMA HandlersKept ==
  ASSUME TypeOK, IdentityInv, RewindInv, UNCHANGED <<now, handlers, seen>>,
         \A n \in Nonces : Lasting(n), NEW h \in Deliveries
  PROVE  HandlerOK(h)'
<1>1. HandlerOK(h) /\ h[1] \in Nonces
  BY DeliveryOf DEF RewindInv
<1>2. UnderWay(h) => nonces'[h[1]].by = nonces[h[1]].by
  BY <1>1 DEF IdentityInv, HandlerOrdered, UnderWay, Lasting
<1>3. UnderWay(h) => Genuine(h[1])'
  BY <1>1, <1>2 DEF HandlerOK, Genuine, ClaimedId
<1>4. \A p : Disturbed(p) => Disturbed(p)'
  BY DisturbedStays
<1>5. ASSUME handlers[h].at = "touch"
      PROVE  (Disturbed(nonces[h[1]].by) \/ seen[ClaimedId(h[1])] <= handlers[h].clock)'
  <2>1. nonces'[h[1]].by = nonces[h[1]].by
    BY <1>2, <1>5 DEF UnderWay
  <2>. QED
    BY <1>1, <1>4, <1>5, <2>1 DEF HandlerOK, ClaimedId
<1>. QED
  BY <1>1, <1>3, <1>5 DEF HandlerOK, UnderWay

\* A step of the call of nonce n, and of the client p that makes it.
CallChange(n, p) ==
  /\ UNCHANGED <<now, handlers, seen>>
  /\ \A m \in Nonces \ {n} : nonces'[m] = nonces[m]
  /\ \A q \in Processes \ {p} : clients'[q] = clients[q]
  /\ p \in Processes /\ clients[p].at = "await" => clients[p].nonce = n
  /\ Lasting(n)

\* Such a step keeps the invariant if it does so for n and p.
LEMMA CallStep ==
  ASSUME TypeOK, IdentityInv, RewindInv, NEW n \in Nonces, NEW p, CallChange(n, p), CallOK(n)',
         \A q \in Processes : q = p \/ (clients[q].at # "idle" /\ clients[q].nonce = n) => ClientOK(q)'
  PROVE  RewindInv'
<1>0. /\ UNCHANGED <<now, handlers, seen>>
      /\ \A m \in Nonces \ {n} : nonces'[m] = nonces[m]
      /\ \A q \in Processes \ {p} : clients'[q] = clients[q]
      /\ p \in Processes /\ clients[p].at = "await" => clients[p].nonce = n
      /\ Lasting(n)
  BY DEF CallChange
<1>1. \A m \in Nonces : Lasting(m)
  BY <1>0 DEF Lasting
<1>2. \A h \in Deliveries : HandlerOK(h)'
  BY <1>0, <1>1, HandlersKept
<1>3. ASSUME NEW q \in Processes PROVE ClientOK(q)'
  <2>1. CASE q # p /\ clients[q].at # "idle" /\ clients[q].nonce # n
    BY <1>0, <2>1 DEF RewindInv, ClientOK
  <2>2. CASE q # p /\ clients[q].at = "idle"
    BY <1>0, <2>2 DEF ClientOK
  <2>. QED
    BY Zenon, <2>1, <2>2
<1>4. ASSUME NEW m \in Nonces PROVE CallOK(m)'
  <2>1. CASE m = n
    BY <2>1
  <2>2. CASE m # n
    <3>1. CallOK(m) /\ nonces'[m] = nonces[m] /\ Arrived(m)' = Arrived(m)
      BY <1>0, <2>2 DEF RewindInv, Arrived
    <3>2. ASSUME nonces[m].stage = "signed", nonces[m].told = "nothing"
          PROVE  /\ nonces[m].by \in Processes
                 /\ clients'[nonces[m].by] = [at |-> "await", nonce |-> m]
      <4>1. /\ nonces[m].by \in Processes
            /\ clients[nonces[m].by] = [at |-> "await", nonce |-> m]
        BY <3>1, <3>2 DEF CallOK
      <4>2. clients[nonces[m].by].at = "await" /\ clients[nonces[m].by].nonce = m
        BY <4>1
      <4>. QED
        BY Zenon, <1>0, <2>2, <4>1, <4>2
    <3>3. nonces[m].stage = "signed" /\ nonces[m].told \in {"done", "error"} =>
            \E c \in Copies : Answer(<<m, c>>)'
      BY <1>0, <3>1 DEF CallOK, Answer
    <3>. QED
      BY Zenon, <3>1, <3>2, <3>3 DEF CallOK
  <2>. QED
    BY <2>1, <2>2
<1>. QED
  BY <1>0, <1>2, <1>3, <1>4 DEF RewindInv

\* The steps of the clients and of the challenges.
LEMMA AskRewind ==
  ASSUME TypeOK, IdentityInv, RewindInv, NEW p \in Processes, NEW n \in Nonces, Ask(p, n)
  PROVE  RewindInv'
<1>1. /\ clients[p].at = "idle" /\ nonces[n].stage = "free" /\ UNCHANGED <<now, handlers, seen>>
      /\ clients' = [clients EXCEPT ![p] = [at |-> "challenge", nonce |-> n]]
      /\ nonces' = [nonces EXCEPT ![n].stage = "asked", ![n].by = p]
  BY DEF Ask
<1>2. /\ nonces'[n].stage = "asked" /\ nonces'[n].by = p /\ nonces'[n].told = nonces[n].told
      /\ \A m \in Nonces \ {n} : nonces'[m] = nonces[m]
  BY <1>1 DEF TypeOK, Nonce
<1>3. clients'[p] = [at |-> "challenge", nonce |-> n] /\ \A q \in Processes \ {p} : clients'[q] = clients[q]
  BY <1>1 DEF TypeOK
<1>4. CallOK(n) /\ Arrived(n)' = Arrived(n)
  BY <1>1 DEF RewindInv, Arrived
<1>5. Lasting(n) /\ CallOK(n)'
  BY <1>1, <1>2, <1>4 DEF Lasting, CallOK
<1>6. ClientOK(p)'
  <2>1. clients'[p].nonce = n /\ clients'[p].at = "challenge" /\ nonces[n].told = "nothing"
    BY <1>1, <1>3, <1>4 DEF CallOK
  <2>. QED
    BY <1>2, <2>1 DEF ClientOK
<1>7. \A q \in Processes : ~(clients[q].at # "idle" /\ clients[q].nonce = n)
  BY <1>1 DEF RewindInv, ClientOK
<1>8. CallChange(n, p)
  BY Zenon, <1>1, <1>2, <1>3, <1>5 DEF CallChange
<1>. QED
  BY <1>5, <1>6, <1>7, <1>8, CallStep

\* Issue and SaveNonce change neither client nor answer of a call.
LEMMA ChallengeRewind ==
  ASSUME TypeOK, IdentityInv, RewindInv, NEW n \in Nonces, Issue(n) \/ SaveNonce(n)
  PROVE  RewindInv'
<1>1. /\ nonces[n].stage \in {"asked", "drawn"} /\ UNCHANGED <<now, clients, handlers, seen>>
      /\ nonces'[n].stage \in {"drawn", "saved", "unknown"} /\ nonces'[n].by = nonces[n].by
      /\ nonces'[n].told = nonces[n].told
      /\ \A m \in Nonces \ {n} : nonces'[m] = nonces[m]
  BY DEF Issue, SaveNonce, TypeOK, Nonce
<1>2. CallOK(n) /\ Arrived(n)' = Arrived(n)
  BY <1>1 DEF RewindInv, Arrived
<1>3. Lasting(n) /\ CallOK(n)'
  BY <1>1, <1>2 DEF Lasting, CallOK
<1>4. ASSUME NEW q \in Processes, clients[q].at # "idle", clients[q].nonce = n PROVE ClientOK(q)'
  BY Zenon, <1>1, <1>4 DEF RewindInv, ClientOK
<1>5. CallChange(n, NoProcess) /\ NoProcess \notin Processes
  BY <1>1, <1>3, IdentityAssumption DEF CallChange
<1>. QED
  BY <1>3, <1>4, <1>5, CallStep

\* A signed request is the one its client awaits.
LEMMA SignRewind ==
  ASSUME TypeOK, IdentityInv, RewindInv, NEW p \in Processes, Sign(p)
  PROVE  RewindInv'
<1>0. PICK n \in Nonces : n = clients[p].nonce
  BY DEF Sign, RewindInv, ClientOK
<1>1. /\ clients[p].at = "challenge" /\ nonces[n].stage = "saved" /\ UNCHANGED <<now, handlers, seen>>
      /\ clients' = [clients EXCEPT ![p] = [at |-> "await", nonce |-> n]]
      /\ nonces' = [nonces EXCEPT ![n].stage = "signed", ![n].issued = now + skew[p],
                                  ![n].signedAt = now]
  BY <1>0 DEF Sign, Sent
<1>2. ClientOK(p) /\ nonces[n].by = p /\ nonces[n].told = "nothing"
  BY <1>0, <1>1 DEF RewindInv, ClientOK
<1>3. /\ nonces'[n].stage = "signed" /\ nonces'[n].by = p /\ nonces'[n].told = "nothing"
      /\ \A m \in Nonces \ {n} : nonces'[m] = nonces[m]
  BY <1>1, <1>2 DEF TypeOK, Nonce
<1>4. clients'[p] = [at |-> "await", nonce |-> n] /\ \A q \in Processes \ {p} : clients'[q] = clients[q]
  BY <1>1 DEF TypeOK
<1>5. CallOK(n) /\ Arrived(n)' = Arrived(n)
  BY <1>1, <1>2 DEF RewindInv, Arrived
<1>6. Lasting(n) /\ CallOK(n)'
  BY <1>1, <1>2, <1>3, <1>4, <1>5 DEF Lasting, CallOK
<1>7. ClientOK(p)'
  <2>1. clients'[p].nonce = n /\ clients'[p].at = "await"
    BY <1>4
  <2>. QED
    BY <1>2, <1>3, <2>1 DEF ClientOK
<1>8. \A q \in Processes \ {p} : ~(clients[q].at # "idle" /\ clients[q].nonce = n)
  BY <1>2 DEF RewindInv, ClientOK
<1>9. CallChange(n, p)
  BY Zenon, <1>1, <1>3, <1>4, <1>6 DEF CallChange
<1>. QED
  BY Zenon, <1>6, <1>7, <1>8, <1>9, CallStep

\* The call ends: its client is idle, and it was given up or one of its handlers answered.
LEMMA EndRewind ==
  ASSUME TypeOK, IdentityInv, RewindInv, NEW p \in Processes,
         GiveUp(p) \/ \E c \in Copies : Receive(p, c)
  PROVE  RewindInv'
<1>0. PICK n \in Nonces : n = clients[p].nonce
  BY Zenon DEF GiveUp, Receive, RewindInv, ClientOK
<1>1. PICK v \in {"timeout", "done", "error"} :
        /\ clients[p].at # "idle" /\ UNCHANGED <<now, handlers, seen>>
        /\ clients' = [clients EXCEPT ![p] = Idle]
        /\ nonces' = [nonces EXCEPT ![n].told = v]
        /\ v # "timeout" => \E c \in Copies : Answer(<<n, c>>)
  BY Zenon, <1>0 DEF GiveUp, Receive, Answer
<1>2. nonces[n].by = p /\ nonces[n].told = "nothing" /\ nonces[n].stage # "free"
  BY <1>0, <1>1 DEF RewindInv, ClientOK
<1>3. /\ nonces'[n].stage = nonces[n].stage /\ nonces'[n].by = p /\ nonces'[n].told = v
      /\ \A m \in Nonces \ {n} : nonces'[m] = nonces[m]
  BY <1>1, <1>2 DEF TypeOK, Nonce
<1>4. clients'[p] = Idle /\ \A q \in Processes \ {p} : clients'[q] = clients[q]
  BY <1>1 DEF TypeOK
<1>5. CallOK(n) /\ Arrived(n)' = Arrived(n)
  BY <1>1, <1>2 DEF RewindInv, Arrived
<1>6. Lasting(n)
  BY Zenon, <1>2, <1>3 DEF Lasting
<1>7. CallOK(n)'
  <2>1. v # "timeout" => \E c \in Copies : Answer(<<n, c>>)'
    BY Zenon, <1>1 DEF Answer
  <2>. QED
    BY <1>2, <1>3, <1>5, <2>1 DEF CallOK
<1>8. ClientOK(p)'
  BY <1>4 DEF ClientOK, Idle
<1>9. \A q \in Processes \ {p} : ~(clients[q].at # "idle" /\ clients[q].nonce = n)
  BY <1>2 DEF RewindInv, ClientOK
<1>10. CallChange(n, p)
  BY Zenon, <1>0, <1>1, <1>3, <1>4, <1>6 DEF CallChange
<1>. QED
  BY <1>7, <1>8, <1>9, <1>10, CallStep
-----------------------------------------------------------------------------
\* A step of one handler: it has not answered, the calls of the clients go on, and only
\* Touch writes the row.
HandlerChange(h) ==
  /\ UNCHANGED <<now, clients>>
  /\ \A m \in Nonces : /\ nonces'[m].stage = nonces[m].stage /\ nonces'[m].by = nonces[m].by
                       /\ nonces'[m].told = nonces[m].told
  /\ \A g \in Deliveries \ {h} : handlers'[g] = handlers[g]
  /\ ~Answer(h) /\ handlers'[h].at # "none" /\ nonces[h[1]].stage = "signed"
  /\ handlers'[h].clock <= now
  /\ handlers'[h].at = "touch" => handlers'[h].clock = now /\ UNCHANGED seen
  /\ \/ UNCHANGED seen
     \/ handlers[h].at = "touch" /\ seen' = [seen EXCEPT ![ClaimedId(h[1])] = handlers[h].clock]

\* Such a step keeps the invariant if the request is genuine.
LEMMA HandlerChanges ==
  ASSUME TypeOK, IdentityInv, RewindInv, NEW h \in Deliveries, HandlerChange(h),
         UnderWay(h)' => Genuine(h[1])
  PROVE  RewindInv'
<1>1. /\ UNCHANGED <<now, clients>>
      /\ \A m \in Nonces : /\ nonces'[m].stage = nonces[m].stage /\ nonces'[m].by = nonces[m].by
                           /\ nonces'[m].told = nonces[m].told
      /\ \A g \in Deliveries \ {h} : handlers'[g] = handlers[g]
      /\ ~Answer(h) /\ handlers'[h].at # "none" /\ nonces[h[1]].stage = "signed"
      /\ handlers'[h].clock <= now
      /\ handlers'[h].at = "touch" => handlers'[h].clock = now /\ UNCHANGED seen
      /\ \/ UNCHANGED seen
         \/ handlers[h].at = "touch" /\ seen' = [seen EXCEPT ![ClaimedId(h[1])] = handlers[h].clock]
  BY DEF HandlerChange
<1>2. \A g \in Deliveries : HandlerOK(g) /\ g[1] \in Nonces
  BY DeliveryOf DEF RewindInv
<1>3. seen \in [DOMAIN Holder -> Times \cup {Never}]
  BY Zenon DEF TypeOK
<1>4. \A i \in DOMAIN Holder : seen'[i] <= now'
  BY Zenon, <1>1, <1>2, <1>3 DEF RewindInv, HandlerOK
<1>5. ASSUME NEW p \in Processes PROVE ClientOK(p)'
  <2>1. ClientOK(p) /\ clients' = clients
    BY Zenon, <1>1, <1>5 DEF RewindInv
  <2>2. CASE clients[p].at = "idle"
    BY Zenon, <2>1, <2>2 DEF ClientOK
  <2>3. CASE clients[p].at # "idle"
    <3>1. PICK n \in Nonces : n = clients[p].nonce
      BY Zenon, <2>1, <2>3 DEF ClientOK
    <3>2. /\ nonces[n].by = p /\ nonces[n].told = "nothing" /\ nonces[n].stage # "free"
          /\ clients[p].at = "await" <=> nonces[n].stage = "signed"
      BY Zenon, <2>1, <2>3, <3>1 DEF ClientOK
    <3>3. /\ nonces'[n].by = p /\ nonces'[n].told = "nothing" /\ nonces'[n].stage # "free"
          /\ clients[p].at = "await" <=> nonces'[n].stage = "signed"
      BY Zenon, <1>1, <3>2
    <3>. QED
      BY Zenon, <2>1, <3>1, <3>3 DEF ClientOK
  <2>. QED
    BY Zenon, <2>2, <2>3
<1>6. ASSUME NEW n \in Nonces PROVE CallOK(n)'
  <2>1. CallOK(n)
    BY DEF RewindInv
  <2>2. IsFiniteSet(Arrived(n)')
    <3>1. Arrived(n)' \subseteq Arrived(n) \cup {h[2]}
      BY <1>1, DeliveryPair DEF Arrived
    <3>2. IsFiniteSet(Arrived(n) \cup {h[2]})
      BY <2>1, FS_AddElement DEF CallOK
    <3>. QED
      BY <3>1, <3>2, FS_Subset
  <2>3. \A c \in Copies : Answer(<<n, c>>) => Answer(<<n, c>>)'
    BY <1>1, DeliveryPair DEF Answer
  <2>. QED
    BY Zenon, <1>1, <2>1, <2>2, <2>3 DEF CallOK
<1>7. \A p : Disturbed(p) => Disturbed(p)'
  BY <1>1, DisturbedStays DEF Lasting
<1>8. ASSUME NEW g \in Deliveries PROVE HandlerOK(g)'
  <2>1. /\ ClaimedId(g[1])' = ClaimedId(g[1]) /\ nonces'[g[1]].by = nonces[g[1]].by
        /\ Genuine(g[1])' = Genuine(g[1])
    BY Zenon, <1>1, <1>2 DEF ClaimedId, Genuine
  <2>2. handlers'[g].clock <= now'
    BY Zenon, <1>1, <1>2 DEF HandlerOK
  <2>3. UnderWay(g)' => Genuine(g[1])'
    BY <1>1, <1>2, <2>1 DEF HandlerOK, UnderWay
  <2>4. ASSUME handlers'[g].at = "touch", ~Disturbed(nonces[g[1]].by)
        PROVE  seen'[ClaimedId(g[1])] <= handlers'[g].clock
    <3>1. ClaimedId(g[1]) \in DOMAIN Holder /\ Holder[ClaimedId(g[1])] = nonces[g[1]].by
      BY Zenon, <2>1, <2>3, <2>4 DEF UnderWay, Genuine
    <3>2. CASE g = h
      BY <1>1, <2>4, <3>1, <3>2 DEF RewindInv
    <3>3. CASE g # h
      <4>1. handlers'[g] = handlers[g] /\ handlers[g].at = "touch"
        BY Zenon, <1>1, <2>4, <3>3
      <4>2. seen[ClaimedId(g[1])] <= handlers[g].clock
        BY <1>2, <2>4, <4>1 DEF HandlerOK
      <4>3. CASE UNCHANGED seen
        BY <4>1, <4>2, <4>3
      <4>4. CASE /\ handlers[h].at = "touch"
                 /\ seen' = [seen EXCEPT ![ClaimedId(h[1])] = handlers[h].clock]
        <5>1. Holder[ClaimedId(h[1])] = nonces[h[1]].by /\ UnderWay(h) /\ UnderWay(g)
          BY <1>2, <4>1, <4>4 DEF HandlerOK, UnderWay, Genuine
        <5>2. nonces[h[1]].by # nonces[g[1]].by
          BY <2>4, <3>3, <5>1, OneUnderWay
        <5>3. ClaimedId(h[1]) # ClaimedId(g[1])
          BY <3>1, <5>1, <5>2
        <5>. QED
          BY Zenon, <1>3, <3>1, <4>1, <4>2, <4>4, <5>3
      <4>. QED
        BY Zenon, <1>1, <4>3, <4>4
    <3>. QED
      BY <3>2, <3>3
  <2>5. (handlers[g].at = "touch" =>
           Disturbed(nonces[g[1]].by) \/ seen[ClaimedId(g[1])] <= handlers[g].clock)'
    BY <1>7, <2>1, <2>4
  <2>. QED
    BY Zenon, <2>2, <2>3, <2>5 DEF HandlerOK
<1>. QED
  BY <1>4, <1>5, <1>6, <1>8 DEF RewindInv

\* The steps of a handler.
LEMMA HandlerRewind ==
  ASSUME TypeOK, IdentityInv, RewindInv, NEW h \in Deliveries, NEW ok \in BOOLEAN,
         \/ ReadClock(h) \/ Undecodable(h)
         \/ Verify(h, ok) \/ ConsumeNonce(h, ok) \/ Touch(h, ok) \/ Apply(h, ok)
  PROVE  RewindInv'
<1>1. /\ handlers \in [Deliveries -> [at: Places, clock: Times]] /\ h[1] \in Nonces
      /\ now \in Nat /\ handlers[h].clock \in Nat /\ HandlerOK(h) /\ HandlerOrdered(h)
  BY Zenon, DeliveryOf, Parts DEF TypeOK, RewindInv, IdentityInv
<1>2. PICK v \in [at: Places, clock: Int] :
        /\ handlers' = [handlers EXCEPT ![h] = v] /\ v.at # "none" /\ v.clock <= now
        /\ v.at = "touch" => v.clock = now
  <2>1. ASSUME NEW place \in Places \ {"none", "touch"}, Moved(h, place)
        PROVE  \E v \in [at: Places, clock: Int] :
                 /\ handlers' = [handlers EXCEPT ![h] = v] /\ v.at # "none" /\ v.clock <= now
                 /\ v.at = "touch" => v.clock = now
    <3>. DEFINE v == [handlers[h] EXCEPT !.at = place]
    <3>1. handlers' = [handlers EXCEPT ![h] = v]
      BY <2>1 DEF Moved
    <3>2. handlers[h] \in [at: Places, clock: Times] /\ Times \subseteq Int /\ handlers[h].clock <= now
      BY <1>1, IdentityAssumption DEF HandlerOK, Times
    <3>3. v \in [at: Places, clock: Int] /\ v.at # "none" /\ v.at # "touch" /\ v.clock <= now
      BY <2>1, <3>2
    <3>. QED
      BY Zenon, <3>1, <3>3
  <2>2. ASSUME NEW place \in Places \ {"none"}, NEW k \in {0, now}, place = "touch" => k = now,
               handlers' = [handlers EXCEPT ![h] = [at |-> place, clock |-> k]]
        PROVE  \E v \in [at: Places, clock: Int] :
                 /\ handlers' = [handlers EXCEPT ![h] = v] /\ v.at # "none" /\ v.clock <= now
                 /\ v.at = "touch" => v.clock = now
    <3>. DEFINE v == [at |-> place, clock |-> k]
    <3>1. v \in [at: Places, clock: Int] /\ v.at # "none" /\ v.clock <= now
      BY <1>1, <2>2
    <3>2. v.at = "touch" => v.clock = now
      BY <2>2
    <3>. QED
      BY Zenon, <2>2, <3>1, <3>2
  <2>3. CASE Verify(h, ok)
    <3>1. \E place \in {"verified", "refused"} : Moved(h, place)
      BY <2>3 DEF Verify
    <3>. QED
      BY <2>1, <3>1 DEF Places
  <2>4. CASE ReadClock(h)
    <3>1. \E place \in {"consume", "touch"} : handlers' = [handlers EXCEPT ![h] = [at |-> place, clock |-> now]]
      BY <2>4 DEF ReadClock
    <3>. QED
      BY Zenon, <2>2, <3>1 DEF Places
  <2>5. CASE Undecodable(h) \/ ConsumeNonce(h, ok) \/ Touch(h, ok) \/ Apply(h, ok)
    <3>1. \/ Moved(h, "accepted") \/ Moved(h, "apply")
          \/ \E place \in {"failed", "refused", "done"} : Answered(h, place)
      BY <2>5 DEF Undecodable, ConsumeNonce, Touch, Apply
    <3>. QED
      BY <2>1, <2>2, <3>1 DEF Answered, Places
  <2>. QED
    BY <2>3, <2>4, <2>5
<1>3. handlers'[h] = v /\ \A g \in Deliveries \ {h} : handlers'[g] = handlers[g]
  BY <1>1, <1>2
<1>4. UNCHANGED <<now, clients>> /\ ~Answer(h) /\ nonces[h[1]].stage = "signed"
  BY <1>1 DEF ReadClock, Undecodable, Verify, ConsumeNonce, Touch, Apply, Answer, HandlerOrdered
<1>5. \A m \in Nonces : /\ nonces'[m].stage = nonces[m].stage /\ nonces'[m].by = nonces[m].by
                        /\ nonces'[m].told = nonces[m].told
  <2>1. nonces' = nonces \/ nonces' = [nonces EXCEPT ![h[1]].consumed = TRUE]
    BY DEF ReadClock, Undecodable, Verify, ConsumeNonce, Touch, Apply
  <2>. QED
    BY <2>1 DEF TypeOK, Nonce
<1>6. \/ UNCHANGED seen
      \/ /\ handlers[h].at = "touch" /\ Moved(h, "apply")
         /\ seen' = [seen EXCEPT ![ClaimedId(h[1])] = handlers[h].clock]
  BY DEF ReadClock, Undecodable, Verify, ConsumeNonce, Touch, Apply, SeenAt
<1>7. Moved(h, "apply") => handlers'[h].at = "apply"
  BY Zenon, <1>1 DEF Moved
<1>8. HandlerChange(h)
  BY <1>2, <1>3, <1>4, <1>5, <1>6, <1>7 DEF HandlerChange
<1>9. UnderWay(h)' => Genuine(h[1])
  <2>1. CASE UnderWay(h)
    BY <1>1, <2>1 DEF HandlerOK
  <2>2. CASE ~UnderWay(h)
    <3>1. Verify(h, ok)
      BY <2>2 DEF UnderWay, ReadClock, Undecodable, ConsumeNonce, Touch, Apply
    <3>2. ~Genuine(h[1]) => Moved(h, "refused")
      BY <3>1 DEF Verify
    <3>3. Moved(h, "refused") => handlers'[h].at = "refused"
      BY <1>1 DEF Moved
    <3>. QED
      BY <3>2, <3>3 DEF UnderWay
  <2>. QED
    BY Zenon, <2>1, <2>2
<1>. QED
  BY <1>8, <1>9, HandlerChanges

\* The clock only makes the times that were read older.
LEMMA TickRewind ==
  ASSUME TypeOK, RewindInv, now' \in {now, now + 1}, UNCHANGED <<clients, nonces, handlers, seen>>
  PROVE  RewindInv'
<1>1. clients' = clients /\ nonces' = nonces /\ handlers' = handlers /\ seen' = seen
  OBVIOUS
<1>2. /\ \A i \in DOMAIN Holder : seen'[i] <= now'
      /\ \A h \in Deliveries : handlers'[h].clock <= now'
  BY <1>1, Parts DEF RewindInv, HandlerOK
<1>3. \A n : Arrived(n)' = Arrived(n)
  BY <1>1 DEF Arrived
<1>4. \A n : Twice(n)' = Twice(n)
  BY Zenon, <1>3 DEF Twice
<1>5. \A p : Disturbed(p)' = Disturbed(p)
  BY Zenon, <1>1, <1>4 DEF Disturbed
<1>6. ASSUME NEW h \in Deliveries PROVE HandlerOK(h)'
  <2>1. /\ UnderWay(h)' = UnderWay(h) /\ Genuine(h[1])' = Genuine(h[1])
        /\ ClaimedId(h[1])' = ClaimedId(h[1])
    BY <1>1 DEF UnderWay, Genuine, ClaimedId
  <2>2. HandlerOK(h)
    BY DEF RewindInv
  <2>3. handlers'[h].at = "touch" =>
          (Disturbed(nonces[h[1]].by) \/ seen[ClaimedId(h[1])] <= handlers[h].clock)'
    BY Zenon, <1>1, <1>5, <2>1, <2>2 DEF HandlerOK
  <2>. QED
    BY Zenon, <1>2, <2>1, <2>2, <2>3 DEF HandlerOK
<1>7. ASSUME NEW p \in Processes PROVE ClientOK(p)'
  BY <1>1 DEF RewindInv, ClientOK
<1>8. ASSUME NEW n \in Nonces PROVE CallOK(n)'
  <2>1. \A c \in Copies : Answer(<<n, c>>)' = Answer(<<n, c>>)
    BY <1>1 DEF Answer
  <2>. QED
    BY Zenon, <1>1, <1>3, <2>1 DEF RewindInv, CallOK
<1>. QED
  BY <1>2, <1>6, <1>7, <1>8 DEF RewindInv

\* Nothing is under way at the start.
LEMMA RewindInit == Init => RewindInv
<1>. SUFFICES ASSUME Init PROVE RewindInv
  OBVIOUS
<1>1. /\ \A h \in Deliveries : handlers[h].at = "none" /\ handlers[h].clock = 0
      /\ \A n \in Nonces : nonces[n].stage = "free" /\ nonces[n].told = "nothing"
      /\ \A p \in Processes : clients[p].at = "idle"
      /\ now = 0 /\ \A i \in DOMAIN Holder : seen[i] <= 0
  BY DEF Init, Idle, Never
<1>2. \A n \in Nonces : Arrived(n) = {}
  BY <1>1, DeliveryPair DEF Arrived
<1>3. \A n \in Nonces : CallOK(n)
  BY Zenon, <1>1, <1>2, FS_EmptySet DEF CallOK
<1>. QED
  BY <1>1, <1>3 DEF RewindInv, ClientOK, HandlerOK, UnderWay

\* Every step keeps the invariant.
LEMMA RewindStep == TypeOK /\ IdentityInv /\ RewindInv /\ [Next]_vars => RewindInv'
<1>. SUFFICES ASSUME TypeOK, IdentityInv, RewindInv, [Next]_vars PROVE RewindInv'
  OBVIOUS
<1>1. CASE UNCHANGED vars
  BY <1>1, TickRewind DEF vars
<1>2. ASSUME NEW p \in Processes,
             \/ Sign(p) \/ GiveUp(p)
             \/ \E n \in Nonces : Ask(p, n)
             \/ \E c \in Copies : Receive(p, c)
      PROVE  RewindInv'
  BY <1>2, SignRewind, EndRewind, AskRewind
<1>3. ASSUME NEW n \in Nonces, Issue(n) \/ SaveNonce(n) PROVE RewindInv'
  BY <1>3, ChallengeRewind
<1>4. ASSUME NEW h \in Deliveries,
             \/ ReadClock(h) \/ Undecodable(h)
             \/ \E ok \in BOOLEAN : Verify(h, ok) \/ ConsumeNonce(h, ok) \/ Touch(h, ok) \/ Apply(h, ok)
      PROVE  RewindInv'
  BY Zenon, <1>4, HandlerRewind
<1>5. CASE Tick
  BY <1>5, TickRewind DEF Tick
<1>. QED
  BY <1>1, <1>2, <1>3, <1>4, <1>5 DEF Next

\* For any Agents, clocks, nonces and deliveries: last_seen_at goes back only after the client
\* gave up on a call or a request was delivered twice.
THEOREM OnlyOverlapRewindsAlways == Spec => OnlyOverlapRewinds
<1>. DEFINE Overlap(i) ==
       \E n \in Nonces : /\ nonces[n].by = Holder[i]
                         /\ \/ nonces[n].told = "timeout"
                            \/ Cardinality({c \in Copies : handlers[<<n, c>>].at # "none"}) > 1
<1>1. ASSUME TypeOK, IdentityInv, RewindInv, [Next]_vars, NEW i \in DOMAIN Holder, seen'[i] < seen[i]
      PROVE  Overlap(i)
  <2>1. /\ seen \in [DOMAIN Holder -> Times \cup {Never}] /\ seen[i] \in Int
        /\ \A h \in Deliveries : handlers[h].clock \in Nat
    BY <1>1, Parts DEF TypeOK
  <2>2. seen' # seen
    BY <1>1, <2>1
  <2>3. PICK h \in Deliveries : \E ok \in BOOLEAN : Touch(h, ok)
    BY Zenon, <1>1, <2>2 DEF Next, vars, Sign, GiveUp, Ask, Receive, Issue, SaveNonce, ReadClock,
                      Undecodable, Verify, ConsumeNonce, Apply, Tick
  <2>4. handlers[h].at = "touch" /\ seen' = [seen EXCEPT ![ClaimedId(h[1])] = handlers[h].clock]
    BY <2>2, <2>3 DEF Touch, SeenAt
  <2>5. i = ClaimedId(h[1]) /\ seen'[i] = handlers[h].clock
    BY <1>1, <2>1, <2>4
  <2>6. HandlerOK(h)
    BY <1>1 DEF RewindInv
  <2>7. Disturbed(nonces[h[1]].by) /\ Holder[i] = nonces[h[1]].by
    BY <1>1, <2>1, <2>4, <2>5, <2>6 DEF HandlerOK, UnderWay, Genuine
  <2>8. PICK n \in Nonces : nonces[n].by = Holder[i] /\ (nonces[n].told = "timeout" \/ Twice(n))
    BY <2>7 DEF Disturbed
  <2>9. Twice(n) => Cardinality(Arrived(n)) > 1
    BY Zenon, <1>1, TwiceCounts DEF RewindInv, CallOK
  <2>. QED
    BY Zenon, <2>8, <2>9 DEF Arrived
<1>2. TypeOK /\ IdentityInv /\ RewindInv /\ [Next]_vars =>
        [\A i \in DOMAIN Holder : seen'[i] < seen[i] => Overlap(i)]_vars
  BY <1>1
<1>3. Spec => []RewindInv
  BY IdentityTypeCorrect, IdentityInvariant, RewindInit, RewindStep, PTL DEF Spec
<1>. QED
  BY <1>2, <1>3, IdentityTypeCorrect, IdentityInvariant, PTL DEF Spec, OnlyOverlapRewinds
=============================================================================

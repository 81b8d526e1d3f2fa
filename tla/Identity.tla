------------------------------ MODULE Identity ------------------------------
(***************************************************************************)
(* Signed requests of the Agents and their presence: ControllerClient      *)
(* (internal/agent/controller_client.go) asks for a challenge, signs and   *)
(* sends a request; the Controller (internal/identity, the tables agents   *)
(* and agent_nonces, internal/presence) verifies it, spends the nonce,     *)
(* notes the Agent as seen and hands the request to the signaling broker.  *)
(*                                                                         *)
(* A request can be lost, late or delivered twice by the proxies on its    *)
(* way; a client gives up after its timeout and makes the next call.  The  *)
(* clock is read before the statement that uses it.  A call is named by    *)
(* its nonce: every call asks for one.                                     *)
(***************************************************************************)
EXTENDS Integers, FiniteSets

CONSTANTS
  Processes,     \* Agent processes, each with a private key of its own
  Id,            \* process -> the Agent id in its configuration
  Holder,        \* table agents: id -> the process whose public key the row has
  Nonces,        \* nonces that can be drawn
  Copies,        \* deliveries of one request
  Skews,         \* process -> how far its clock can be ahead of the Controller's
  ChallengeTTL, MaxClockSkew,
  MaxTime,       \* bound: the clock stops there
  NoNonce, NoProcess

ASSUME IdentityAssumption ==
  /\ DOMAIN Id = Processes /\ \A i \in DOMAIN Holder : Holder[i] \in Processes
  /\ \A p \in Processes : Skews[p] \subseteq Int
  /\ NoNonce \notin Nonces /\ NoProcess \notin Processes
  /\ ChallengeTTL \in Nat \ {0} /\ MaxClockSkew \in Nat /\ MaxTime \in Nat

VARIABLES
  now,       \* the Controller's clock
  skew,      \* process -> what its clock is ahead
  clients,   \* the call each process is making
  nonces,    \* each nonce and the call it is for
  handlers,  \* the Controller's handler of each delivery
  seen       \* last_seen_at of each row

vars == <<now, skew, clients, nonces, handlers, seen>>

Times == 0..MaxTime

Never == -1

Deliveries == Nonces \X Copies

Clocks == {f \in [Processes -> UNION {Skews[p] : p \in Processes}] : \A p \in Processes : f[p] \in Skews[p]}

\* stage: of the challenge, then of the call.  consumed: consumed_at is set.
\* signedAt is history: the Controller's time when the request was signed.
\* told: what the client learnt of its call.
Nonce == [stage: {"free", "asked", "drawn", "saved", "unknown", "signed"},
          by: Processes \cup {NoProcess}, drawn: Times, consumed: BOOLEAN, issued: Int,
          signedAt: Times, told: {"nothing", "done", "error", "timeout"}]

\* The steps of a handler; clock: the clock it read last, 0 once it has answered.
Places == {"none", "verified", "consume", "accepted", "touch", "apply", "done", "failed",
           "refused"}

TypeOK ==
  /\ now \in Times /\ skew \in Clocks
  /\ clients \in [Processes -> [at: {"idle", "challenge", "await"}, nonce: Nonces \cup {NoNonce}]]
  /\ nonces \in [Nonces -> Nonce]
  /\ handlers \in [Deliveries -> [at: Places, clock: Times]]
  /\ seen \in [DOMAIN Holder -> Times \cup {Never}]

Idle == [at |-> "idle", nonce |-> NoNonce]

Init ==
  /\ now = 0 /\ skew \in Clocks
  /\ clients = [p \in Processes |-> Idle]
  /\ nonces = [n \in Nonces |-> [stage |-> "free", by |-> NoProcess, drawn |-> 0,
       consumed |-> FALSE, issued |-> 0, signedAt |-> 0, told |-> "nothing"]]
  /\ handlers = [h \in Deliveries |-> [at |-> "none", clock |-> 0]]
  /\ seen = [i \in DOMAIN Holder |-> Never]
-----------------------------------------------------------------------------
\* The id a call claims.
ClaimedId(n) == Id[nonces[n].by]

\* challenge(): the client posts its id.
Ask(p, n) ==
  /\ clients[p].at = "idle" /\ nonces[n].stage = "free"
  /\ clients' = [clients EXCEPT ![p] = [at |-> "challenge", nonce |-> n]]
  /\ nonces' = [nonces EXCEPT ![n].stage = "asked", ![n].by = p]
  /\ UNCHANGED <<now, skew, handlers, seen>>

\* Issue draws the nonce and reads the clock ...
Issue(n) ==
  /\ nonces[n].stage = "asked"
  /\ nonces' = [nonces EXCEPT ![n].stage = "drawn", ![n].drawn = now]
  /\ UNCHANGED <<now, skew, clients, handlers, seen>>

\* ... and SaveNonce inserts it, if the id has a row.
SaveNonce(n) ==
  /\ nonces[n].stage = "drawn"
  /\ nonces' = [nonces EXCEPT ![n].stage =
       IF ClaimedId(n) \in DOMAIN Holder THEN "saved" ELSE "unknown"]
  /\ UNCHANGED <<now, skew, clients, handlers, seen>>

\* A bug: the request is sent without waiting for its answer.
SentForgotten(n) == Idle

\* The client while its request is under way.
Sent(n) == [at |-> "await", nonce |-> n]

\* signedJSON with the nonce received: sign with the process's own clock, and send.
Sign(p) ==
  LET n == clients[p].nonce IN
  /\ clients[p].at = "challenge" /\ nonces[n].stage = "saved"
  /\ nonces' = [nonces EXCEPT ![n].stage = "signed", ![n].issued = now + skew[p],
                              ![n].signedAt = now]
  /\ clients' = [clients EXCEPT ![p] = Sent(n)]
  /\ UNCHANGED <<now, skew, handlers, seen>>

\* The call ends with an error: no challenge, a timeout, a cancelled context.
GiveUp(p) ==
  /\ clients[p].at # "idle"
  /\ clients' = [clients EXCEPT ![p] = Idle]
  /\ nonces' = [nonces EXCEPT ![clients[p].nonce].told = "timeout"]
  /\ UNCHANGED <<now, skew, handlers, seen>>

\* The answer to one of the deliveries reaches the client.
Receive(p, c) ==
  LET n == clients[p].nonce IN
  /\ clients[p].at = "await" /\ handlers[<<n, c>>].at \in {"done", "failed", "refused"}
  /\ nonces' = [nonces EXCEPT ![n].told =
       IF handlers[<<n, c>>].at = "done" THEN "done" ELSE "error"]
  /\ clients' = [clients EXCEPT ![p] = Idle]
  /\ UNCHANGED <<now, skew, handlers, seen>>
-----------------------------------------------------------------------------
\* ed25519.Verify with the public key of the row AgentPublicKey finds.
Genuine(n) == ClaimedId(n) \in DOMAIN Holder /\ Holder[ClaimedId(n)] = nonces[n].by

\* The timestamp is inside the permitted window.
Timely(n) ==
  now - nonces[n].issued >= -MaxClockSkew /\ now - nonces[n].issued <= MaxClockSkew

Moved(h, place) == handlers' = [handlers EXCEPT ![h].at = place]

\* The handler answers.
Answered(h, place) == handlers' = [handlers EXCEPT ![h] = [at |-> place, clock |-> 0]]

\* A delivery arrives; AgentAuthenticator.Verify up to the nonce.  Its read of the row
\* can fail.
Verify(h, ok) ==
  /\ nonces[h[1]].stage = "signed" /\ handlers[h].at = "none"
  /\ Moved(h, IF ok /\ Genuine(h[1]) /\ Timely(h[1]) THEN "verified" ELSE "refused")
  /\ UNCHANGED <<now, skew, clients, nonces, seen>>

\* The handler reads the clock, for ConsumeNonce and again for Touch.
ReadClock(h) ==
  /\ \/ handlers[h].at = "verified" /\ handlers' = [handlers EXCEPT ![h] = [at |-> "consume", clock |-> now]]
     \/ handlers[h].at = "accepted" /\ handlers' = [handlers EXCEPT ![h] = [at |-> "touch", clock |-> now]]
  /\ UNCHANGED <<now, skew, clients, nonces, seen>>

\* A bug: a nonce lives for ever.
SpendableForever(h) == ~nonces[h[1]].consumed

\* A bug: consumed_at is not looked at.
SpendableTwice(h) == handlers[h].clock < nonces[h[1]].drawn + ChallengeTTL

\* The UPDATE of ConsumeNonce matches the nonce's row.
Spendable(h) ==
  ~nonces[h[1]].consumed /\ handlers[h].clock < nonces[h[1]].drawn + ChallengeTTL

\* ConsumeNonce; any failure of the statement counts as a used nonce.
ConsumeNonce(h, ok) ==
  /\ handlers[h].at = "consume"
  /\ IF ok /\ Spendable(h)
     THEN nonces' = [nonces EXCEPT ![h[1]].consumed = TRUE] /\ Moved(h, "accepted")
     ELSE Answered(h, "refused") /\ UNCHANGED nonces
  /\ UNCHANGED <<now, skew, clients, seen>>

\* The body does not decode: the nonce is spent, and the Agent not noted as seen.
Undecodable(h) ==
  /\ handlers[h].at = "accepted"
  /\ Answered(h, "failed")
  /\ UNCHANGED <<now, skew, clients, nonces, seen>>

\* What Touch stores.
SeenAt(h) == handlers[h].clock

\* Touch; a failure ends the request, whose nonce is spent.
Touch(h, ok) ==
  /\ handlers[h].at = "touch"
  /\ IF ok
     THEN Moved(h, "apply") /\ seen' = [seen EXCEPT ![ClaimedId(h[1])] = SeenAt(h)]
     ELSE Answered(h, "failed") /\ UNCHANGED seen
  /\ UNCHANGED <<now, skew, clients, nonces>>

\* The broker takes the request (Next, Finish) or rejects it, and the handler answers.
Apply(h, ok) ==
  /\ handlers[h].at = "apply"
  /\ Answered(h, IF ok THEN "done" ELSE "failed")
  /\ UNCHANGED <<now, skew, clients, nonces, seen>>

Tick ==
  /\ now < MaxTime /\ now' = now + 1
  /\ UNCHANGED <<skew, clients, nonces, handlers, seen>>

Next ==
  \/ \E p \in Processes :
       \/ Sign(p) \/ GiveUp(p)
       \/ \E n \in Nonces : Ask(p, n)
       \/ \E c \in Copies : Receive(p, c)
  \/ \E n \in Nonces : Issue(n) \/ SaveNonce(n)
  \/ \E h \in Deliveries :
       \/ ReadClock(h) \/ Undecodable(h)
       \/ \E ok \in BOOLEAN : Verify(h, ok) \/ ConsumeNonce(h, ok) \/ Touch(h, ok) \/ Apply(h, ok)
  \/ Tick

Spec == Init /\ [][Next]_vars
-----------------------------------------------------------------------------
\* The handler has authenticated its request.
Authenticated(h) == handlers[h].at \in {"accepted", "touch", "apply", "done", "failed"}

\* A signed request takes effect once, however often it is delivered and however its
\* handlers interleave: only one of them passes ConsumeNonce.
NonceSpentOnce ==
  \A h, g \in Deliveries : h[1] = g[1] /\ Authenticated(h) /\ Authenticated(g) => h = g

\* However far the Agent's clock is off and however long the request was under way, a
\* nonce is spent less than ChallengeTTL after its request was signed, by the clock
\* ConsumeNonce is given; and the request came from the holder of the Agent's key.
AcceptedFresh ==
  \A h \in Deliveries : handlers[h].at = "accepted" =>
    /\ nonces[h[1]].signedAt <= handlers[h].clock
    /\ handlers[h].clock < nonces[h[1]].signedAt + ChallengeTTL
    /\ Holder[ClaimedId(h[1])] = nonces[h[1]].by

\* last_seen_at goes back only after the client gave up on a call or a request was
\* delivered twice: the one call at a time of the Agent's loop keeps it in order.
OnlyOverlapRewinds ==
  [][\A i \in DOMAIN Holder : seen'[i] < seen[i] =>
       \E n \in Nonces : /\ nonces[n].by = Holder[i]
                         /\ \/ nonces[n].told = "timeout"
                            \/ Cardinality({c \in Copies : handlers[<<n, c>>].at # "none"}) > 1]_vars
=============================================================================

------------------------------- MODULE Agent -------------------------------
(***************************************************************************)
(* The Agent's offer loop and the life of its WebRTC peers                 *)
(* (internal/agent/runtime.go).                                            *)
(*                                                                         *)
(* One goroutine, Runtime.Run, polls for an offer, negotiates, and posts   *)
(* the answer.  Callbacks of the WebRTC library and timers run beside it   *)
(* and call peer.close, which takes the peer's lock and then the           *)
(* runtime's, one after the other.  A critical section is a step.          *)
(***************************************************************************)
EXTENDS Naturals, Sequences, FiniteSets

CONSTANTS
  OfferIds,     \* ids the Controller can draw
  PeerIds,      \* peers that can be created
  Grants,       \* (service, capability digest, temporary) of an offer
  MaxRestarts,  \* maxICERestarts
  MaxPending,   \* bound, by peer: goroutines its callbacks have started (0: no callbacks)
  NoId, NoPeer, NoGrant

ASSUME AgentAssumption ==
  /\ NoId \notin OfferIds /\ NoPeer \notin PeerIds /\ NoGrant \notin Grants
  /\ MaxRestarts \in Nat /\ MaxPending \in [PeerIds -> Nat]

VARIABLES
  loop,      \* where Runtime.Run is, with the offer and the peer in hand
  peers,     \* the peers created so far
  routes,    \* runtime.peers: offer id -> peer
  finished,  \* history: offer id -> was its result delivered
  shutdown   \* the context of Run is cancelled

vars == <<loop, peers, routes, finished, shutdown>>

Links == {"new", "connected", "disconnected", "failed"}

\* open, then the parts of close(): context cancelled, aliases collected,
\* routes deleted, connection closed.
Phases == {"open", "cancelled", "collected", "unrouted", "closed"}

\* timer is disconnectTimer: nil, running, or stopped or expired; fired: its
\* goroutine has started; checks: goroutines in verifySelectedPair; link and
\* pending belong to the library; raced is history: addAlias overlapped close.
Peer == [grant: Grants, restarts: 0..MaxRestarts, aliases: SUBSET OfferIds, phase: Phases,
         doomed: SUBSET OfferIds, timer: {"none", "armed", "spent"}, fired: BOOLEAN,
         link: Links, pending: Seq(Links \ {"new"}), checks: Nat, raced: BOOLEAN]

Places == {"poll", "accept", "negotiate", "gather", "abort", "alias", "register",
           "finish", "abandon", "stopping", "stopped"}

Loop == [at: Places, id: OfferIds \cup {NoId}, of: OfferIds \cup {NoId},
         grant: Grants \cup {NoGrant}, peer: PeerIds \cup {NoPeer}, left: SUBSET PeerIds]

TypeOK ==
  /\ loop \in Loop
  /\ DOMAIN peers \subseteq PeerIds /\ peers \in [DOMAIN peers -> Peer]
  /\ DOMAIN routes \subseteq OfferIds /\ routes \in [DOMAIN routes -> DOMAIN peers]
  /\ DOMAIN finished \subseteq OfferIds /\ finished \in [DOMAIN finished -> BOOLEAN]
  /\ shutdown \in BOOLEAN

Init ==
  /\ loop = [at |-> "poll", id |-> NoId, of |-> NoId, grant |-> NoGrant,
             peer |-> NoPeer, left |-> {}]
  /\ peers = [p \in {} |-> NoPeer]
  /\ routes = [i \in {} |-> NoPeer]
  /\ finished = [i \in {} |-> FALSE]
  /\ shutdown = FALSE
-----------------------------------------------------------------------------
\* f with x mapped to v.
With(f, x, v) == [y \in DOMAIN f \cup {x} |-> IF y = x THEN v ELSE f[y]]

Open(p) == peers[p].phase = "open"

\* The peers after close() is called on p: only the first call does anything.
Closing(p) == IF Open(p) THEN [peers EXCEPT ![p].phase = "cancelled"] ELSE peers

Goto(place) == loop' = [loop EXCEPT !.at = place]

\* n is the next of the names not used; the names are interchangeable.
Unused(n, names, used) == n \in names \ used /\ n = CHOOSE m \in names : m \notin used

\* The loop is done with an offer.
Rest == [loop EXCEPT !.at = "poll", !.id = NoId, !.of = NoId, !.grant = NoGrant,
                     !.peer = NoPeer]
-----------------------------------------------------------------------------
\* NextOffer returns an offer.  A poll that fails or times out changes nothing.
\* An offer that fails validation or policy goes straight to Finish.
Poll(id, of, g, valid) ==
  /\ loop.at = "poll" /\ ~shutdown
  /\ Unused(id, OfferIds, DOMAIN finished) /\ of \in DOMAIN finished \cup {NoId}
  /\ loop' = [loop EXCEPT !.at = IF valid THEN "accept" ELSE "finish",
                          !.id = id, !.of = of, !.grant = g]
  /\ UNCHANGED <<peers, routes, finished, shutdown>>

\* newPeer, which can fail.
NewPeer(p) ==
  /\ loop.at = "accept" /\ loop.of = NoId
  /\ Unused(p, PeerIds, DOMAIN peers)
  /\ peers' = With(peers, p, [grant |-> loop.grant, restarts |-> 0, aliases |-> {},
        phase |-> "open", doomed |-> {}, timer |-> "none", fired |-> FALSE,
        link |-> "new", pending |-> << >>, checks |-> 0, raced |-> FALSE])
  /\ loop' = [loop EXCEPT !.at = "negotiate", !.peer = p]
  /\ UNCHANGED <<routes, finished, shutdown>>

NewPeerFails ==
  /\ loop.at = "accept" /\ loop.of = NoId
  /\ Goto("finish")
  /\ UNCHANGED <<peers, routes, finished, shutdown>>

\* May the offer in hand restart peer p?
Restartable(p) == peers[p].grant = loop.grant /\ peers[p].restarts < MaxRestarts

\* The restarts of a peer after one more attempt.
Counted(n) == n + 1

\* A restart looks its peer up and counts the attempt (beginRestart).
Restart ==
  /\ loop.at = "accept" /\ loop.of # NoId
  /\ \/ /\ loop.of \in DOMAIN routes /\ Restartable(routes[loop.of])
        /\ peers' = [peers EXCEPT ![routes[loop.of]].restarts = Counted(@)]
        /\ loop' = [loop EXCEPT !.at = "negotiate", !.peer = routes[loop.of]]
     \/ /\ ~(loop.of \in DOMAIN routes /\ Restartable(routes[loop.of]))
        /\ Goto("finish")
        /\ UNCHANGED peers
  /\ UNCHANGED <<routes, finished, shutdown>>

\* Where a failed negotiation leads: a new peer is closed, an old one kept.
AfterFailure == IF loop.of = NoId THEN "abort" ELSE "finish"

\* SetRemoteDescription, CreateAnswer and SetLocalDescription fail on a
\* closed connection and may fail on any other.
Negotiate ==
  /\ loop.at = "negotiate"
  /\ \/ peers[loop.peer].phase # "closed" /\ Goto("gather")
     \/ Goto(AfterFailure)
  /\ UNCHANGED <<peers, routes, finished, shutdown>>

\* The select of applyOffer: candidates are gathered (the answer may then
\* still turn out invalid), ...
Gathered ==
  /\ loop.at = "gather"
  /\ Goto("alias") \/ Goto(AfterFailure)
  /\ UNCHANGED <<peers, routes, finished, shutdown>>

\* A bug: the select waits for the context of Run only.
InterruptedByRun == shutdown

\* ... or the context of Run or of the peer is cancelled.
Interrupted == shutdown \/ ~Open(loop.peer)

GatherCancelled ==
  /\ loop.at = "gather" /\ Interrupted
  /\ Goto(AfterFailure)
  /\ UNCHANGED <<peers, routes, finished, shutdown>>

\* acceptOffer calls close() on the new peer and waits for it.
Abort ==
  /\ loop.at = "abort"
  /\ peers' = Closing(loop.peer)
  /\ IF peers[loop.peer].phase = "closed" THEN Goto("finish") ELSE UNCHANGED loop
  /\ UNCHANGED <<routes, finished, shutdown>>

\* addAlias, under the peer's lock ...
AddAlias ==
  /\ loop.at = "alias"
  /\ peers' = [peers EXCEPT ![loop.peer].aliases = @ \cup {loop.id}]
  /\ Goto("register")
  /\ UNCHANGED <<routes, finished, shutdown>>

\* ... and under the runtime's.
Register ==
  /\ loop.at = "register"
  /\ routes' = With(routes, loop.id, loop.peer)
  /\ peers' = [peers EXCEPT ![loop.peer].raced = @ \/ ~Open(loop.peer)]
  /\ Goto("finish")
  /\ UNCHANGED <<finished, shutdown>>

\* A bug: an undelivered answer is only logged.
UndeliveredIgnored == Rest

\* What Run does when Finish failed.
Undelivered ==
  IF loop.id \in DOMAIN routes
  THEN [loop EXCEPT !.at = "abandon", !.peer = routes[loop.id]]
  ELSE Rest

\* Finish posts the result: it is delivered, or the call fails.
Finish(ok) ==
  /\ loop.at = "finish"
  /\ finished' = With(finished, loop.id, ok)
  /\ loop' = IF ok THEN Rest ELSE Undelivered
  /\ UNCHANGED <<peers, routes, shutdown>>

\* Run calls close() on the peer whose answer was not delivered.
Abandon ==
  /\ loop.at = "abandon"
  /\ peers' = Closing(loop.peer)
  /\ loop' = IF peers[loop.peer].phase = "closed" THEN Rest ELSE loop
  /\ UNCHANGED <<routes, finished, shutdown>>

\* The context of Run is cancelled: SIGTERM.
Cancel ==
  /\ ~shutdown /\ shutdown' = TRUE
  /\ UNCHANGED <<loop, peers, routes, finished>>

\* A bug: Run returns without Runtime.Close.
UniqueNone == {}

\* The peers Runtime.Close finds.
Unique == {routes[i] : i \in DOMAIN routes}

\* Runtime.Close collects the peers and closes one after the other.
Stop ==
  /\ loop.at = "poll" /\ shutdown
  /\ loop' = [loop EXCEPT !.at = "stopping", !.left = Unique]
  /\ UNCHANGED <<peers, routes, finished, shutdown>>

StopPeer(p) ==
  /\ loop.at = "stopping" /\ p \in loop.left /\ loop.peer \in {NoPeer, p}
  /\ peers' = Closing(p)
  /\ loop' = IF peers[p].phase = "closed"
             THEN [loop EXCEPT !.left = @ \ {p}, !.peer = NoPeer]
             ELSE [loop EXCEPT !.peer = p]
  /\ UNCHANGED <<routes, finished, shutdown>>

Stopped ==
  /\ loop.at = "stopping" /\ loop.left = {}
  /\ Goto("stopped")
  /\ UNCHANGED <<peers, routes, finished, shutdown>>

RunStep ==
  \/ NewPeerFails \/ Restart \/ Negotiate \/ GatherCancelled \/ Abort \/ AddAlias \/ Register
  \/ Abandon \/ Stop \/ Stopped
  \/ \E p \in PeerIds : NewPeer(p) \/ StopPeer(p)
  \/ \E ok \in BOOLEAN : Finish(ok)
-----------------------------------------------------------------------------
\* The rest of close(): under the peer's lock, stop the timer and copy the aliases;
Collect(p) ==
  /\ peers[p].phase = "cancelled"
  /\ peers' = [peers EXCEPT ![p].phase = "collected",
                            ![p].timer = IF @ = "armed" THEN "spent" ELSE @,
                            ![p].doomed = peers[p].aliases]
  /\ UNCHANGED <<loop, routes, finished, shutdown>>

\* A bug: the routes stay.
RoutesKept(p) == DOMAIN routes

\* The routes that are left when those of p are deleted.
RoutesWithout(p) == DOMAIN routes \ {i \in peers[p].doomed : i \in DOMAIN routes /\ routes[i] = p}

\* under the runtime's, delete them from the map;
Unroute(p) ==
  /\ peers[p].phase = "collected"
  /\ routes' = [i \in RoutesWithout(p) |-> routes[i]]
  /\ peers' = [peers EXCEPT ![p].phase = "unrouted"]
  /\ UNCHANGED <<loop, finished, shutdown>>

\* and close the connection.
Disconnect(p) ==
  /\ peers[p].phase = "unrouted"
  /\ peers' = [peers EXCEPT ![p].phase = "closed"]
  /\ UNCHANGED <<loop, routes, finished, shutdown>>

CloseStep(p) == Collect(p) \/ Unroute(p) \/ Disconnect(p)

\* OnICECandidate: a relay candidate closes the peer while it gathers.
RelayCandidate(p) ==
  /\ loop.at = "gather" /\ loop.peer = p /\ Open(p) /\ MaxPending[p] > 0
  /\ peers' = Closing(p)
  /\ UNCHANGED <<loop, routes, finished, shutdown>>

\* The library's connection changes state and calls the handler in a goroutine
\* of its own, so two handlers may run in either order.
LinkChange(p, state) ==
  /\ peers[p].phase # "closed" /\ Len(peers[p].pending) + peers[p].checks < MaxPending[p]
  /\ peers[p].link # state /\ state # "new" /\ peers[p].link # "failed"
  /\ state = "disconnected" => peers[p].link = "connected"
  /\ peers[p].link = "new" => peers[p].aliases # {}
  /\ peers' = [peers EXCEPT ![p].link = state, ![p].pending = Append(@, state)]
  /\ UNCHANGED <<loop, routes, finished, shutdown>>

\* s without its i-th element.
Without(s, i) == SubSeq(s, 1, i - 1) \o SubSeq(s, i + 1, Len(s))

\* A bug: a failed connection is treated as one that may come back.
HandledFailedWaits(p, state) ==
  IF state = "connected" THEN [peers[p] EXCEPT !.timer = "none", !.checks = @ + 1]
  ELSE [peers[p] EXCEPT !.timer = IF @ = "none" THEN "armed" ELSE @]

\* onConnectionState, what it does to the peer's record.
Handled(p, state) ==
  CASE state = "connected" -> [peers[p] EXCEPT !.timer = "none", !.checks = @ + 1]
    [] state = "disconnected" -> [peers[p] EXCEPT !.timer = IF @ = "none" THEN "armed" ELSE @]
    [] state = "failed" -> Closing(p)[p]

OnConnectionState(p, i) ==
  /\ i \in DOMAIN peers[p].pending
  /\ peers' = [peers EXCEPT ![p] =
       [Handled(p, peers[p].pending[i]) EXCEPT !.pending = Without(@, i)]]
  /\ UNCHANGED <<loop, routes, finished, shutdown>>

\* disconnectedTimeout passes; time.AfterFunc starts a goroutine that a later
\* Stop does not reach.
TimerFires(p) ==
  /\ peers[p].timer = "armed"
  /\ peers' = [peers EXCEPT ![p].timer = "spent", ![p].fired = TRUE]
  /\ UNCHANGED <<loop, routes, finished, shutdown>>

TimerCloses(p) ==
  /\ peers[p].fired
  /\ peers' = [Closing(p) EXCEPT ![p].fired = FALSE]
  /\ UNCHANGED <<loop, routes, finished, shutdown>>

\* verifySelectedPair finds a pair that is allowed, or closes the peer.
VerifySelectedPair(p) ==
  /\ peers[p].checks > 0
  /\ \E ok \in BOOLEAN :
       peers' = [(IF ok THEN peers ELSE Closing(p)) EXCEPT ![p].checks = @ - 1]
  /\ UNCHANGED <<loop, routes, finished, shutdown>>

Callback(p) ==
  \/ \E i \in 1..MaxPending[p] : OnConnectionState(p, i)
  \/ TimerFires(p) \/ TimerCloses(p) \/ VerifySelectedPair(p)

Next ==
  \/ \E id \in OfferIds, of \in OfferIds \cup {NoId}, g \in Grants, valid \in BOOLEAN :
       Poll(id, of, g, valid)
  \/ RunStep \/ Gathered \/ Cancel
  \/ \E p \in DOMAIN peers :
       \/ CloseStep(p) \/ RelayCandidate(p) \/ Callback(p)
       \/ \E state \in Links : LinkChange(p, state)

Spec == Init /\ [][Next]_vars

\* Goroutines that can run do.  Gathering ends as long as the peer is open;
\* nothing is promised of the network or of the Controller's offers.
Fairness ==
  /\ WF_vars(RunStep)
  /\ WF_vars(loop.peer \in DOMAIN peers /\ Open(loop.peer) /\ Gathered)
  /\ \A p \in PeerIds :
       /\ WF_vars(p \in DOMAIN peers /\ CloseStep(p))
       /\ WF_vars(p \in DOMAIN peers /\ Callback(p))

FairSpec == Spec /\ Fairness
-----------------------------------------------------------------------------
\* Between two offers every peer that is open serves a browser: it has an alias,
\* each alias routes to it, and the answer of each alias was delivered.  So no
\* failed negotiation or lost answer leaves a connection nobody can name.
NoOrphanPeer ==
  /\ TypeOK
  /\ loop.at = "poll" => \A p \in DOMAIN peers : Open(p) =>
       /\ peers[p].aliases # {}
       /\ \A i \in peers[p].aliases : i \in DOMAIN routes /\ routes[i] = p /\ finished[i]

\* A closed peer is gone from the runtime's map; only addAlias overlapping
\* close() can leave an entry behind.
OnlyRaceLeaks ==
  \A p \in DOMAIN peers : peers[p].phase = "closed" /\ ~peers[p].raced =>
    \A i \in DOMAIN routes : routes[i] # p

\* When Run returns, close() has been called on every peer it ever created.
StoppedClosesAll == loop.at = "stopped" => \A p \in DOMAIN peers : ~Open(p)

\* The loop that serves every browser is never stuck in one offer, even when
\* the peer it negotiates is closed under it.
LoopReturns == loop.at # "poll" ~> loop.at \in {"poll", "stopped"}

\* A connection that failed is torn down, in whatever order the handlers run.
LossClosesPeer ==
  \A p \in PeerIds :
    (p \in DOMAIN peers /\ peers[p].link = "failed")
      ~> (p \in DOMAIN peers /\ peers[p].phase = "closed")
=============================================================================

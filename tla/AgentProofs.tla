---------------------------- MODULE AgentProofs ----------------------------
(***************************************************************************)
(* Proofs about the Agent's offer loop and its peers, for any sets of      *)
(* offers, peers and grants, any limit on restarts, and any number of      *)
(* goroutines of the library's callbacks.                                  *)
(***************************************************************************)
EXTENDS Agent, SequenceTheorems, TLAPS

(***************************************************************************)
(* The inductive invariant.  NoOrphanPeer speaks of the moments between    *)
(* two offers; while the loop handles an offer, the peer in hand may be    *)
(* without an alias, and its newest alias without a route or a delivered   *)
(* answer, and the invariant says where the loop is then.  OnlyRaceLeaks   *)
(* speaks of closed peers; what close() still has to delete is among the   *)
(* aliases it collected, unless addAlias came later.                       *)
(***************************************************************************)
Handling == {"accept", "negotiate", "gather", "abort", "alias", "register", "finish"}
Serving == {"negotiate", "gather", "abort", "alias", "register", "abandon"}

LoopInv ==
  /\ loop.at \in Handling => loop.id \in OfferIds /\ loop.id \notin DOMAIN finished
  /\ loop.at = "accept" => loop.grant \in Grants
  /\ loop.at \in Serving => loop.peer \in DOMAIN peers
  /\ loop.at = "abort" => loop.of = NoId
  /\ loop.at = "register" => loop.id \in peers[loop.peer].aliases
  /\ loop.at = "stopped" => loop.left = {}
  /\ loop.left \subseteq DOMAIN peers

\* Peer p has a name, or the loop is about to give it its first.
Named(p) ==
  \/ peers[p].aliases # {}
  \/ loop.peer = p /\ loop.of = NoId /\ loop.at \in {"negotiate", "gather", "abort", "alias"}

\* Alias i of p is routed and its answer delivered, or the loop is not done with it.
Reachable(p, i) ==
  \/ i = loop.id /\ loop.peer = p /\ loop.at = "register"
  \/ /\ i \in DOMAIN routes /\ routes[i] = p
     /\ \/ i \in DOMAIN finished /\ finished[i]
        \/ i = loop.id /\ loop.at = "finish"
        \/ i = loop.id /\ loop.at = "abandon" /\ loop.peer = p

\* A route to p bears an alias of p; once close() has collected the aliases it is among
\* them, and once it has deleted them there is none.
Routed(p) ==
  \A i \in DOMAIN routes : routes[i] = p =>
    /\ i \in peers[p].aliases
    /\ ~peers[p].raced =>
         /\ peers[p].phase \notin {"unrouted", "closed"}
         /\ peers[p].phase = "collected" => i \in peers[p].doomed

PeerInv(p) ==
  /\ Open(p) => Named(p) /\ \A i \in peers[p].aliases : Reachable(p, i)
  /\ Open(p) /\ loop.at \in {"stopping", "stopped"} => p \in loop.left
  /\ Routed(p)

AgentInv == TypeOK /\ LoopInv /\ \A p \in DOMAIN peers : PeerInv(p)
-----------------------------------------------------------------------------
\* What the goroutines beside the loop may make of a peer's record: the aliases stay, no
\* close() is taken back, and the aliases are collected once.
Evolves(s, r) ==
  /\ r \in Peer /\ r.aliases = s.aliases /\ r.raced = s.raced
  /\ r.phase = "open" => s.phase = "open"
  /\ r.phase = "collected" => r.doomed = s.aliases \/ (s.phase = "collected" /\ r.doomed = s.doomed)
  /\ r.phase \in {"unrouted", "closed"} => s.phase \in {"unrouted", "closed"}

\* A step that changes one peer in this way keeps the invariant.
LEMMA PeerKeeps ==
  ASSUME AgentInv, NEW p \in DOMAIN peers, NEW r, Evolves(peers[p], r),
         peers' = [peers EXCEPT ![p] = r], UNCHANGED <<routes, finished, shutdown>>,
         loop' = loop \/ (loop.at = "stopping" /\ loop' = [loop EXCEPT !.peer = p])
  PROVE  AgentInv'
<1>1. /\ peers \in [DOMAIN peers -> Peer] /\ DOMAIN peers \subseteq PeerIds
      /\ DOMAIN peers' = DOMAIN peers /\ loop \in Loop
  BY DEF AgentInv, TypeOK
<1>2. peers' \in [DOMAIN peers' -> Peer]
  BY <1>1 DEF Evolves
<1>3. /\ loop' \in Loop /\ loop'.at = loop.at /\ loop'.id = loop.id /\ loop'.of = loop.of
      /\ loop'.grant = loop.grant /\ loop'.left = loop.left
      /\ loop'.peer = loop.peer \/ loop.at = "stopping"
  BY <1>1 DEF Loop
<1>4. TypeOK'
  BY <1>1, <1>2, <1>3 DEF AgentInv, TypeOK
<1>5. LoopInv'
  <2>1. \A q \in DOMAIN peers : peers'[q].aliases = peers[q].aliases
    BY <1>1 DEF Evolves
  <2>. QED
    BY <1>1, <1>3, <2>1 DEF AgentInv, LoopInv, Serving
<1>6. ASSUME NEW q \in DOMAIN peers PROVE PeerInv(q)'
  <2>1. /\ peers'[q].aliases = peers[q].aliases /\ peers'[q].raced = peers[q].raced
        /\ peers'[q].phase = "open" => peers[q].phase = "open"
        /\ peers'[q].phase = "collected" =>
             \/ peers'[q].doomed = peers[q].aliases
             \/ peers[q].phase = "collected" /\ peers'[q].doomed = peers[q].doomed
        /\ peers'[q].phase \in {"unrouted", "closed"} => peers[q].phase \in {"unrouted", "closed"}
    BY <1>1 DEF Evolves
  <2>2. PeerInv(q)
    BY DEF AgentInv
  <2>3. Routed(q)'
    BY <2>1, <2>2 DEF PeerInv, Routed
  <2>4. Open(q)' => Named(q)'
    BY <1>3, <2>1, <2>2 DEF PeerInv, Named, Open
  <2>5. Open(q)' => \A i \in peers'[q].aliases : Reachable(q, i)'
    BY <1>3, <2>1, <2>2 DEF PeerInv, Reachable, Open
  <2>6. Open(q)' /\ loop'.at \in {"stopping", "stopped"} => q \in loop'.left
    BY <1>3, <2>1, <2>2 DEF PeerInv, Open
  <2>. QED
    BY <2>3, <2>4, <2>5, <2>6 DEF PeerInv
<1>. QED
  BY <1>1, <1>4, <1>5, <1>6 DEF AgentInv

\* close() on a peer marks it, or finds that it was called before.
LEMMA ClosingEvolves ==
  ASSUME AgentInv, NEW p \in DOMAIN peers
  PROVE  /\ \E r : Evolves(peers[p], r) /\ Closing(p) = [peers EXCEPT ![p] = r]
         /\ Evolves(peers[p], Closing(p)[p]) /\ Closing(p) = [peers EXCEPT ![p] = Closing(p)[p]]
         /\ DOMAIN Closing(p) = DOMAIN peers
<1>1. peers \in [DOMAIN peers -> Peer] /\ peers[p] \in Peer
  BY DEF AgentInv, TypeOK
<1>. DEFINE r == IF Open(p) THEN [peers[p] EXCEPT !.phase = "cancelled"] ELSE peers[p]
<1>2. Evolves(peers[p], r)
  BY Zenon, <1>1 DEF Evolves, Peer, Phases, Open
<1>3. Closing(p) = [peers EXCEPT ![p] = r]
  BY Zenon, <1>1 DEF Closing
<1>4. Closing(p)[p] = r /\ DOMAIN Closing(p) = DOMAIN peers
  BY <1>1, <1>3
<1>. QED
  BY Zenon, <1>2, <1>3, <1>4

\* A sequence stays a sequence when an element is taken out.
LEMMA WithoutTyped ==
  ASSUME NEW S, NEW s \in Seq(S), NEW i \in DOMAIN s
  PROVE  Without(s, i) \in Seq(S)
<1>1. i \in 1..Len(s) /\ Len(s) \in Nat
  BY LenProperties
<1>2. SubSeq(s, 1, i - 1) \in Seq(S)
  BY <1>1, SubSeqProperties
<1>3. SubSeq(s, i + 1, Len(s)) \in Seq(S)
  BY <1>1, SubSeqProperties
<1>. QED
  BY <1>2, <1>3, ConcatProperties DEF Without

\* The steps of close(), but for the deletion of the routes, and of the library's callbacks.
LEMMA CallbackKeeps ==
  ASSUME AgentInv, NEW p \in DOMAIN peers,
         Collect(p) \/ Disconnect(p) \/ RelayCandidate(p) \/ Callback(p)
           \/ \E state \in Links : LinkChange(p, state)
  PROVE  AgentInv'
<1>1. peers \in [DOMAIN peers -> Peer] /\ peers[p] \in Peer
  BY DEF AgentInv, TypeOK
<1>. SUFFICES \E r : /\ Evolves(peers[p], r) /\ peers' = [peers EXCEPT ![p] = r]
                     /\ UNCHANGED <<loop, routes, finished, shutdown>>
  BY Zenon, PeerKeeps
<1>2. CASE Collect(p)
  <2>. DEFINE r == [peers[p] EXCEPT !.phase = "collected",
                      !.timer = IF @ = "armed" THEN "spent" ELSE @, !.doomed = peers[p].aliases]
  <2>1. Evolves(peers[p], r)
    BY Zenon, <1>1 DEF Evolves, Peer, Phases
  <2>2. peers' = [peers EXCEPT ![p] = r] /\ UNCHANGED <<loop, routes, finished, shutdown>>
    BY Zenon, <1>1, <1>2 DEF Collect
  <2>. QED
    BY Zenon, <2>1, <2>2
<1>3. CASE Disconnect(p)
  <2>. DEFINE r == [peers[p] EXCEPT !.phase = "closed"]
  <2>1. Evolves(peers[p], r)
    BY Zenon, <1>1, <1>3 DEF Disconnect, Evolves, Peer, Phases
  <2>2. peers' = [peers EXCEPT ![p] = r] /\ UNCHANGED <<loop, routes, finished, shutdown>>
    BY <1>1, <1>3 DEF Disconnect
  <2>. QED
    BY Zenon, <2>1, <2>2
<1>4. CASE RelayCandidate(p)
  BY <1>4, ClosingEvolves DEF RelayCandidate
<1>5. ASSUME NEW state \in Links, LinkChange(p, state)
      PROVE  \E r : /\ Evolves(peers[p], r) /\ peers' = [peers EXCEPT ![p] = r]
                    /\ UNCHANGED <<loop, routes, finished, shutdown>>
  <2>. DEFINE r == [peers[p] EXCEPT !.link = state, !.pending = Append(@, state)]
  <2>1. Append(peers[p].pending, state) \in Seq(Links \ {"new"})
    BY Zenon, <1>1, <1>5, AppendProperties DEF Peer, LinkChange
  <2>2. Evolves(peers[p], r)
    BY Zenon, <1>1, <2>1 DEF Evolves, Peer, Phases
  <2>3. peers' = [peers EXCEPT ![p] = r] /\ UNCHANGED <<loop, routes, finished, shutdown>>
    BY Zenon, <1>1, <1>5 DEF LinkChange
  <2>. QED
    BY Zenon, <2>2, <2>3
<1>6. ASSUME NEW i \in 1..MaxPending[p], OnConnectionState(p, i)
      PROVE  \E r : /\ Evolves(peers[p], r) /\ peers' = [peers EXCEPT ![p] = r]
                    /\ UNCHANGED <<loop, routes, finished, shutdown>>
  <2>. DEFINE h == Handled(p, peers[p].pending[i])
              r == [h EXCEPT !.pending = Without(@, i)]
  <2>1. /\ i \in DOMAIN peers[p].pending /\ peers' = [peers EXCEPT ![p] = r]
        /\ UNCHANGED <<loop, routes, finished, shutdown>>
    BY <1>6 DEF OnConnectionState
  <2>2. peers[p].pending \in Seq(Links \ {"new"})
    BY <1>1 DEF Peer
  <2>3. peers[p].pending[i] \in Links \ {"new"}
    BY <2>1, <2>2
  <2>4. Without(peers[p].pending, i) \in Seq(Links \ {"new"})
    BY <2>1, <2>2, WithoutTyped
  <2>5. Evolves(peers[p], h) /\ h.pending = peers[p].pending
    <3>1. CASE peers[p].pending[i] = "connected"
      <4>1. h = [peers[p] EXCEPT !.timer = "none", !.checks = peers[p].checks + 1]
        BY <1>1, <3>1 DEF Handled
      <4>2. PICK n \in Nat : n = peers[p].checks + 1
        BY <1>1 DEF Peer
      <4>3. h = [peers[p] EXCEPT !.timer = "none", !.checks = n]
        BY <4>1, <4>2, Zenon
      <4>. HIDE DEF h
      <4>. QED
        BY <1>1, <4>3, Zenon DEF Evolves, Peer
    <3>2. CASE peers[p].pending[i] = "disconnected"
      <4>1. h = [peers[p] EXCEPT !.timer = IF @ = "none" THEN "armed" ELSE @]
        BY <3>2 DEF Handled
      <4>. HIDE DEF h
      <4>. QED
        BY Zenon, <1>1, <4>1 DEF Evolves, Peer
    <3>3. CASE peers[p].pending[i] = "failed"
      <4>1. h = Closing(p)[p]
        BY <3>3 DEF Handled
      <4>2. Closing(p)[p].pending = peers[p].pending
        BY <1>1 DEF Closing, Peer
      <4>. QED
        BY <4>1, <4>2, ClosingEvolves
    <3>. QED
      BY <2>3, <3>1, <3>2, <3>3 DEF Links
  <2>6. Evolves(peers[p], r)
    BY Zenon, <2>4, <2>5 DEF Evolves, Peer
  <2>. QED
    BY Zenon, <2>1, <2>6
<1>7. CASE TimerFires(p)
  <2>. DEFINE r == [peers[p] EXCEPT !.timer = "spent", !.fired = TRUE]
  <2>1. Evolves(peers[p], r)
    BY Zenon, <1>1 DEF Evolves, Peer, Phases
  <2>2. peers' = [peers EXCEPT ![p] = r] /\ UNCHANGED <<loop, routes, finished, shutdown>>
    BY Zenon, <1>1, <1>7 DEF TimerFires
  <2>. QED
    BY Zenon, <2>1, <2>2
<1>8. CASE TimerCloses(p)
  <2>. DEFINE h == Closing(p)[p]
              r == [h EXCEPT !.fired = FALSE]
  <2>1. Evolves(peers[p], r)
    <3>1. Evolves(peers[p], h)
      BY ClosingEvolves
    <3>. HIDE DEF h
    <3>. QED
      BY Zenon, <3>1 DEF Evolves, Peer
  <2>2. peers' = [peers EXCEPT ![p] = r] /\ UNCHANGED <<loop, routes, finished, shutdown>>
    BY Zenon, <1>1, <1>8, ClosingEvolves DEF TimerCloses
  <2>. QED
    BY Zenon, <2>1, <2>2
<1>9. CASE VerifySelectedPair(p)
  <2>1. PICK ok \in BOOLEAN :
          peers' = [(IF ok THEN peers ELSE Closing(p)) EXCEPT ![p].checks = @ - 1]
    BY <1>9 DEF VerifySelectedPair
  <2>. DEFINE h == IF ok THEN peers[p] ELSE Closing(p)[p]
              r == [h EXCEPT !.checks = @ - 1]
  <2>2. Evolves(peers[p], h) /\ h.checks > 0
    <3>1. peers[p].checks > 0
      BY <1>9 DEF VerifySelectedPair
    <3>2. Closing(p)[p].checks = peers[p].checks
      BY <1>1 DEF Closing, Peer
    <3>3. Evolves(peers[p], peers[p])
      BY <1>1 DEF Evolves
    <3>. QED
      BY <3>1, <3>2, <3>3, ClosingEvolves
  <2>3. Evolves(peers[p], r)
    BY <2>2 DEF Evolves, Peer
  <2>4. peers' = [peers EXCEPT ![p] = r]
    BY <1>1, <2>1, ClosingEvolves
  <2>. QED
    BY <1>9, <2>3, <2>4 DEF VerifySelectedPair
<1>. QED
  BY <1>2, <1>3, <1>4, <1>5, <1>6, <1>7, <1>8, <1>9, Zenon DEF Callback

\* close() deletes exactly the routes it collected; those of other peers stay.
LEMMA UnrouteKeeps ==
  ASSUME AgentInv, NEW p \in DOMAIN peers, Unroute(p)
  PROVE  AgentInv'
<1>1. /\ peers \in [DOMAIN peers -> Peer] /\ DOMAIN peers \subseteq PeerIds
      /\ DOMAIN routes \subseteq OfferIds /\ routes \in [DOMAIN routes -> DOMAIN peers]
  BY DEF AgentInv, TypeOK
<1>2. /\ peers[p].phase = "collected" /\ routes' = [i \in RoutesWithout(p) |-> routes[i]]
      /\ peers' = [peers EXCEPT ![p].phase = "unrouted"]
      /\ UNCHANGED <<loop, finished, shutdown>>
  BY DEF Unroute
<1>3. /\ DOMAIN peers' = DOMAIN peers /\ peers' \in [DOMAIN peers -> Peer]
      /\ \A q \in DOMAIN peers : q # p => peers'[q] = peers[q]
      /\ peers'[p].aliases = peers[p].aliases /\ peers'[p].phase = "unrouted"
      /\ peers'[p].raced = peers[p].raced
  <2>. DEFINE r == [peers[p] EXCEPT !.phase = "unrouted"]
  <2>1. peers' = [peers EXCEPT ![p] = r]
    BY <1>1, <1>2
  <2>2. /\ r \in Peer /\ r.aliases = peers[p].aliases /\ r.phase = "unrouted"
        /\ r.raced = peers[p].raced
    BY ZenonT(30), <1>1 DEF Peer, Phases
  <2>. HIDE DEF r
  <2>. QED
    BY <1>1, <2>1, <2>2
<1>4. /\ RoutesWithout(p) \subseteq DOMAIN routes /\ DOMAIN routes' = RoutesWithout(p)
      /\ \A i \in RoutesWithout(p) : routes'[i] = routes[i]
      /\ \A i \in DOMAIN routes : routes[i] # p => i \in RoutesWithout(p)
      /\ \A i \in RoutesWithout(p) : routes[i] = p => i \notin peers[p].doomed
  BY <1>2 DEF RoutesWithout
<1>5. TypeOK'
  BY <1>1, <1>2, <1>3, <1>4 DEF AgentInv, TypeOK
<1>6. LoopInv'
  BY <1>2, <1>3 DEF AgentInv, LoopInv, Serving
<1>7. ASSUME NEW q \in DOMAIN peers PROVE PeerInv(q)'
  <2>1. PeerInv(q)
    BY DEF AgentInv
  <2>2. CASE q = p
    BY <1>2, <1>3, <1>4, <2>1, <2>2 DEF PeerInv, Routed, Open
  <2>3. CASE q # p
    <3>1. Routed(q)'
      BY <1>3, <1>4, <2>1, <2>3 DEF PeerInv, Routed
    <3>2. Open(q)' => Named(q)'
      BY <1>2, <1>3, <2>1, <2>3 DEF PeerInv, Named, Open
    <3>3. Open(q)' => \A i \in peers'[q].aliases : Reachable(q, i)'
      BY <1>2, <1>3, <1>4, <2>1, <2>3 DEF PeerInv, Reachable, Open
    <3>4. Open(q)' /\ loop'.at \in {"stopping", "stopped"} => q \in loop'.left
      BY <1>2, <1>3, <2>1, <2>3 DEF PeerInv, Open
    <3>. QED
      BY <3>1, <3>2, <3>3, <3>4 DEF PeerInv
  <2>. QED
    BY <2>2, <2>3
<1>. QED
  BY <1>3, <1>5, <1>6, <1>7 DEF AgentInv
-----------------------------------------------------------------------------
(***************************************************************************)
(* The steps of Run.                                                       *)
(***************************************************************************)

\* A step that only moves the loop has to account for the peers that are open.
LEMMA LoopMoves ==
  ASSUME AgentInv, UNCHANGED <<peers, routes>>, loop' \in Loop, shutdown' \in BOOLEAN,
         DOMAIN finished' \subseteq OfferIds, finished' \in [DOMAIN finished' -> BOOLEAN],
         LoopInv',
         \A p \in DOMAIN peers : Open(p) => Named(p)',
         \A p \in DOMAIN peers : Open(p) => \A i \in peers[p].aliases : Reachable(p, i)',
         \A p \in DOMAIN peers :
           Open(p) /\ loop'.at \in {"stopping", "stopped"} => p \in loop'.left
  PROVE  AgentInv'
<1>1. TypeOK'
  BY DEF AgentInv, TypeOK
<1>2. ASSUME NEW p \in DOMAIN peers PROVE PeerInv(p)'
  <2>1. Routed(p)'
    BY DEF AgentInv, PeerInv, Routed
  <2>. QED
    BY <2>1 DEF PeerInv, Open
<1>. QED
  BY <1>1, <1>2 DEF AgentInv

\* An alias that is routed and whose answer was delivered.
Served(p, i) == i \in DOMAIN routes /\ routes[i] = p /\ i \in DOMAIN finished /\ finished[i]

\* Away from the end of an offer, every alias of an open peer is served, and every open
\* peer but the one in hand has a name.
LEMMA OpenIsServed ==
  ASSUME AgentInv, NEW p \in DOMAIN peers, Open(p)
  PROVE  /\ loop.at \notin {"register", "finish", "abandon"} =>
              \A i \in peers[p].aliases : Served(p, i)
         /\ loop.at \notin {"negotiate", "gather", "abort", "alias"} => peers[p].aliases # {}
         /\ loop.peer # p \/ loop.of # NoId => peers[p].aliases # {}
BY DEF AgentInv, PeerInv, Reachable, Served, Named

\* Negotiation goes on or fails; a new peer that failed is on its way to be closed.
LEMMA GotoKeeps ==
  ASSUME AgentInv, NEW place \in {"gather", "alias", "abort", "finish"}, Goto(place),
         UNCHANGED <<peers, routes, finished, shutdown>>,
         loop.at \in {"accept", "negotiate", "gather"},
         place # "finish" => loop.at \in {"negotiate", "gather"},
         place = "abort" => loop.of = NoId,
         place = "finish" => loop.at = "accept" \/ loop.of # NoId
  PROVE  AgentInv'
<1>1. loop \in Loop /\ LoopInv
  BY DEF AgentInv, TypeOK
<1>2. /\ DOMAIN finished \subseteq OfferIds /\ finished \in [DOMAIN finished -> BOOLEAN]
      /\ shutdown \in BOOLEAN
  BY DEF AgentInv, TypeOK
<1>3. /\ loop' \in Loop /\ loop'.at = place /\ loop'.id = loop.id /\ loop'.of = loop.of
      /\ loop'.grant = loop.grant /\ loop'.left = loop.left /\ loop'.peer = loop.peer
  BY <1>1 DEF Loop, Places, Goto
<1>4. LoopInv'
  BY <1>1, <1>3 DEF LoopInv, Serving, Handling
<1>5. \A p \in DOMAIN peers : Open(p) => Named(p)'
  BY <1>3 DEF AgentInv, PeerInv, Named
<1>6. \A p \in DOMAIN peers : Open(p) => \A i \in peers[p].aliases : Reachable(p, i)'
  BY OpenIsServed DEF Served, Reachable
<1>. QED
  BY <1>2, <1>3, <1>4, <1>5, <1>6, LoopMoves

\* The loop takes an offer, fails, or goes on; no peer and no route changes, and the offer
\* in hand is not finished.
LEMMA MoveKeeps ==
  ASSUME AgentInv,
         \/ \E id \in OfferIds, of \in OfferIds \cup {NoId}, g \in Grants, valid \in BOOLEAN :
              Poll(id, of, g, valid)
         \/ NewPeerFails \/ Negotiate \/ Gathered \/ GatherCancelled
  PROVE  AgentInv'
<1>1. loop \in Loop /\ LoopInv
  BY DEF AgentInv, TypeOK
<1>2. /\ DOMAIN finished \subseteq OfferIds /\ finished \in [DOMAIN finished -> BOOLEAN]
      /\ shutdown \in BOOLEAN
  BY DEF AgentInv, TypeOK
<1>3. CASE \E id \in OfferIds, of \in OfferIds \cup {NoId}, g \in Grants, valid \in BOOLEAN :
             Poll(id, of, g, valid)
  <2>1. PICK id \in OfferIds, of \in OfferIds \cup {NoId}, g \in Grants, valid \in BOOLEAN :
          Poll(id, of, g, valid)
    BY <1>3
  <2>2. PICK place \in {"accept", "finish"} :
          loop' = [loop EXCEPT !.at = place, !.id = id, !.of = of, !.grant = g]
    BY Zenon, <2>1 DEF Poll
  <2>3. /\ loop.at = "poll" /\ id \notin DOMAIN finished
        /\ UNCHANGED <<peers, routes, finished, shutdown>>
    BY Zenon, <2>1 DEF Poll, Unused
  <2>4. /\ loop' \in Loop /\ loop'.at = place /\ loop'.id = id /\ loop'.of = of /\ loop'.grant = g
        /\ loop'.left = loop.left
    BY Zenon, <1>1, <2>2 DEF Loop, Places
  <2>5. LoopInv'
    BY <1>1, <2>3, <2>4 DEF LoopInv, Serving
  <2>6. \A p \in DOMAIN peers : Open(p) =>
          Named(p)' /\ \A i \in peers[p].aliases : Reachable(p, i)'
    BY <2>3, OpenIsServed DEF Served, Named, Reachable
  <2>. QED
    BY <1>2, <2>3, <2>4, <2>5, <2>6, LoopMoves
<1>4. CASE NewPeerFails
  BY <1>4, GotoKeeps DEF NewPeerFails
<1>5. CASE Negotiate
  BY <1>5, GotoKeeps DEF Negotiate, AfterFailure
<1>6. CASE Gathered
  BY <1>6, GotoKeeps DEF Gathered, AfterFailure
<1>7. CASE GatherCancelled
  BY <1>7, GotoKeeps DEF GatherCancelled, AfterFailure
<1>. QED
  BY <1>3, <1>4, <1>5, <1>6, <1>7

\* A restart counts the attempt on the peer its route leads to, which has an alias, or fails.
LEMMA RestartKeeps == ASSUME AgentInv, Restart PROVE AgentInv'
<1>1. loop \in Loop /\ LoopInv /\ peers \in [DOMAIN peers -> Peer] /\ DOMAIN peers \subseteq PeerIds
  BY DEF AgentInv, TypeOK
<1>2. UNCHANGED <<routes, finished, shutdown>> /\ loop.at = "accept" /\ loop.of # NoId
  BY DEF Restart
<1>3. CASE Goto("finish") /\ UNCHANGED peers
  BY <1>2, <1>3, GotoKeeps
<1>4. CASE /\ loop.of \in DOMAIN routes /\ Restartable(routes[loop.of])
           /\ peers' = [peers EXCEPT ![routes[loop.of]].restarts = Counted(@)]
           /\ loop' = [loop EXCEPT !.at = "negotiate", !.peer = routes[loop.of]]
  <2>. DEFINE p == routes[loop.of]
              r == [peers[p] EXCEPT !.restarts = @ + 1]
  <2>1. p \in DOMAIN peers /\ p \in PeerIds
    BY <1>1, <1>4 DEF AgentInv, TypeOK
  <2>2. peers[p].restarts + 1 \in 0..MaxRestarts
    BY <1>1, <1>4, <2>1, AgentAssumption DEF Restartable, Peer
  <2>3. /\ r \in Peer /\ r.aliases = peers[p].aliases /\ r.phase = peers[p].phase
        /\ r.raced = peers[p].raced /\ r.doomed = peers[p].doomed
    <3>1. PICK n \in 0..MaxRestarts : n = peers[p].restarts + 1
      BY <2>2
    <3>2. r = [peers[p] EXCEPT !.restarts = n] /\ peers[p] \in Peer
      BY <1>1, <2>1, <3>1
    <3>. HIDE DEF r, p
    <3>. QED
      BY <3>2, Zenon DEF Peer
  <2>4. peers' = [peers EXCEPT ![p] = r] /\ loop' = [loop EXCEPT !.at = "negotiate", !.peer = p]
    BY <1>1, <1>4, <2>1 DEF Counted
  <2>. HIDE DEF r, p
  <2>5. /\ loop' \in Loop /\ loop'.at = "negotiate" /\ loop'.id = loop.id /\ loop'.of = loop.of
        /\ loop'.grant = loop.grant /\ loop'.left = loop.left /\ loop'.peer = p
    BY Zenon, <1>1, <2>1, <2>4 DEF Loop, Places
  <2>6. /\ DOMAIN peers' = DOMAIN peers /\ peers' \in [DOMAIN peers -> Peer]
        /\ \A q \in DOMAIN peers :
             /\ peers'[q].aliases = peers[q].aliases /\ peers'[q].phase = peers[q].phase
             /\ peers'[q].raced = peers[q].raced /\ peers'[q].doomed = peers[q].doomed
    BY <1>1, <2>1, <2>3, <2>4
  <2>7. TypeOK'
    BY <1>2, <2>5, <2>6 DEF AgentInv, TypeOK
  <2>8. LoopInv'
    BY <1>1, <1>2, <2>1, <2>5, <2>6 DEF LoopInv, Serving, Handling
  <2>9. ASSUME NEW q \in DOMAIN peers PROVE PeerInv(q)'
    <3>1. Routed(q)'
      BY <1>2, <2>6 DEF AgentInv, PeerInv, Routed
    <3>2. Open(q)' => Open(q)
      BY <2>6 DEF Open
    <3>3. Open(q)' => Named(q)' /\ \A i \in peers'[q].aliases : Reachable(q, i)'
      BY <1>2, <2>6, <3>2, OpenIsServed DEF Named, Served, Reachable
    <3>. QED
      BY <2>5, <3>1, <3>3 DEF PeerInv
  <2>. QED
    BY <2>6, <2>7, <2>8, <2>9 DEF AgentInv
<1>. QED
  BY <1>3, <1>4 DEF Restart

\* Finish ends an offer: an answer that was delivered serves the alias, one that was not
\* makes Run close the peer the alias is routed to.
LEMMA FinishKeeps == ASSUME AgentInv, NEW ok \in BOOLEAN, Finish(ok) PROVE AgentInv'
<1>1. loop \in Loop /\ LoopInv /\ shutdown \in BOOLEAN
  BY DEF AgentInv, TypeOK
<1>2. /\ DOMAIN finished \subseteq OfferIds /\ finished \in [DOMAIN finished -> BOOLEAN]
      /\ routes \in [DOMAIN routes -> DOMAIN peers] /\ DOMAIN peers \subseteq PeerIds
  BY DEF AgentInv, TypeOK
<1>3. /\ loop.at = "finish" /\ finished' = With(finished, loop.id, ok)
      /\ loop' = IF ok THEN Rest ELSE Undelivered
      /\ UNCHANGED <<peers, routes, shutdown>>
  BY DEF Finish
<1>4. loop.id \in OfferIds /\ loop.id \notin DOMAIN finished
  BY <1>1, <1>3 DEF LoopInv, Handling
<1>5. /\ DOMAIN finished' = DOMAIN finished \cup {loop.id}
      /\ finished' \in [DOMAIN finished' -> BOOLEAN]
      /\ finished'[loop.id] = ok /\ \A i \in DOMAIN finished : finished'[i] = finished[i]
  BY <1>2, <1>3, <1>4 DEF With
<1>6. ASSUME NEW p \in DOMAIN peers, Open(p)
      PROVE  /\ peers[p].aliases # {}
             /\ \A i \in peers[p].aliases :
                  i \in DOMAIN routes /\ routes[i] = p /\ (i = loop.id \/ Served(p, i))
  BY <1>3, <1>6 DEF AgentInv, PeerInv, Named, Reachable, Served
<1>7. CASE ok \/ loop.id \notin DOMAIN routes
  <2>1. loop' = Rest
    BY <1>3, <1>7 DEF Undelivered
  <2>2. /\ loop' \in Loop /\ loop'.at = "poll" /\ loop'.left = loop.left
    BY Zenon, <1>1, <2>1 DEF Rest, Loop, Places
  <2>3. LoopInv'
    BY <1>1, <1>3, <2>2 DEF LoopInv, Handling, Serving
  <2>4. \A p \in DOMAIN peers : Open(p) => Named(p)'
    BY <1>3, <1>6 DEF Named
  <2>5. \A p \in DOMAIN peers : Open(p) => \A i \in peers[p].aliases : Reachable(p, i)'
    BY <1>3, <1>5, <1>6, <1>7 DEF Reachable, Served
  <2>. QED
    BY <1>1, <1>2, <1>3, <1>4, <1>5, <2>2, <2>3, <2>4, <2>5, LoopMoves
<1>8. CASE ~ok /\ loop.id \in DOMAIN routes
  <2>1. loop' = [loop EXCEPT !.at = "abandon", !.peer = routes[loop.id]]
    BY <1>3, <1>8 DEF Undelivered
  <2>2. /\ loop' \in Loop /\ loop'.at = "abandon" /\ loop'.left = loop.left
        /\ loop'.id = loop.id /\ loop'.peer = routes[loop.id]
    BY Zenon, <1>1, <1>2, <1>8, <2>1 DEF Loop, Places
  <2>3. LoopInv'
    BY <1>1, <1>2, <1>3, <1>8, <2>2 DEF LoopInv, Handling, Serving
  <2>4. \A p \in DOMAIN peers : Open(p) => Named(p)'
    BY <1>3, <1>6 DEF Named
  <2>5. \A p \in DOMAIN peers : Open(p) => \A i \in peers[p].aliases : Reachable(p, i)'
    BY <1>3, <1>5, <1>6, <2>2 DEF Reachable, Served
  <2>. QED
    BY <1>1, <1>2, <1>3, <1>4, <1>5, <2>2, <2>3, <2>4, <2>5, LoopMoves
<1>. QED
  BY <1>7, <1>8

\* The calls of close() the loop waits for: it goes on when the peer is closed.
LEMMA AwaitKeeps ==
  ASSUME AgentInv, Abort \/ Abandon \/ \E p \in PeerIds : StopPeer(p)
  PROVE  AgentInv'
<1>1. loop \in Loop /\ LoopInv /\ shutdown \in BOOLEAN
  BY DEF AgentInv, TypeOK
<1>2. DOMAIN finished \subseteq OfferIds /\ finished \in [DOMAIN finished -> BOOLEAN]
  BY DEF AgentInv, TypeOK
<1>3. ASSUME NEW p \in DOMAIN peers, peers[p].phase = "closed", peers' = Closing(p),
             UNCHANGED <<routes, finished, shutdown>>,
             loop' \in Loop, loop'.left \subseteq loop.left, loop.left \subseteq loop'.left \cup {p},
             \/ loop.at = "abort" /\ loop.peer = p /\ loop'.at = "finish" /\ loop'.id = loop.id
             \/ loop.at = "abandon" /\ loop.peer = p /\ loop'.at = "poll"
             \/ loop.at = "stopping" /\ loop'.at = "stopping"
      PROVE  AgentInv'
  <2>1. UNCHANGED peers /\ ~Open(p)
    BY <1>3 DEF Closing, Open
  <2>2. LoopInv'
    BY <1>1, <1>3, <2>1 DEF LoopInv, Handling, Serving
  <2>3. \A q \in DOMAIN peers : Open(q) => Named(q)'
    BY <1>3, <2>1 DEF AgentInv, PeerInv, Named
  <2>4. \A q \in DOMAIN peers : Open(q) => \A i \in peers[q].aliases : Reachable(q, i)'
    BY <1>3, <2>1 DEF AgentInv, PeerInv, Reachable
  <2>5. \A q \in DOMAIN peers :
          Open(q) /\ loop'.at \in {"stopping", "stopped"} => q \in loop'.left
    BY <1>3, <2>1 DEF AgentInv, PeerInv
  <2>. QED
    BY <1>1, <1>2, <1>3, <2>1, <2>2, <2>3, <2>4, <2>5, LoopMoves
<1>4. ASSUME NEW p \in DOMAIN peers, peers' = Closing(p), UNCHANGED <<routes, finished, shutdown>>,
             loop' = loop \/ (loop.at = "stopping" /\ loop' = [loop EXCEPT !.peer = p])
      PROVE  AgentInv'
  BY <1>4, ClosingEvolves, PeerKeeps
<1>5. CASE Abort
  <2>1. loop.peer \in DOMAIN peers
    BY <1>1, <1>5 DEF Abort, LoopInv, Serving
  <2>2. CASE peers[loop.peer].phase = "closed"
    <3>1. loop' = [loop EXCEPT !.at = "finish"]
      BY <1>5, <2>2 DEF Abort, Goto
    <3>2. loop' \in Loop /\ loop'.at = "finish" /\ loop'.id = loop.id /\ loop'.left = loop.left
      BY <1>1, <3>1 DEF Loop, Places
    <3>. QED
      BY <1>3, <1>5, <2>1, <2>2, <3>2 DEF Abort
  <2>. QED
    BY <1>4, <1>5, <2>1, <2>2 DEF Abort
<1>6. CASE Abandon
  <2>1. loop.peer \in DOMAIN peers
    BY <1>1, <1>6 DEF Abandon, LoopInv, Serving
  <2>2. CASE peers[loop.peer].phase = "closed"
    <3>1. loop' = Rest
      BY <1>6, <2>2 DEF Abandon
    <3>2. loop' \in Loop /\ loop'.at = "poll" /\ loop'.left = loop.left
      BY Zenon, <1>1, <3>1 DEF Rest, Loop, Places
    <3>. QED
      BY <1>3, <1>6, <2>1, <2>2, <3>2 DEF Abandon
  <2>. QED
    BY <1>4, <1>6, <2>1, <2>2 DEF Abandon
<1>7. ASSUME NEW p \in PeerIds, StopPeer(p) PROVE AgentInv'
  <2>1. p \in DOMAIN peers /\ loop.at = "stopping"
    BY Zenon, <1>1, <1>7 DEF StopPeer, LoopInv
  <2>2. CASE peers[p].phase = "closed"
    <3>1. loop' = [loop EXCEPT !.left = loop.left \ {p}, !.peer = NoPeer]
      BY Zenon, <1>1, <1>7, <2>2 DEF StopPeer, Loop
    <3>2. loop' \in Loop /\ loop'.at = "stopping" /\ loop'.left = loop.left \ {p}
      BY Zenon, <1>1, <2>1, <3>1 DEF Loop, Places
    <3>. QED
      BY Zenon, <1>3, <1>7, <2>1, <2>2, <3>2 DEF StopPeer
  <2>. QED
    BY Zenon, <1>4, <1>7, <2>1, <2>2 DEF StopPeer
<1>. QED
  BY <1>5, <1>6, <1>7

\* Runtime.Close finds every peer that is open, for each has an alias that is routed to it.
LEMMA StopKeeps == ASSUME AgentInv, Stop \/ Stopped \/ Cancel PROVE AgentInv'
<1>1. loop \in Loop /\ LoopInv /\ shutdown \in BOOLEAN
  BY DEF AgentInv, TypeOK
<1>2. /\ DOMAIN finished \subseteq OfferIds /\ finished \in [DOMAIN finished -> BOOLEAN]
      /\ routes \in [DOMAIN routes -> DOMAIN peers] /\ DOMAIN peers \subseteq PeerIds
  BY DEF AgentInv, TypeOK
<1>3. CASE Stop
  <2>1. /\ loop' = [loop EXCEPT !.at = "stopping", !.left = Unique] /\ loop.at = "poll"
        /\ UNCHANGED <<peers, routes, finished, shutdown>>
    BY <1>3 DEF Stop
  <2>2. Unique \subseteq DOMAIN peers /\ \A i \in DOMAIN routes : routes[i] \in Unique
    BY <1>2 DEF Unique
  <2>3. loop' \in Loop /\ loop'.at = "stopping" /\ loop'.left = Unique
    BY Zenon, <1>1, <1>2, <2>1, <2>2 DEF Loop, Places
  <2>4. LoopInv'
    BY <1>1, <2>1, <2>2, <2>3 DEF LoopInv, Handling, Serving
  <2>5. \A p \in DOMAIN peers : Open(p) =>
          Named(p)' /\ \A i \in peers[p].aliases : Reachable(p, i)'
    BY <2>1, OpenIsServed DEF Served, Named, Reachable
  <2>6. \A p \in DOMAIN peers : Open(p) => p \in loop'.left
    BY <2>1, <2>2, <2>3, OpenIsServed DEF Served
  <2>. QED
    BY <1>1, <1>2, <2>1, <2>3, <2>4, <2>5, <2>6, LoopMoves
<1>4. CASE Stopped
  <2>1. /\ loop' = [loop EXCEPT !.at = "stopped"] /\ loop.at = "stopping" /\ loop.left = {}
        /\ UNCHANGED <<peers, routes, finished, shutdown>>
    BY <1>4 DEF Stopped, Goto
  <2>2. loop' \in Loop /\ loop'.at = "stopped" /\ loop'.left = {}
    BY <1>1, <2>1 DEF Loop, Places
  <2>3. LoopInv'
    BY <1>1, <2>1, <2>2 DEF LoopInv, Handling, Serving
  <2>4. \A p \in DOMAIN peers : ~Open(p)
    BY <2>1 DEF AgentInv, PeerInv
  <2>. QED
    BY <1>1, <1>2, <2>1, <2>2, <2>3, <2>4, LoopMoves
<1>5. CASE Cancel
  <2>1. UNCHANGED <<loop, peers, routes, finished>> /\ shutdown' \in BOOLEAN
    BY <1>5 DEF Cancel
  <2>2. LoopInv'
    BY <1>1, <2>1 DEF LoopInv
  <2>3. \A p \in DOMAIN peers : PeerInv(p) /\ (Named(p) => Named(p)')
          /\ \A i \in peers[p].aliases : Reachable(p, i) => Reachable(p, i)'
    BY <2>1 DEF AgentInv, Named, Reachable
  <2>. QED
    BY <1>1, <1>2, <2>1, <2>2, <2>3, LoopMoves DEF PeerInv
<1>. QED
  BY <1>3, <1>4, <1>5

\* A new peer is the one in hand until it has its first alias.
LEMMA NewPeerKeeps == ASSUME AgentInv, NEW p \in PeerIds, NewPeer(p) PROVE AgentInv'
<1>. DEFINE r == [grant |-> loop.grant, restarts |-> 0, aliases |-> {},
        phase |-> "open", doomed |-> {}, timer |-> "none", fired |-> FALSE,
        link |-> "new", pending |-> << >>, checks |-> 0, raced |-> FALSE]
<1>1. /\ loop \in Loop /\ LoopInv /\ peers \in [DOMAIN peers -> Peer] /\ DOMAIN peers \subseteq PeerIds
      /\ routes \in [DOMAIN routes -> DOMAIN peers]
  BY DEF AgentInv, TypeOK
<1>2. /\ loop.at = "accept" /\ loop.of = NoId /\ p \notin DOMAIN peers
      /\ peers' = With(peers, p, r) /\ loop' = [loop EXCEPT !.at = "negotiate", !.peer = p]
      /\ UNCHANGED <<routes, finished, shutdown>>
  BY DEF NewPeer, Unused
<1>3. r \in Peer
  <2>1. << >> \in Seq(Links \ {"new"}) /\ 0 \in 0..MaxRestarts /\ 0 \in Nat
    BY EmptySeq, AgentAssumption
  <2>2. loop.grant \in Grants
    BY <1>1, <1>2 DEF LoopInv
  <2>. QED
    BY <2>1, <2>2, Zenon DEF Peer, Phases, Links
<1>4. r.phase = "open" /\ r.aliases = {}
  OBVIOUS
<1>. HIDE DEF r
<1>5. /\ DOMAIN peers' = DOMAIN peers \cup {p} /\ peers' \in [DOMAIN peers' -> Peer]
      /\ peers'[p] = r /\ \A q \in DOMAIN peers : peers'[q] = peers[q]
  BY <1>1, <1>2, <1>3 DEF With
<1>6. /\ loop' \in Loop /\ loop'.at = "negotiate" /\ loop'.id = loop.id /\ loop'.of = NoId
      /\ loop'.left = loop.left /\ loop'.peer = p
  BY Zenon, <1>1, <1>2 DEF Loop, Places
<1>7. TypeOK'
  BY <1>1, <1>2, <1>5, <1>6 DEF AgentInv, TypeOK
<1>8. LoopInv'
  BY <1>1, <1>2, <1>5, <1>6 DEF LoopInv, Handling, Serving
<1>9. ASSUME NEW q \in DOMAIN peers PROVE PeerInv(q)'
  <2>1. Routed(q)'
    BY <1>2, <1>5 DEF AgentInv, PeerInv, Routed
  <2>2. Open(q)' => Open(q)
    BY <1>5 DEF Open
  <2>3. Open(q)' => Named(q)' /\ \A i \in peers'[q].aliases : Reachable(q, i)'
    BY <1>2, <1>5, <2>2, OpenIsServed DEF Named, Served, Reachable
  <2>. QED
    BY <1>6, <2>1, <2>3 DEF PeerInv
<1>10. PeerInv(p)'
  <2>1. Routed(p)'
    BY <1>1, <1>2 DEF Routed
  <2>2. Named(p)'
    BY <1>6 DEF Named
  <2>. QED
    BY <1>4, <1>5, <1>6, <2>1, <2>2 DEF PeerInv
<1>. QED
  BY <1>5, <1>7, <1>8, <1>9, <1>10 DEF AgentInv

\* addAlias, first part: the peer in hand has the alias, and no route yet.
LEMMA AddAliasKeeps == ASSUME AgentInv, AddAlias PROVE AgentInv'
<1>. DEFINE p == loop.peer
            r == [peers[p] EXCEPT !.aliases = @ \cup {loop.id}]
<1>1. /\ loop \in Loop /\ LoopInv /\ peers \in [DOMAIN peers -> Peer] /\ DOMAIN peers \subseteq PeerIds
  BY DEF AgentInv, TypeOK
<1>2. loop.at = "alias" /\ loop' = [loop EXCEPT !.at = "register"]
  BY DEF AddAlias, Goto
<1>3. p \in DOMAIN peers /\ loop.id \in OfferIds
  BY <1>1, <1>2 DEF LoopInv, Serving, Handling
<1>4. peers' = [peers EXCEPT ![p] = r] /\ UNCHANGED <<routes, finished, shutdown>>
  BY <1>1, <1>3 DEF AddAlias
<1>5. /\ r \in Peer /\ r.aliases = peers[p].aliases \cup {loop.id} /\ r.phase = peers[p].phase
      /\ r.raced = peers[p].raced /\ r.doomed = peers[p].doomed
  BY ZenonT(30), <1>1, <1>3 DEF Peer
<1>. HIDE DEF r
<1>6. /\ DOMAIN peers' = DOMAIN peers /\ peers' \in [DOMAIN peers -> Peer]
      /\ peers'[p] = r /\ \A q \in DOMAIN peers : q # p => peers'[q] = peers[q]
  BY <1>1, <1>3, <1>4, <1>5
<1>7. /\ loop' \in Loop /\ loop'.at = "register" /\ loop'.id = loop.id /\ loop'.of = loop.of
      /\ loop'.left = loop.left /\ loop'.peer = p
  BY <1>1, <1>2 DEF Loop, Places
<1>. HIDE DEF p
<1>8. TypeOK'
  BY <1>4, <1>6, <1>7 DEF AgentInv, TypeOK
<1>9. LoopInv'
  BY <1>1, <1>2, <1>3, <1>4, <1>5, <1>6, <1>7 DEF LoopInv, Handling, Serving
<1>10. ASSUME NEW q \in DOMAIN peers PROVE PeerInv(q)'
  <2>1. /\ peers[q].aliases \subseteq peers'[q].aliases /\ peers'[q].phase = peers[q].phase
        /\ peers'[q].raced = peers[q].raced /\ peers'[q].doomed = peers[q].doomed
        /\ \A i \in peers'[q].aliases : i \in peers[q].aliases \/ (q = p /\ i = loop.id)
        /\ q = p => peers'[q].aliases # {}
    BY <1>5, <1>6
  <2>2. Routed(q)'
    BY <1>4, <2>1 DEF AgentInv, PeerInv, Routed
  <2>3. Open(q)' => Open(q)
    BY <2>1 DEF Open
  <2>4. Open(q)' => Named(q)'
    BY <2>1, <2>3, OpenIsServed DEF Named, p
  <2>5. Open(q)' => \A i \in peers'[q].aliases : Reachable(q, i)'
    BY <1>2, <1>4, <1>7, <2>1, <2>3, OpenIsServed DEF Served, Reachable
  <2>. QED
    BY <1>7, <2>2, <2>4, <2>5 DEF PeerInv
<1>. QED
  BY <1>6, <1>8, <1>9, <1>10 DEF AgentInv

\* addAlias, second part: the new route replaces none of an open peer; if close() was
\* called in between, that is on record.
LEMMA RegisterKeeps == ASSUME AgentInv, Register PROVE AgentInv'
<1>. DEFINE p == loop.peer
            r == [peers[p] EXCEPT !.raced = @ \/ ~Open(p)]
<1>1. /\ loop \in Loop /\ LoopInv /\ peers \in [DOMAIN peers -> Peer] /\ DOMAIN peers \subseteq PeerIds
      /\ routes \in [DOMAIN routes -> DOMAIN peers] /\ DOMAIN routes \subseteq OfferIds
  BY DEF AgentInv, TypeOK
<1>2. loop.at = "register" /\ loop' = [loop EXCEPT !.at = "finish"]
  BY DEF Register, Goto
<1>3. /\ p \in DOMAIN peers /\ loop.id \in OfferIds /\ loop.id \notin DOMAIN finished
      /\ loop.id \in peers[p].aliases
  BY <1>1, <1>2 DEF LoopInv, Serving, Handling
<1>4. /\ peers' = [peers EXCEPT ![p] = r] /\ routes' = With(routes, loop.id, p)
      /\ UNCHANGED <<finished, shutdown>>
  BY <1>1, <1>3 DEF Register
<1>5. /\ r \in Peer /\ r.aliases = peers[p].aliases /\ r.phase = peers[p].phase
      /\ r.raced = (peers[p].raced \/ ~Open(p)) /\ r.doomed = peers[p].doomed
  BY ZenonT(30), <1>1, <1>3 DEF Peer
<1>. HIDE DEF r
<1>6. /\ DOMAIN peers' = DOMAIN peers /\ peers' \in [DOMAIN peers -> Peer]
      /\ peers'[p] = r /\ \A q \in DOMAIN peers : q # p => peers'[q] = peers[q]
  BY <1>1, <1>3, <1>4, <1>5
<1>7. /\ loop' \in Loop /\ loop'.at = "finish" /\ loop'.id = loop.id /\ loop'.of = loop.of
      /\ loop'.left = loop.left /\ loop'.peer = p
  BY <1>1, <1>2 DEF Loop, Places
<1>8. /\ DOMAIN routes' = DOMAIN routes \cup {loop.id} /\ routes'[loop.id] = p
      /\ routes' \in [DOMAIN routes' -> DOMAIN peers]
      /\ \A i \in DOMAIN routes : i # loop.id => routes'[i] = routes[i]
  BY <1>1, <1>3, <1>4 DEF With
<1>9. TypeOK'
  BY <1>1, <1>3, <1>4, <1>6, <1>7, <1>8 DEF AgentInv, TypeOK
<1>10. LoopInv'
  BY <1>1, <1>2, <1>3, <1>4, <1>6, <1>7 DEF LoopInv, Handling, Serving
<1>11. ASSUME NEW q \in DOMAIN peers PROVE PeerInv(q)'
  <2>1. /\ peers'[q].aliases = peers[q].aliases /\ peers'[q].phase = peers[q].phase
        /\ peers'[q].doomed = peers[q].doomed
        /\ ~peers'[q].raced => ~peers[q].raced /\ (q = p => peers[q].phase = "open")
    BY <1>5, <1>6, Zenon DEF Open
  <2>2. PeerInv(q)
    BY DEF AgentInv
  <2>3. Routed(q)'
    <3>. SUFFICES ASSUME NEW i \in DOMAIN routes', routes'[i] = q
                  PROVE  /\ i \in peers'[q].aliases
                         /\ ~peers'[q].raced =>
                              /\ peers'[q].phase \notin {"unrouted", "closed"}
                              /\ peers'[q].phase = "collected" => i \in peers'[q].doomed
      BY DEF Routed
    <3>1. CASE i = loop.id
      BY <1>3, <1>8, <2>1, <3>1
    <3>2. CASE i # loop.id
      BY <1>8, <2>1, <2>2, <3>2 DEF PeerInv, Routed
    <3>. QED
      BY <3>1, <3>2
  <2>4. Open(q)' => Open(q)
    BY <2>1 DEF Open
  <2>5. Open(q)' => Named(q)'
    BY <1>2, <2>1, <2>4, OpenIsServed DEF Named
  <2>6. Open(q)' => \A i \in peers'[q].aliases : Reachable(q, i)'
    BY <1>2, <1>3, <1>4, <1>7, <1>8, <2>1, <2>2, <2>4 DEF PeerInv, Reachable
  <2>. QED
    BY <1>7, <2>3, <2>5, <2>6 DEF PeerInv
<1>. QED
  BY <1>6, <1>9, <1>10, <1>11 DEF AgentInv
-----------------------------------------------------------------------------
\* The invariant holds at the start, when there is no peer, ...
LEMMA AgentInitInv == Init => AgentInv
<1>. SUFFICES ASSUME Init PROVE AgentInv
  OBVIOUS
<1>1. DOMAIN peers = {} /\ DOMAIN routes = {} /\ DOMAIN finished = {}
  BY DEF Init
<1>2. /\ peers \in [DOMAIN peers -> Peer] /\ routes \in [DOMAIN routes -> DOMAIN peers]
      /\ finished \in [DOMAIN finished -> BOOLEAN] /\ shutdown \in BOOLEAN
  BY Zenon DEF Init
<1>3. loop \in Loop /\ loop.at = "poll" /\ loop.left = {}
  BY DEF Init, Loop, Places
<1>4. LoopInv
  BY <1>3 DEF LoopInv, Handling, Serving
<1>. QED
  BY <1>1, <1>2, <1>3, <1>4 DEF AgentInv, TypeOK

\* ... and every step keeps it.
LEMMA AgentStep == AgentInv /\ [Next]_vars => AgentInv'
<1>. SUFFICES ASSUME AgentInv, [Next]_vars PROVE AgentInv'
  OBVIOUS
<1>1. CASE UNCHANGED vars
  <2>1. UNCHANGED <<loop, peers, routes, finished, shutdown>>
    BY <1>1 DEF vars
  <2>. QED
    BY <2>1 DEF AgentInv, TypeOK, LoopInv, PeerInv, Named, Reachable, Routed, Open
<1>2. CASE RunStep
  BY <1>2, MoveKeeps, RestartKeeps, AwaitKeeps, AddAliasKeeps, RegisterKeeps, StopKeeps,
     NewPeerKeeps, FinishKeeps DEF RunStep
<1>3. ASSUME NEW p \in DOMAIN peers,
             \/ CloseStep(p) \/ RelayCandidate(p) \/ Callback(p)
             \/ \E state \in Links : LinkChange(p, state)
      PROVE  AgentInv'
  BY <1>3, CallbackKeeps, UnrouteKeeps DEF CloseStep
<1>. QED
  BY <1>1, <1>2, <1>3, MoveKeeps, StopKeeps DEF Next

\* The invariant holds for ever.
LEMMA AgentInvariance == Spec => []AgentInv
BY AgentInitInv, AgentStep, PTL DEF Spec

\* For any number of offers, peers and callbacks: between two offers every peer that is open
\* has an alias, and each of its aliases is routed to it and its answer was delivered.
THEOREM NoOrphanPeerAlways == Spec => []NoOrphanPeer
<1>1. AgentInv => NoOrphanPeer
  BY OpenIsServed DEF AgentInv, NoOrphanPeer, Served
<1>. QED
  BY <1>1, AgentInvariance, PTL

\* For any number of offers, peers and callbacks: when Run returns, close() was called on
\* every peer, those included whose routes other goroutines were deleting meanwhile.
THEOREM StoppedClosesAllAlways == Spec => []StoppedClosesAll
<1>1. AgentInv => StoppedClosesAll
  BY DEF AgentInv, LoopInv, PeerInv, StoppedClosesAll
<1>. QED
  BY <1>1, AgentInvariance, PTL

\* For any number of offers, peers and callbacks: a closed peer has a route only if addAlias
\* registered it after close() had begun.
THEOREM OnlyRaceLeaksAlways == Spec => []OnlyRaceLeaks
<1>1. AgentInv => OnlyRaceLeaks
  BY DEF AgentInv, PeerInv, Routed, OnlyRaceLeaks
<1>. QED
  BY <1>1, AgentInvariance, PTL
=============================================================================

------------------------------- MODULE Broker -------------------------------
(***************************************************************************)
(* The in-memory signaling broker of the Controller                        *)
(* (internal/signaling/broker.go).  Browsers deposit offers with Create,   *)
(* the Agent takes them with the long poll Next and settles them with      *)
(* Finish, the browser reads the outcome with Status.                      *)
(*                                                                         *)
(* Every method holds broker.mu for the whole of its work, with two        *)
(* exceptions that are steps of their own here: Create reads the clock     *)
(* before it takes the lock, and Next releases the lock before it blocks   *)
(* on the Agent's one-slot notification channel.                           *)
(***************************************************************************)
EXTENDS Integers, FiniteSets

CONSTANTS
  Ids,         \* signaling ids randomID can draw; an id is never drawn twice
  Agents,      \* Agent ids
  Users,       \* digests of authenticated browser sessions
  Grants,      \* the authorizations a CreateRequest can carry
  Results,     \* what Finish can store: answers and failure codes
  Creators,    \* concurrent calls of Create
  Polls,       \* concurrent calls of Next
  SessionTTL,  \* lifetime of an entry, in ticks
  MaxTime,     \* bound: the clock stops there
  NoId,        \* the empty restart_of
  Pending,     \* neither an answer nor a failure code
  Malformed    \* a posted result with both, with neither, or not well formed

(***************************************************************************)
(* A grant is what the Controller binds to a connection: the fields of a   *)
(* CreateRequest other than the offer and restart_of.                      *)
(***************************************************************************)
GrantFields == {"agent", "browserSession", "service", "user", "capability", "temporary"}

ASSUME BrokerAssumption ==
  /\ \A g \in Grants : g.agent \in Agents /\ g.user \in Users
  /\ NoId \notin Ids
  /\ Pending \notin Results
  /\ Malformed \notin Results
  /\ SessionTTL \in Nat \ {0}
  /\ MaxTime \in Nat

VARIABLES
  now,         \* the clock
  sessions,    \* the keys of broker.sessions
  entries,     \* the entry allocated for each id drawn so far
  token,       \* token[a]: the notification channel of Agent a holds a value
  create,      \* create[c]: the request c holds between clock read and lock
  poll,        \* poll[p]: where call p of Next stands, and for which Agent;
               \* alone is history: no other poll of that Agent ran meanwhile
  deliveries,  \* history: how often Next returned each id
  shown        \* history: the outcomes Status returned for each id

vars == <<now, sessions, entries, token, create, poll, deliveries, shown>>

Entry == [grant: Grants, restartOf: Ids \cup {NoId}, createdAt: Nat,
          claimed: BOOLEAN, result: Results \cup {Pending}]

CreateCalls == {[at |-> "idle"]} \cup
  [at: {"lock"}, grant: Grants, restartOf: Ids \cup {NoId}, stamp: Nat]

PollCalls == {[at |-> "idle"]} \cup 
  [at: {"lock", "wait"}, agent: Agents, alone: BOOLEAN]

TypeOK ==
  /\ now \in 0..MaxTime
  /\ DOMAIN entries \subseteq Ids
  /\ entries \in [DOMAIN entries -> Entry]
  /\ sessions \subseteq DOMAIN entries
  /\ token \in [Agents -> BOOLEAN]
  /\ create \in [Creators -> CreateCalls]
  /\ poll \in [Polls -> PollCalls]
  /\ deliveries \in [Ids -> Nat]
  /\ shown \in [Ids -> SUBSET Results]

Init ==
  /\ now = 0
  /\ sessions = {}
  /\ entries = [id \in {} |-> Pending]
  /\ token = [a \in Agents |-> FALSE]
  /\ create = [c \in Creators |-> [at |-> "idle"]]
  /\ poll = [p \in Polls |-> [at |-> "idle"]]
  /\ deliveries = [id \in Ids |-> 0]
  /\ shown = [id \in Ids |-> {}]
-----------------------------------------------------------------------------
\* Has entry e outlived SessionTTL at time t?  (the test of pruneLocked)
Expired(e, t) == t - e.createdAt >= SessionTTL

\* The ids pruneLocked(t) leaves in the map.
Pruned(t) == {id \in sessions : ~Expired(entries[id], t)}

\* May Next return entry e to Agent a?
Offered(e, a) == e.grant.agent = a /\ ~e.claimed /\ e.result = Pending

\* A bug: of two entries created at the same time neither is selected.
SelectedStrictly(S, a) ==
  {id \in S : /\ Offered(entries[id], a)
              /\ \A other \in S \ {id} :
                    Offered(entries[other], a) =>
                      entries[id].createdAt < entries[other].createdAt}

\* The oldest entries offered to a; map iteration breaks ties arbitrarily.
Selected(S, a) ==
  {id \in S : /\ Offered(entries[id], a)
              /\ \A other \in S :
                    Offered(entries[other], a) =>
                      entries[id].createdAt <= entries[other].createdAt}

\* A bug: a restart is matched on its browser session only.
SameGrantSession(g, h) == g.browserSession = h.browserSession

\* The six comparisons of a restart with the entry it names.
SameGrant(g, h) == \A f \in GrantFields : g[f] = h[f]

\* The validation Finish starts with.
ValidResult(r) == r \in Results

\* A bug: a result is accepted for an offer nobody received.
FinishableUnclaimed(e, a) == e.grant.agent = a /\ e.result = Pending

\* Does Finish by Agent a store a result in entry e?
Finishable(e, a) == e.grant.agent = a /\ e.claimed /\ e.result = Pending

\* A bug: the wakeup is forgotten.
NotifyNobody(a) == UNCHANGED token

\* The non-blocking send on a channel of capacity one.
Notify(a) == token' = [token EXCEPT ![a] = TRUE]
-----------------------------------------------------------------------------
\* Create, up to the clock read; requests that fail validation end here.
CreateCall(c, g, r) ==
  /\ create[c].at = "idle"
  /\ create' = [create EXCEPT ![c] =
                  [at |-> "lock", grant |-> g, restartOf |-> r, stamp |-> now]]
  /\ UNCHANGED <<now, sessions, entries, token, poll, deliveries, shown>>

\* Does the locked part of Create refuse request q?
Refused(q) ==
  /\ q.restartOf # NoId
  /\ ~ /\ q.restartOf \in Pruned(q.stamp)
       /\ SameGrant(entries[q.restartOf].grant, q.grant)

\* Create under the lock: prune, then insert a fresh entry or refuse.
CreateLocked(c) ==
  LET q == create[c] IN
  /\ q.at = "lock"
  /\ create' = [create EXCEPT ![c] = [at |-> "idle"]]
  /\ \/ /\ Refused(q)
        /\ sessions' = Pruned(q.stamp)
        /\ UNCHANGED <<entries, token>>
     \/ /\ ~Refused(q)
        /\ \E id \in Ids \ DOMAIN entries :
             /\ sessions' = Pruned(q.stamp) \cup {id}
             /\ entries' = [i \in DOMAIN entries \cup {id} |->
                  IF i = id
                  THEN [grant |-> q.grant, restartOf |-> q.restartOf,
                        createdAt |-> q.stamp, claimed |-> FALSE, result |-> Pending]
                  ELSE entries[i]]
        /\ Notify(q.grant.agent)
  /\ UNCHANGED <<now, poll, deliveries, shown>>

\* The other polls of Agent a that are in flight.
Rivals(p, a) == {q \in Polls \ {p} : poll[q].at # "idle" /\ poll[q].agent = a}

\* nextOffer calls Next for the Agent that signed the request.
NextCall(p, a) ==
  /\ poll[p].at = "idle"
  /\ poll' = [q \in Polls |->
       IF q = p THEN [at |-> "lock", agent |-> a, alone |-> Rivals(p, a) = {}]
       ELSE IF q \in Rivals(p, a) THEN [poll[q] EXCEPT !.alone = FALSE]
       ELSE poll[q]]
  /\ UNCHANGED <<now, sessions, entries, token, create, deliveries, shown>>

\* One turn of Next's loop under the lock: claim an offer, or go and wait.
NextLocked(p) ==
  LET a == poll[p].agent
      picked == Selected(Pruned(now), a)
  IN
  /\ poll[p].at = "lock"
  /\ sessions' = Pruned(now)
  /\ \/ \E id \in picked :
          /\ entries' = [entries EXCEPT ![id].claimed = TRUE]
          /\ deliveries' = [deliveries EXCEPT ![id] = @ + 1]
          /\ poll' = [poll EXCEPT ![p] = [at |-> "idle"]]
     \/ /\ picked = {}
        /\ poll' = [poll EXCEPT ![p].at = "wait"]
        /\ UNCHANGED <<entries, deliveries>>
  /\ UNCHANGED <<now, token, create, shown>>

\* A waiting Next receives from the notification channel.
NextWake(p) ==
  /\ poll[p].at = "wait"
  /\ token[poll[p].agent]
  /\ token' = [token EXCEPT ![poll[p].agent] = FALSE]
  /\ poll' = [poll EXCEPT ![p].at = "lock"]
  /\ UNCHANGED <<now, sessions, entries, create, deliveries, shown>>

\* The 25 s of the long poll are over, or the Agent hung up.
NextCancel(p) ==
  /\ poll[p].at = "wait"
  /\ poll' = [poll EXCEPT ![p] = [at |-> "idle"]]
  /\ UNCHANGED <<now, sessions, entries, token, create, deliveries, shown>>

\* Finish: store result r, or report ErrNotFound or ErrAlreadyClaimed.
Finish(a, id, r) ==
  /\ ValidResult(r)
  /\ sessions' = Pruned(now)
  /\ \/ /\ id \in Pruned(now) /\ Finishable(entries[id], a)
        /\ entries' = [entries EXCEPT ![id].result = r]
     \/ /\ ~(id \in Pruned(now) /\ Finishable(entries[id], a))
        /\ UNCHANGED entries
  /\ UNCHANGED <<now, token, create, poll, deliveries, shown>>

\* Status: prune, and tell user u what became of its offer.
Status(u, id) ==
  /\ sessions' = Pruned(now)
  /\ shown' = IF id \in Pruned(now) /\ entries[id].grant.user = u
              THEN [shown EXCEPT ![id] = @ \cup ({entries[id].result} \ {Pending})]
              ELSE shown
  /\ UNCHANGED <<now, entries, token, create, poll, deliveries>>

Tick ==
  /\ now < MaxTime
  /\ now' = now + 1
  /\ UNCHANGED <<sessions, entries, token, create, poll, deliveries, shown>>

Next ==
  \/ \E c \in Creators, g \in Grants, r \in DOMAIN entries \cup {NoId} : CreateCall(c, g, r)
  \/ \E c \in Creators : CreateLocked(c)
  \/ \E p \in Polls, a \in Agents : NextCall(p, a)
  \/ \E p \in Polls : NextLocked(p) \/ NextWake(p) \/ NextCancel(p)
  \/ \E a \in Agents, id \in Ids, r \in Results \cup {Malformed} : Finish(a, id, r)
  \/ \E u \in Users, id \in Ids : Status(u, id)
  \/ Tick

Spec == Init /\ [][Next]_vars

(***************************************************************************)
(* Fairness: the mutex and the scheduler let every call of Next proceed,   *)
(* the context of a long poll always expires, and Runtime.Run polls again  *)
(* after every answer.  Browsers and the clock owe nothing.                *)
(***************************************************************************)
Fairness ==
  /\ \A p \in Polls : /\ WF_vars(NextLocked(p))
                      /\ WF_vars(NextWake(p))
                      /\ WF_vars(NextCancel(p))
  /\ \A a \in Agents : WF_vars(\E p \in Polls : NextCall(p, a))

FairSpec == Spec /\ Fairness
-----------------------------------------------------------------------------
(***************************************************************************)
(* Properties.                                                             *)
(***************************************************************************)

\* An offer reaches at most one poll, however many polls of the Agent run
\* side by side (an Agent that restarted leaves its old long poll behind),
\* and only a delivered offer is marked claimed (Next, lines 131-137).
DeliveredOnce ==
  \A id \in DOMAIN entries : deliveries[id] = IF entries[id].claimed THEN 1 ELSE 0

\* An outcome exists only for an offer an Agent has received, and a browser
\* polling Status never sees two different outcomes of one offer, even when
\* several Finish calls race (Finish line 176, Status).
OneOutcome ==
  \A id \in DOMAIN entries :
    /\ entries[id].result # Pending => deliveries[id] = 1
    /\ shown[id] \subseteq {entries[id].result}

\* An ICE restart continues one authorization: however long the chain of
\* restarts and whatever has been pruned meanwhile, the entry it started
\* from carried the same Agent, session, service, user, capability and kind
\* (Create, lines 105-111).
RestartKeepsGrant ==
  \A id \in DOMAIN entries :
    LET r == entries[id].restartOf IN
    r # NoId => /\ r \in DOMAIN entries
                /\ \A f \in GrantFields : entries[r].grant[f] = entries[id].grant[f]

\* Two successive entries of a restart chain are less than SessionTTL apart,
\* although Create prunes with a clock value read before the lock: the stale
\* value is also the creation time of the new entry (lines 101-115).
RestartWithinTTL ==
  \A id \in DOMAIN entries :
    LET r == entries[id].restartOf IN
    r # NoId => entries[id].createdAt - entries[r].createdAt < SessionTTL

\* No lost wakeup for a lone poll: a poll that had no rival of the same Agent
\* never sleeps on an empty channel while an offer for its Agent is waiting,
\* although a send to the full channel is dropped (Create, lines 117-121).
\* A rival poll can consume the wakeup meant for both.
NoLostWakeup ==
  \A p \in Polls :
    (poll[p].at = "wait" /\ poll[p].alone /\ ~token[poll[p].agent])
      => \A id \in sessions : ~Offered(entries[id], poll[p].agent)

\* Expired offers are inert: no step hands out or settles an entry that has
\* outlived SessionTTL, even if nothing pruned the map since (Next, Finish).
ExpiredIsInert ==
  [][\A id \in DOMAIN entries :
       Expired(entries[id], now) => entries'[id] = entries[id]]_vars

\* Every offer is eventually taken by a poll or pruned, although a wakeup
\* can be consumed by another poll and the clock may stand still: the poll's
\* deadline and the Agent's next poll make up for a lost wakeup.
OfferTaken ==
  \A id \in Ids, a \in Agents :
    (id \in sessions /\ Offered(entries[id], a))
      ~> ~(id \in sessions /\ Offered(entries[id], a))
-----------------------------------------------------------------------------
(***************************************************************************)
(* The broker implements OfferLifecycle: the stage of an offer is read off *)
(* the map and the entry.                                                  *)
(***************************************************************************)
Stage(id) ==
  IF id \notin DOMAIN entries THEN "new"
  ELSE IF id \notin sessions THEN "gone"
  ELSE IF entries[id].result # Pending THEN "settled"
  ELSE IF entries[id].claimed THEN "taken" ELSE "posted"

Outcome(id) == IF id \in DOMAIN entries THEN entries[id].result ELSE Pending

Lifecycle == INSTANCE OfferLifecycle WITH
  stage <- [id \in Ids |-> Stage(id)], outcome <- [id \in Ids |-> Outcome(id)]

\* Every behaviour of the broker is one of the abstract life cycle: Create,
\* Next and Finish, with the pruning each of them starts with, post, take
\* and settle an offer at most once each, in that order.
ImplementsLifecycle == Lifecycle!Spec
=============================================================================

---------------------------- MODULE BrokerProofs ----------------------------
(***************************************************************************)
(* Theorems about Broker, for every number of ids, Agents, users, grants   *)
(* and concurrent calls, every SessionTTL and every bound on the clock.    *)
(***************************************************************************)
EXTENDS Broker, TLAPS, WellFoundedInduction

\* Pruning only removes keys.
LEMMA PrunedSubset ==
  ASSUME NEW t PROVE Pruned(t) \subseteq sessions
BY DEF Pruned

\* Initially the broker is well typed.
LEMMA InitTyped == Init => TypeOK
BY BrokerAssumption DEF Init, TypeOK, CreateCalls, PollCalls

\* Every step of the broker keeps its state well typed.
LEMMA StepTyped == TypeOK /\ [Next]_vars => TypeOK'
<1> SUFFICES ASSUME TypeOK, [Next]_vars PROVE TypeOK'
  OBVIOUS
<1> USE BrokerAssumption
<1>1. ASSUME NEW c \in Creators, NEW g \in Grants, NEW r \in DOMAIN entries \cup {NoId},
             CreateCall(c, g, r)
      PROVE TypeOK'
  BY <1>1 DEF CreateCall, TypeOK, CreateCalls
<1>2. ASSUME NEW c \in Creators, CreateLocked(c) PROVE TypeOK'
  <2> DEFINE q == create[c]
  <2>1. q \in [at: {"lock"}, grant: Grants, restartOf: Ids \cup {NoId}, stamp: Nat]
    BY <1>2 DEF CreateLocked, TypeOK, CreateCalls
  <2>2. create' \in [Creators -> CreateCalls]
    BY <1>2 DEF CreateLocked, TypeOK, CreateCalls
  <2>3. CASE Refused(q)
    BY <1>2, <2>2, <2>3, PrunedSubset DEF CreateLocked, TypeOK
  <2>4. CASE ~Refused(q)
    <3>1. PICK id \in Ids \ DOMAIN entries :
            /\ sessions' = Pruned(q.stamp) \cup {id}
            /\ entries' = [i \in DOMAIN entries \cup {id} |->
                 IF i = id
                 THEN [grant |-> q.grant, restartOf |-> q.restartOf,
                       createdAt |-> q.stamp, claimed |-> FALSE, result |-> Pending]
                 ELSE entries[i]]
      BY <1>2, <2>4 DEF CreateLocked
    <3>2. DOMAIN entries' = DOMAIN entries \cup {id}
      BY <3>1
    <3>3. entries' \in [DOMAIN entries' -> Entry]
      BY <2>1, <3>1, <3>2 DEF TypeOK, Entry
    <3>4. sessions' \subseteq DOMAIN entries'
      BY <3>1, <3>2, PrunedSubset DEF TypeOK
    <3>5. token' \in [Agents -> BOOLEAN]
      BY Zenon, <1>2, <2>1, <2>4 DEF CreateLocked, Notify, TypeOK
    <3>. QED
      BY <1>2, <2>2, <3>2, <3>3, <3>4, <3>5 DEF CreateLocked, TypeOK
  <2>. QED
    BY <2>3, <2>4
<1>3. ASSUME NEW p \in Polls, NEW a \in Agents, NextCall(p, a) PROVE TypeOK'
  <2>1. ASSUME NEW q \in Polls PROVE poll'[q] \in PollCalls
    <3>1. CASE q = p
      <4>1. (Rivals(p, a) = {}) \in BOOLEAN
        OBVIOUS
      <4>. QED
        BY <1>3, <3>1, <4>1 DEF NextCall, PollCalls
    <3>2. CASE q # p /\ q \in Rivals(p, a)
      <4>1. poll[q] \in [at: {"lock", "wait"}, agent: Agents, alone: BOOLEAN]
        BY <3>2 DEF Rivals, TypeOK, PollCalls
      <4>. QED
        BY Zenon, <1>3, <3>2, <4>1 DEF NextCall, PollCalls
    <3>3. CASE q # p /\ q \notin Rivals(p, a)
      BY <1>3, <3>3 DEF NextCall, TypeOK
    <3>. QED
      BY <3>1, <3>2, <3>3
  <2>2. poll' \in [Polls -> PollCalls]
    BY <1>3, <2>1 DEF NextCall
  <2>. QED
    BY <1>3, <2>2 DEF NextCall, TypeOK
<1>4. ASSUME NEW p \in Polls, NextLocked(p) PROVE TypeOK'
  <2>1. sessions' = Pruned(now)
    BY <1>4 DEF NextLocked
  <2>2. CASE \E id \in Selected(Pruned(now), poll[p].agent) :
               /\ entries' = [entries EXCEPT ![id].claimed = TRUE]
               /\ deliveries' = [deliveries EXCEPT ![id] = @ + 1]
               /\ poll' = [poll EXCEPT ![p] = [at |-> "idle"]]
    <3>1. PICK id \in Selected(Pruned(now), poll[p].agent) :
               /\ entries' = [entries EXCEPT ![id].claimed = TRUE]
               /\ deliveries' = [deliveries EXCEPT ![id] = @ + 1]
               /\ poll' = [poll EXCEPT ![p] = [at |-> "idle"]]
      BY Zenon, <2>2
    <3>2. id \in DOMAIN entries /\ id \in Ids
      BY <3>1, PrunedSubset DEF Selected, TypeOK
    <3>3. DOMAIN entries' = DOMAIN entries /\ entries' \in [DOMAIN entries -> Entry]
      <4>1. entries \in [DOMAIN entries -> Entry]
        BY DEF TypeOK
      <4>2. [entries[id] EXCEPT !.claimed = TRUE] \in Entry
        BY Zenon, <3>2, <4>1 DEF Entry
      <4>. QED
        BY <3>1, <3>2, <4>1, <4>2
    <3>4. deliveries' \in [Ids -> Nat]
      BY <3>1, <3>2 DEF TypeOK
    <3>5. poll' \in [Polls -> PollCalls]
      BY <3>1 DEF TypeOK, PollCalls
    <3>. QED
      BY <1>4, <2>1, <3>3, <3>4, <3>5, PrunedSubset DEF NextLocked, TypeOK
  <2>3. CASE poll' = [poll EXCEPT ![p].at = "wait"] /\ UNCHANGED <<entries, deliveries>>
    <3>1. poll' \in [Polls -> PollCalls]
      BY <1>4, <2>3 DEF NextLocked, TypeOK, PollCalls
    <3>. QED
      BY <1>4, <2>1, <2>3, <3>1, PrunedSubset DEF NextLocked, TypeOK
  <2>. QED
    BY <1>4, <2>2, <2>3 DEF NextLocked
<1>5. ASSUME NEW p \in Polls, NextWake(p) PROVE TypeOK'
  BY <1>5 DEF NextWake, TypeOK, PollCalls
<1>6. ASSUME NEW p \in Polls, NextCancel(p) PROVE TypeOK'
  BY <1>6 DEF NextCancel, TypeOK, PollCalls
<1>7. ASSUME NEW a \in Agents, NEW id \in Ids, NEW r, Finish(a, id, r)
      PROVE TypeOK'
  <2>1. DOMAIN entries' = DOMAIN entries /\ entries' \in [DOMAIN entries -> Entry]
    <3>1. entries \in [DOMAIN entries -> Entry]
      BY DEF TypeOK
    <3>2. CASE UNCHANGED entries
      BY <3>1, <3>2
    <3>3. CASE /\ id \in Pruned(now)
               /\ entries' = [entries EXCEPT ![id].result = r]
      <4>1. id \in DOMAIN entries /\ r \in Results
        BY <1>7, <3>3, PrunedSubset DEF Finish, ValidResult, TypeOK
      <4>2. [entries[id] EXCEPT !.result = r] \in Entry
        BY <3>1, <4>1 DEF Entry
      <4>. QED
        BY <3>1, <3>3, <4>1, <4>2
    <3>. QED
      BY <1>7, <3>2, <3>3 DEF Finish
  <2>. QED
    BY <1>7, <2>1, PrunedSubset DEF Finish, TypeOK
<1>8. ASSUME NEW u \in Users, NEW id \in Ids, Status(u, id) PROVE TypeOK'
  <2>1. shown' \in [Ids -> SUBSET Results]
    BY <1>8, PrunedSubset DEF Status, TypeOK, Entry
  <2>. QED
    BY <1>8, <2>1, PrunedSubset DEF Status, TypeOK
<1>9. CASE Tick
  BY <1>9 DEF Tick, TypeOK
<1>10. CASE UNCHANGED vars
  BY <1>10 DEF vars, TypeOK
<1>. QED
  BY <1>1, <1>2, <1>3, <1>4, <1>5, <1>6, <1>7, <1>8, <1>9, <1>10 DEF Next

\* The broker's state keeps its type whatever calls are in flight.
THEOREM TypeCorrect == Spec => []TypeOK
BY InitTyped, StepTyped, PTL DEF Spec
-----------------------------------------------------------------------------
(***************************************************************************)
(* What a step can do to the entries.                                      *)
(***************************************************************************)

\* The actions that leave the entries alone.
LEMMA QuietStep ==
  ASSUME [Next]_vars
  PROVE  \/ UNCHANGED <<entries, deliveries>>
         \/ \E c \in Creators : CreateLocked(c)
         \/ \E p \in Polls : NextLocked(p)
         \/ \E a \in Agents, id \in Ids, r \in Results \cup {Malformed} : Finish(a, id, r)
BY DEF Next, vars, CreateCall, NextCall, NextWake, NextCancel, Status, Tick

\* The locked half of Create either leaves the entries alone or adds one,
\* blank, under a fresh id; a restart names a live entry with the same grant.
LEMMA CreateStep ==
  ASSUME TypeOK, NEW c \in Creators, CreateLocked(c)
  PROVE  \/ entries' = entries /\ sessions' = Pruned(create[c].stamp) /\ token' = token
         \/ \E id \in Ids \ DOMAIN entries :
              /\ DOMAIN entries' = DOMAIN entries \cup {id}
              /\ \A i \in DOMAIN entries : entries'[i] = entries[i]
              /\ entries'[id].claimed = FALSE /\ entries'[id].result = Pending
              /\ sessions' = Pruned(create[c].stamp) \cup {id}
              /\ token' = [token EXCEPT ![entries'[id].grant.agent] = TRUE]
              /\ entries'[id].restartOf # NoId =>
                   /\ entries'[id].restartOf \in DOMAIN entries
                   /\ SameGrant(entries[entries'[id].restartOf].grant, entries'[id].grant)
                   /\ entries'[id].createdAt - entries[entries'[id].restartOf].createdAt
                        < SessionTTL
<1> DEFINE q == create[c]
<1>1. CASE Refused(q)
  BY <1>1 DEF CreateLocked
<1>2. CASE ~Refused(q)
  <2>1. q \in [at: {"lock"}, grant: Grants, restartOf: Ids \cup {NoId}, stamp: Nat]
    BY DEF CreateLocked, TypeOK, CreateCalls
  <2>2. PICK id \in Ids \ DOMAIN entries :
          /\ sessions' = Pruned(q.stamp) \cup {id}
          /\ entries' = [i \in DOMAIN entries \cup {id} |->
               IF i = id
               THEN [grant |-> q.grant, restartOf |-> q.restartOf,
                     createdAt |-> q.stamp, claimed |-> FALSE, result |-> Pending]
               ELSE entries[i]]
    BY Zenon, <1>2 DEF CreateLocked
  <2>3. entries'[id] = [grant |-> q.grant, restartOf |-> q.restartOf,
                     createdAt |-> q.stamp, claimed |-> FALSE, result |-> Pending]
    BY <2>2
  <2>4. DOMAIN entries' = DOMAIN entries \cup {id}
    BY <2>2
  <2>5. \A i \in DOMAIN entries : entries'[i] = entries[i]
    BY <2>2
  <2>6. token' = [token EXCEPT ![entries'[id].grant.agent] = TRUE]
    <3>1. token' = [token EXCEPT ![q.grant.agent] = TRUE]
      BY <1>2 DEF CreateLocked, Notify
    <3>2. entries'[id].grant = q.grant
      BY <2>3
    <3>. QED
      BY <3>1, <3>2
  <2>7. ASSUME q.restartOf # NoId
        PROVE /\ q.restartOf \in DOMAIN entries
              /\ SameGrant(entries[q.restartOf].grant, q.grant)
              /\ q.stamp - entries[q.restartOf].createdAt < SessionTTL
    <3>1. q.restartOf \in Pruned(q.stamp) /\ SameGrant(entries[q.restartOf].grant, q.grant)
      BY <1>2, <2>7 DEF Refused
    <3>2. q.restartOf \in DOMAIN entries /\ ~(q.stamp - entries[q.restartOf].createdAt >= SessionTTL)
      BY <3>1 DEF Pruned, Expired, TypeOK
    <3>. QED
      BY <2>1, <3>1, <3>2, BrokerAssumption DEF TypeOK, Entry
  <2>. QED
    BY Zenon, <2>2, <2>3, <2>4, <2>5, <2>6, <2>7
<1>. QED
  BY Zenon, <1>1, <1>2

\* One turn of Next under the lock claims a live, unclaimed entry of its
\* Agent, or sends the poll to wait.
LEMMA NextStep ==
  ASSUME TypeOK, NEW p \in Polls, NextLocked(p)
  PROVE  \/ UNCHANGED <<entries, deliveries>>
         \/ \E id \in Pruned(now) :
              /\ Offered(entries[id], poll[p].agent)
              /\ entries' = [entries EXCEPT ![id].claimed = TRUE]
              /\ deliveries' = [deliveries EXCEPT ![id] = @ + 1]
              /\ poll' = [poll EXCEPT ![p] = [at |-> "idle"]]
BY DEF NextLocked, Selected

\* Finish settles a live, claimed, unsettled entry or changes no entry.
LEMMA FinishStep ==
  ASSUME TypeOK, NEW a \in Agents, NEW i \in Ids, NEW r, Finish(a, i, r)
  PROVE  \/ UNCHANGED entries
         \/ /\ i \in Pruned(now)
            /\ r \in Results
            /\ Finishable(entries[i], a)
            /\ entries' = [entries EXCEPT ![i].result = r]
BY DEF Finish, ValidResult
-----------------------------------------------------------------------------
(***************************************************************************)
(* Delivery and outcome.  DeliveredOnce and OneOutcome are not inductive   *)
(* by themselves: they say nothing of ids that are still to be drawn, and  *)
(* a result must be known to follow a claim.                               *)
(***************************************************************************)
HistoryInv ==
  /\ \A id \in Ids \ DOMAIN entries : deliveries[id] = 0 /\ shown[id] = {}
  /\ DeliveredOnce
  /\ \A id \in DOMAIN entries :
       /\ entries[id].result # Pending => entries[id].claimed
       /\ shown[id] \subseteq {entries[id].result}

\* Initially nothing was delivered or shown.
LEMMA InitHistory == Init => HistoryInv
BY DEF Init, HistoryInv, DeliveredOnce

\* Every step preserves the history invariant.
LEMMA StepHistory == TypeOK /\ HistoryInv /\ [Next]_vars => HistoryInv'
<1> SUFFICES ASSUME TypeOK, HistoryInv, [Next]_vars PROVE HistoryInv'
  OBVIOUS
<1>1. ASSUME NEW c \in Creators, CreateLocked(c) PROVE HistoryInv'
  <2>1. UNCHANGED <<deliveries, shown>>
    BY <1>1 DEF CreateLocked
  <2>2. CASE entries' = entries
    BY <2>1, <2>2 DEF HistoryInv, DeliveredOnce
  <2>3. CASE \E id \in Ids \ DOMAIN entries :
              /\ DOMAIN entries' = DOMAIN entries \cup {id}
              /\ \A i \in DOMAIN entries : entries'[i] = entries[i]
              /\ entries'[id].claimed = FALSE /\ entries'[id].result = Pending
    BY <2>1, <2>3 DEF HistoryInv, DeliveredOnce
  <2>. QED
    BY Zenon, <1>1, <2>2, <2>3, CreateStep
<1>2. ASSUME NEW p \in Polls, NextLocked(p) PROVE HistoryInv'
  <2>1. UNCHANGED shown
    BY <1>2 DEF NextLocked
  <2>2. CASE UNCHANGED <<entries, deliveries>>
    BY <2>1, <2>2 DEF HistoryInv, DeliveredOnce
  <2>3. CASE \E id \in Pruned(now) :
              /\ Offered(entries[id], poll[p].agent)
              /\ entries' = [entries EXCEPT ![id].claimed = TRUE]
              /\ deliveries' = [deliveries EXCEPT ![id] = @ + 1]
    <3>1. PICK id \in Pruned(now) :
              /\ Offered(entries[id], poll[p].agent)
              /\ entries' = [entries EXCEPT ![id].claimed = TRUE]
              /\ deliveries' = [deliveries EXCEPT ![id] = @ + 1]
      BY Zenon, <2>3
    <3>2. id \in DOMAIN entries /\ id \in Ids /\ entries[id] \in Entry
      BY <3>1, PrunedSubset DEF TypeOK
    <3>3. deliveries[id] = 0 /\ deliveries'[id] = 1
      BY <3>1, <3>2 DEF HistoryInv, DeliveredOnce, Offered, TypeOK
    <3>4. \A j \in Ids \ {id} : deliveries'[j] = deliveries[j]
      BY <3>1, <3>2 DEF TypeOK
    <3>5. /\ DOMAIN entries' = DOMAIN entries
          /\ \A j \in DOMAIN entries \ {id} : entries'[j] = entries[j]
          /\ entries'[id].claimed /\ entries'[id].result = entries[id].result
      BY <3>1, <3>2 DEF Entry, TypeOK
    <3>. QED
      BY <2>1, <3>2, <3>3, <3>4, <3>5 DEF HistoryInv, DeliveredOnce, TypeOK
  <2>. QED
    BY <1>2, <2>2, <2>3, NextStep
<1>3. ASSUME NEW a \in Agents, NEW i \in Ids, NEW r, Finish(a, i, r)
      PROVE HistoryInv'
  <2>1. UNCHANGED <<deliveries, shown>>
    BY <1>3 DEF Finish
  <2>2. CASE UNCHANGED entries
    BY <2>1, <2>2 DEF HistoryInv, DeliveredOnce
  <2>3. CASE /\ i \in Pruned(now)
             /\ r \in Results
             /\ Finishable(entries[i], a)
             /\ entries' = [entries EXCEPT ![i].result = r]
    <3>1. i \in DOMAIN entries /\ entries[i] \in Entry
      BY <2>3, PrunedSubset DEF TypeOK
    <3>2. shown[i] = {}
      BY <2>3, <3>1, BrokerAssumption DEF HistoryInv, Finishable, TypeOK
    <3>3. /\ DOMAIN entries' = DOMAIN entries
          /\ \A j \in DOMAIN entries \ {i} : entries'[j] = entries[j]
          /\ entries'[i].claimed = entries[i].claimed /\ entries[i].claimed
      BY Zenon, <2>3, <3>1 DEF Entry, TypeOK, Finishable
    <3>. QED
      BY Zenon, <2>1, <3>1, <3>2, <3>3 DEF HistoryInv, DeliveredOnce
  <2>. QED
    BY <1>3, <2>2, <2>3, FinishStep
<1>4. ASSUME NEW u \in Users, NEW id \in Ids, Status(u, id) PROVE HistoryInv'
  <2>1. UNCHANGED <<entries, deliveries>>
    BY <1>4 DEF Status
  <2>2. \A j \in DOMAIN entries : shown'[j] \subseteq {entries[j].result}
    BY <1>4 DEF Status, HistoryInv, TypeOK
  <2>3. \A j \in Ids \ DOMAIN entries : shown'[j] = {}
    BY <1>4, PrunedSubset DEF Status, HistoryInv, TypeOK
  <2>. QED
    BY <2>1, <2>2, <2>3 DEF HistoryInv, DeliveredOnce
<1>5. CASE UNCHANGED <<entries, deliveries, shown>>
  BY <1>5 DEF HistoryInv, DeliveredOnce
<1>. QED
  BY <1>1, <1>2, <1>3, <1>4, <1>5
     DEF Next, vars, CreateCall, NextCall, NextWake, NextCancel, Tick

\* An offer is returned by at most one call of Next, for any number of
\* concurrent polls.
THEOREM DeliveredOnceAlways == Spec => []DeliveredOnce
<1>1. HistoryInv => DeliveredOnce
  BY DEF HistoryInv
<1>. QED
  BY <1>1, InitTyped, StepTyped, InitHistory, StepHistory, PTL DEF Spec

\* Status never shows two outcomes of one offer, and an outcome only for an
\* offer that was delivered.
THEOREM OneOutcomeAlways == Spec => []OneOutcome
<1>1. HistoryInv => OneOutcome
  BY DEF HistoryInv, OneOutcome, DeliveredOnce
<1>. QED
  BY <1>1, InitTyped, StepTyped, InitHistory, StepHistory, PTL DEF Spec
-----------------------------------------------------------------------------
(***************************************************************************)
(* Restart chains.                                                         *)
(***************************************************************************)
RestartInv == RestartKeepsGrant /\ RestartWithinTTL

\* No step changes what an entry was created with.
LEMMA EntryFixed ==
  ASSUME TypeOK, [Next]_vars, NEW i \in DOMAIN entries
  PROVE  /\ i \in DOMAIN entries'
         /\ entries'[i].grant = entries[i].grant
         /\ entries'[i].restartOf = entries[i].restartOf
         /\ entries'[i].createdAt = entries[i].createdAt
<1> USE DEF TypeOK, Entry
<1>1. CASE UNCHANGED <<entries, deliveries>>
  BY <1>1
<1>2. ASSUME NEW c \in Creators, CreateLocked(c)
      PROVE /\ i \in DOMAIN entries'
            /\ entries'[i] = entries[i]
  BY Zenon, <1>2, CreateStep
<1>3. CASE \E p \in Polls : NextLocked(p)
  <2>1. PICK p \in Polls : NextLocked(p)
    BY <1>3
  <2>2. CASE \E id \in Pruned(now) : entries' = [entries EXCEPT ![id].claimed = TRUE]
    BY <2>2
  <2>. QED
    BY Zenon, <2>1, <2>2, NextStep
<1>4. CASE \E a \in Agents, id \in Ids, r \in Results \cup {Malformed} : Finish(a, id, r)
  <2>1. PICK a \in Agents, id \in Ids, r \in Results \cup {Malformed} : Finish(a, id, r)
    BY <1>4
  <2>2. CASE entries' = [entries EXCEPT ![id].result = r]
    BY <2>2
  <2>. QED
    BY <2>1, <2>2 DEF Finish
<1>. QED
  BY <1>1, <1>2, <1>3, <1>4, QuietStep

\* Entries are added by Create only.
LEMMA EntryAdded ==
  ASSUME TypeOK, [Next]_vars, NEW i \in DOMAIN entries', i \notin DOMAIN entries,
         entries'[i].restartOf # NoId
  PROVE  /\ entries'[i].restartOf \in DOMAIN entries
         /\ SameGrant(entries[entries'[i].restartOf].grant, entries'[i].grant)
         /\ entries'[i].createdAt - entries[entries'[i].restartOf].createdAt < SessionTTL
<1>1. CASE UNCHANGED <<entries, deliveries>>
  BY <1>1
<1>2. ASSUME NEW c \in Creators, CreateLocked(c)
      PROVE  /\ entries'[i].restartOf \in DOMAIN entries
             /\ SameGrant(entries[entries'[i].restartOf].grant, entries'[i].grant)
             /\ entries'[i].createdAt - entries[entries'[i].restartOf].createdAt < SessionTTL
  <2>1. PICK id \in Ids \ DOMAIN entries :
          /\ DOMAIN entries' = DOMAIN entries \cup {id}
          /\ entries'[id].restartOf # NoId =>
               /\ entries'[id].restartOf \in DOMAIN entries
               /\ SameGrant(entries[entries'[id].restartOf].grant, entries'[id].grant)
               /\ entries'[id].createdAt - entries[entries'[id].restartOf].createdAt
                    < SessionTTL
    BY <1>2, CreateStep, Zenon
  <2>2. i = id
    BY <2>1
  <2>. QED
    BY <2>1, <2>2
<1>3. CASE \E p \in Polls : NextLocked(p)
  BY <1>3, NextStep
<1>4. CASE \E a \in Agents, id \in Ids, r \in Results \cup {Malformed} : Finish(a, id, r)
  <2>1. PICK a \in Agents, id \in Ids, r \in Results \cup {Malformed} : Finish(a, id, r)
    BY <1>4
  <2>2. CASE entries' = [entries EXCEPT ![id].result = r]
    BY <2>2
  <2>. QED
    BY <2>1, <2>2 DEF Finish
<1>. QED
  BY <1>1, <1>2, <1>3, <1>4, QuietStep

\* Every step preserves the two facts about restart chains.
LEMMA StepRestart == TypeOK /\ RestartInv /\ [Next]_vars => RestartInv'
<1> SUFFICES ASSUME TypeOK, RestartInv, [Next]_vars, NEW i \in DOMAIN entries',
                    entries'[i].restartOf # NoId
             PROVE  LET r == entries'[i].restartOf IN
                    /\ r \in DOMAIN entries'
                    /\ \A f \in GrantFields : entries'[r].grant[f] = entries'[i].grant[f]
                    /\ entries'[i].createdAt - entries'[r].createdAt < SessionTTL
  BY DEF RestartInv, RestartKeepsGrant, RestartWithinTTL
<1>1. CASE i \in DOMAIN entries
  BY <1>1, EntryFixed DEF RestartInv, RestartKeepsGrant, RestartWithinTTL
<1>2. CASE i \notin DOMAIN entries
  BY <1>2, EntryAdded, EntryFixed DEF SameGrant
<1>. QED
  BY <1>1, <1>2

\* Initially there is no chain.
LEMMA InitRestart == Init => RestartInv
BY DEF Init, RestartInv, RestartKeepsGrant, RestartWithinTTL

\* Along every chain of ICE restarts the authorization stays the same.
THEOREM RestartKeepsGrantAlways == Spec => []RestartKeepsGrant
<1>1. RestartInv => RestartKeepsGrant
  BY DEF RestartInv
<1>. QED
  BY <1>1, InitTyped, StepTyped, InitRestart, StepRestart, PTL DEF Spec

\* Along every chain of ICE restarts two entries follow within SessionTTL,
\* although the clock is read outside the lock.
THEOREM RestartWithinTTLAlways == Spec => []RestartWithinTTL
<1>1. RestartInv => RestartWithinTTL
  BY DEF RestartInv
<1>. QED
  BY <1>1, InitTyped, StepTyped, InitRestart, StepRestart, PTL DEF Spec
-----------------------------------------------------------------------------
(***************************************************************************)
(* Expiry.                                                                 *)
(***************************************************************************)

\* No step hands out or settles an entry that has outlived SessionTTL.
THEOREM ExpiredInert == Spec => ExpiredIsInert
<1> DEFINE Inert == \A id \in DOMAIN entries :
                      Expired(entries[id], now) => entries'[id] = entries[id]
<1>1. TypeOK /\ [Next]_vars => Inert
  <2> SUFFICES ASSUME TypeOK, [Next]_vars, NEW id \in DOMAIN entries, Expired(entries[id], now)
               PROVE  entries'[id] = entries[id]
    OBVIOUS
  <2>1. id \notin Pruned(now)
    BY DEF Pruned
  <2>2. ASSUME NEW c \in Creators, CreateLocked(c) PROVE entries'[id] = entries[id]
    BY Zenon, <2>2, CreateStep
  <2>3. CASE \E p \in Polls : NextLocked(p)
    BY <2>1, <2>3, NextStep DEF TypeOK
  <2>4. CASE \E a \in Agents, i \in Ids, r \in Results \cup {Malformed} : Finish(a, i, r)
    BY <2>1, <2>4, FinishStep DEF TypeOK
  <2>. QED
    BY <2>2, <2>3, <2>4, QuietStep
<1>2. Spec => [][Inert]_vars
  BY <1>1, InitTyped, StepTyped, PTL DEF Spec
<1>. QED
  BY <1>2 DEF ExpiredIsInert
-----------------------------------------------------------------------------
(***************************************************************************)
(* Wakeups.                                                                *)
(***************************************************************************)

\* A nonempty set of naturals has a least element.
LEMMA LeastElement ==
  ASSUME NEW T, T \subseteq Nat, T # {}
  PROVE  \E x \in T : \A y \in T : x <= y
<1> DEFINE R == OpToRel(<, Nat)
<1>1. IsWellFoundedOn(R, Nat)
  BY Zenon, NatLessThanWellFounded
<1>2. \A x, y \in Nat : <<x, y>> \in R <=> x < y
  BY DEF OpToRel
<1> HIDE DEF R
<1>3. PICK x \in T : \A y \in T : ~(<<y, x>> \in R)
  BY Zenon, <1>1, WFMin
<1>4. ASSUME NEW y \in T PROVE x <= y
  <2>1. x \in Nat /\ y \in Nat
    OBVIOUS
  <2>2. ~(y < x)
    BY Zenon, <1>2, <1>3, <2>1
  <2>. QED
    BY <2>1, <2>2
<1>. QED
  BY <1>4

\* Next finds something to claim whenever something is offered.
LEMMA SelectedNonempty ==
  ASSUME TypeOK, NEW S, S \subseteq sessions, NEW a,
         \E id \in S : Offered(entries[id], a)
  PROVE  Selected(S, a) # {}
<1> DEFINE T == {entries[id].createdAt : id \in {j \in S : Offered(entries[j], a)}}
<1>1. T \subseteq Nat /\ T # {}
  BY DEF TypeOK, Entry
<1>2. PICK x \in T : \A y \in T : x <= y
  <2> HIDE DEF T
  <2>. QED
    BY Zenon, <1>1, LeastElement
<1>3. PICK id \in S : Offered(entries[id], a) /\ entries[id].createdAt = x
  OBVIOUS
<1>4. id \in Selected(S, a)
  BY <1>2, <1>3 DEF Selected
<1>. QED
  BY <1>4
\* The strengthening of NoLostWakeup: the history flag alone means what it
\* says, so nobody else can consume the wakeup of a lone poll.
WakeInv ==
  /\ \A p \in Polls :
       poll[p].at # "idle" /\ poll[p].alone => Rivals(p, poll[p].agent) = {}
  /\ NoLostWakeup

\* Steps that wake nobody, consume nothing and offer nothing new.
LEMMA WakeFrame ==
  ASSUME TypeOK, WakeInv, UNCHANGED <<token, poll>>, sessions' \subseteq sessions,
         \A id \in sessions', a \in Agents :
            Offered(entries'[id], a) => Offered(entries[id], a)
  PROVE  WakeInv'
<1>1. \A p \in Polls : poll[p].at # "idle" => poll[p].agent \in Agents
  BY DEF TypeOK, PollCalls
<1>2. NoLostWakeup'
  BY <1>1 DEF WakeInv, NoLostWakeup
<1>3. \A p \in Polls, a \in Agents : Rivals(p, a)' = Rivals(p, a)
  BY DEF Rivals
<1>. QED
  BY <1>1, <1>2, <1>3 DEF WakeInv

\* Every step preserves the wakeup invariant.
LEMMA StepWake == TypeOK /\ WakeInv /\ [Next]_vars => WakeInv'
<1> SUFFICES ASSUME TypeOK, WakeInv, [Next]_vars PROVE WakeInv'
  OBVIOUS
<1>0. \A p \in Polls : poll[p].at # "idle" =>
        /\ poll[p] \in [at: {"lock", "wait"}, agent: Agents, alone: BOOLEAN]
        /\ poll[p].agent \in Agents
  BY DEF TypeOK, PollCalls
<1>1. ASSUME NEW c \in Creators, CreateLocked(c) PROVE WakeInv'
  <2>1. UNCHANGED poll
    BY <1>1 DEF CreateLocked
  <2>2. CASE entries' = entries /\ sessions' = Pruned(create[c].stamp) /\ token' = token
    BY <2>1, <2>2, WakeFrame, PrunedSubset
  <2>3. CASE \E id \in Ids \ DOMAIN entries :
              /\ \A i \in DOMAIN entries : entries'[i] = entries[i]
              /\ sessions' = Pruned(create[c].stamp) \cup {id}
              /\ token' = [token EXCEPT ![entries'[id].grant.agent] = TRUE]
    <3>1. PICK id \in Ids \ DOMAIN entries :
              /\ \A i \in DOMAIN entries : entries'[i] = entries[i]
              /\ sessions' = Pruned(create[c].stamp) \cup {id}
              /\ token' = [token EXCEPT ![entries'[id].grant.agent] = TRUE]
      BY Zenon, <2>3
    <3>2. ASSUME NEW p \in Polls, poll[p].at = "wait", poll[p].alone, ~token'[poll[p].agent],
                 NEW i \in sessions'
          PROVE  ~Offered(entries'[i], poll[p].agent)
      <4>1. poll[p].agent \in Agents /\ poll[p].agent # entries'[id].grant.agent
            /\ ~token[poll[p].agent]
        BY <1>0, <3>1, <3>2 DEF TypeOK
      <4>2. CASE i = id
        BY <4>1, <4>2 DEF Offered
      <4>3. CASE i # id
        <5>1. i \in sessions /\ entries'[i] = entries[i]
          BY <3>1, <3>2, <4>3, PrunedSubset DEF TypeOK
        <5>. QED
          BY <3>2, <4>1, <5>1 DEF WakeInv, NoLostWakeup, Offered
      <4>. QED
        BY <4>2, <4>3
    <3>3. NoLostWakeup'
      BY <2>1, <3>2 DEF NoLostWakeup
    <3>4. \A p \in Polls, a \in Agents : Rivals(p, a)' = Rivals(p, a)
      BY <2>1 DEF Rivals
    <3>. QED
      BY <1>0, <2>1, <3>3, <3>4 DEF WakeInv
  <2>. QED
    BY Zenon, <1>1, <2>2, <2>3, CreateStep
<1>2. ASSUME NEW p \in Polls, NEW a \in Agents, NextCall(p, a) PROVE WakeInv'
  <2>1. poll[p].at = "idle" /\ UNCHANGED <<sessions, entries, token>>
    BY <1>2 DEF NextCall
  <2>2. ASSUME NEW q \in Polls
        PROVE  /\ q = p => /\ poll'[q].at = "lock" /\ poll'[q].agent = a
                           /\ poll'[q].alone = (Rivals(p, a) = {})
               /\ q # p => /\ poll'[q].at = poll[q].at
                           /\ poll[q].at # "idle" => poll'[q].agent = poll[q].agent
               /\ q # p /\ q \in Rivals(p, a) => poll'[q].alone = FALSE
               /\ q # p /\ q \notin Rivals(p, a) => poll'[q] = poll[q]
    BY Zenon, <1>0, <1>2, <2>2 DEF NextCall, Rivals
  <2>3. ASSUME NEW q \in Polls, poll'[q].at # "idle", poll'[q].alone
        PROVE  Rivals(q, poll[q].agent)' = {}
    <3>0. \A o \in Polls \ {p} : poll'[o].at # "idle" =>
            poll[o].at # "idle" /\ poll'[o].agent = poll[o].agent
      BY Zenon, <2>2
    <3>1. CASE q = p
      <4>1. Rivals(p, a) = {} /\ poll'[q].agent = a
        BY Zenon, <2>2, <2>3, <3>1
      <4>2. ASSUME NEW o \in Rivals(p, a)' PROVE FALSE
        BY <3>0, <4>1, <4>2 DEF Rivals
      <4>. QED
        BY <3>1, <4>1, <4>2
    <3>2. CASE q # p
      <4>1. q \notin Rivals(p, a) /\ poll'[q] = poll[q]
        BY Zenon, <2>2, <2>3, <3>2
      <4>2. poll[q].at # "idle" /\ poll[q].agent # a
        BY <2>3, <3>2, <4>1 DEF Rivals
      <4>3. Rivals(q, poll[q].agent) = {}
        BY <2>3, <4>1 DEF WakeInv
      <4>4. poll'[p].agent = a
        BY Zenon, <2>2
      <4>5. ASSUME NEW o \in Rivals(q, poll[q].agent)' PROVE FALSE
        <5>1. o \in Polls \ {q} /\ poll'[o].at # "idle" /\ poll'[o].agent = poll[q].agent
          BY <4>1, <4>5 DEF Rivals
        <5>2. o # p
          BY <4>2, <4>4, <5>1
        <5>. QED
          BY <3>0, <4>3, <5>1, <5>2 DEF Rivals
      <4>. QED
        BY <4>5
    <3>. QED
      BY <3>1, <3>2
  <2>4. NoLostWakeup'
    <3> SUFFICES ASSUME NEW q \in Polls, poll'[q].at = "wait", poll'[q].alone,
                        ~token'[poll'[q].agent], NEW id \in sessions'
                 PROVE  ~Offered(entries'[id], poll'[q].agent)
      BY DEF NoLostWakeup
    <3>1. q # p /\ poll'[q] = poll[q]
      BY Zenon, <2>2
    <3>. QED
      BY <2>1, <3>1 DEF WakeInv, NoLostWakeup, Offered
  <2>. QED
    BY <2>3, <2>4 DEF WakeInv
<1>3. ASSUME NEW p \in Polls, NextLocked(p) PROVE WakeInv'
  <2>1. sessions' = Pruned(now) /\ sessions' \subseteq sessions /\ UNCHANGED token
    BY <1>3, PrunedSubset DEF NextLocked
  <2>2. poll[p].at = "lock"
    BY <1>3 DEF NextLocked
  <2>3. \A q \in Polls \ {p} : poll'[q] = poll[q]
    BY <1>3 DEF NextLocked, TypeOK
  <2>4. poll'[p].at \in {"idle", "wait"}
        /\ (poll'[p].at = "wait" => /\ poll'[p].agent = poll[p].agent
                                    /\ poll'[p].alone = poll[p].alone
                                    /\ Selected(Pruned(now), poll[p].agent) = {}
                                    /\ entries' = entries)
    BY <1>0, <1>3 DEF NextLocked, TypeOK
  <2>5. \A id \in sessions, a \in Agents : Offered(entries'[id], a) => Offered(entries[id], a)
    <3>1. CASE entries' = entries
      BY <3>1
    <3>2. CASE \E i \in Pruned(now) : entries' = [entries EXCEPT ![i].claimed = TRUE]
      BY <3>2, PrunedSubset DEF TypeOK, Entry, Offered
    <3>. QED
      BY <1>3, <3>1, <3>2, NextStep
  <2>6. ASSUME NEW q \in Polls, poll'[q].at # "idle", poll'[q].alone
        PROVE  Rivals(q, poll[q].agent)' = {}
    <3>1. poll[q].at # "idle" /\ poll[q].alone /\ poll'[q].agent = poll[q].agent
      BY <2>2, <2>3, <2>4, <2>6
    <3>2. Rivals(q, poll[q].agent) = {}
      BY <3>1 DEF WakeInv
    <3>3. ASSUME NEW o \in Rivals(q, poll[q].agent)' PROVE FALSE
      <4>1. o \in Polls \ {q} /\ poll'[o].at # "idle" /\ poll'[o].agent = poll[q].agent
        BY <3>1, <3>3 DEF Rivals
      <4>2. poll[o].at # "idle" /\ poll[o].agent = poll[q].agent
        BY <2>2, <2>3, <2>4, <4>1
      <4>. QED
        BY <3>2, <4>1, <4>2 DEF Rivals
    <3>. QED
      BY <3>3
  <2>7. NoLostWakeup'
    <3> SUFFICES ASSUME NEW q \in Polls, poll'[q].at = "wait", poll'[q].alone,
                        ~token'[poll'[q].agent], NEW id \in sessions'
                 PROVE  ~Offered(entries'[id], poll'[q].agent)
      BY DEF NoLostWakeup
    <3>1. CASE q = p
      <4>1. Selected(Pruned(now), poll[p].agent) = {} /\ entries' = entries
            /\ poll'[q].agent = poll[p].agent
        BY <2>4, <3>1
      <4>2. ~ \E i \in Pruned(now) : Offered(entries[i], poll[p].agent)
        BY <4>1, SelectedNonempty, PrunedSubset
      <4>. QED
        BY <2>1, <4>1, <4>2
    <3>2. CASE q # p
      <4>1. poll'[q] = poll[q] /\ poll[q].agent \in Agents
        BY <1>0, <2>3, <3>2
      <4>2. ~Offered(entries[id], poll[q].agent)
        BY <2>1, <4>1 DEF WakeInv, NoLostWakeup
      <4>. QED
        BY <2>1, <2>5, <4>1, <4>2
    <3>. QED
      BY <3>1, <3>2
  <2>. QED
    BY <2>6, <2>7 DEF WakeInv
<1>4. ASSUME NEW p \in Polls, NextWake(p) \/ NextCancel(p) PROVE WakeInv'
  <2>1. UNCHANGED <<sessions, entries>> /\ poll[p].at = "wait"
    BY <1>4 DEF NextWake, NextCancel
  <2>2. \A q \in Polls \ {p} : poll'[q] = poll[q]
    BY <1>4 DEF NextWake, NextCancel, TypeOK
  <2>3. poll'[p].at \in {"idle", "lock"}
        /\ (poll'[p].at = "lock" => poll'[p].agent = poll[p].agent /\ poll'[p].alone = poll[p].alone)
    BY <1>0, <1>4 DEF NextWake, NextCancel, TypeOK
  <2>4. \A a \in Agents : a # poll[p].agent => token'[a] = token[a]
    BY <1>4 DEF NextWake, NextCancel, TypeOK
  <2>5. ASSUME NEW q \in Polls, poll'[q].at # "idle", poll'[q].alone
        PROVE  Rivals(q, poll[q].agent)' = {}
    <3>1. poll[q].at # "idle" /\ poll[q].alone /\ poll'[q].agent = poll[q].agent
      BY <2>1, <2>2, <2>3, <2>5
    <3>2. Rivals(q, poll[q].agent) = {}
      BY <3>1 DEF WakeInv
    <3>3. ASSUME NEW o \in Rivals(q, poll[q].agent)' PROVE FALSE
      <4>1. o \in Polls \ {q} /\ poll'[o].at # "idle" /\ poll'[o].agent = poll[q].agent
        BY <3>1, <3>3 DEF Rivals
      <4>2. poll[o].at # "idle" /\ poll[o].agent = poll[q].agent
        BY <2>1, <2>2, <2>3, <4>1
      <4>. QED
        BY <3>2, <4>1, <4>2 DEF Rivals
    <3>. QED
      BY <3>3
  <2>6. NoLostWakeup'
    <3> SUFFICES ASSUME NEW q \in Polls, poll'[q].at = "wait", poll'[q].alone,
                        ~token'[poll'[q].agent], NEW id \in sessions'
                 PROVE  ~Offered(entries'[id], poll'[q].agent)
      BY DEF NoLostWakeup
    <3>1. q # p /\ poll'[q] = poll[q] /\ poll[q].agent \in Agents
      BY <1>0, <2>2, <2>3
    <3>2. poll[q].agent # poll[p].agent
      BY <2>1, <3>1 DEF WakeInv, Rivals
    <3>. QED
      BY <2>1, <2>4, <3>1, <3>2 DEF WakeInv, NoLostWakeup
  <2>. QED
    BY <2>5, <2>6 DEF WakeInv
<1>5. ASSUME NEW a \in Agents, NEW i \in Ids, NEW r, Finish(a, i, r)
      PROVE WakeInv'
  <2>1. UNCHANGED <<token, poll>> /\ sessions' \subseteq sessions
    BY <1>5, PrunedSubset DEF Finish
  <2>2. \A id \in sessions, b \in Agents : Offered(entries'[id], b) => Offered(entries[id], b)
    <3>1. CASE entries' = entries
      BY <3>1
    <3>2. CASE /\ i \in Pruned(now) /\ r \in Results
               /\ entries' = [entries EXCEPT ![i].result = r]
      BY <3>2, PrunedSubset, BrokerAssumption DEF TypeOK, Entry, Offered
    <3>. QED
      BY <1>5, <3>1, <3>2, FinishStep
  <2>. QED
    BY <2>1, <2>2, WakeFrame
<1>6. ASSUME NEW u \in Users, NEW id \in Ids, Status(u, id) PROVE WakeInv'
  <2>1. UNCHANGED <<token, poll, entries>> /\ sessions' \subseteq sessions
    BY <1>6, PrunedSubset DEF Status
  <2>. QED
    BY <2>1, WakeFrame
<1>7. CASE UNCHANGED <<token, poll, entries, sessions>>
  BY <1>7, WakeFrame
<1>. QED
  BY <1>1, <1>2, <1>3, <1>4, <1>5, <1>6, <1>7 DEF Next, vars, CreateCall, Tick

\* Initially nobody waits.
LEMMA InitWake == Init => WakeInv
BY DEF Init, WakeInv, NoLostWakeup

\* A poll without rivals never sleeps through an offer for its Agent, for
\* any number of Agents, offers and concurrent creations.
THEOREM NoLostWakeupAlways == Spec => []NoLostWakeup
<1>1. WakeInv => NoLostWakeup
  BY DEF WakeInv
<1>. QED
  BY <1>1, InitTyped, StepTyped, InitWake, StepWake, PTL DEF Spec
-----------------------------------------------------------------------------
(***************************************************************************)
(* Refinement.                                                             *)
(***************************************************************************)

\* The offers a step removes from the map are alive before it.
LEMMA VanishedAlive ==
  ASSUME TypeOK
  PROVE  sessions = Lifecycle!Alive
BY DEF TypeOK, Stage, Lifecycle!Alive

\* A step that only prunes is a Vanish step of the abstract specification.
LEMMA PruneRefines ==
  ASSUME TypeOK, entries' = entries, sessions' \subseteq sessions
  PROVE  Lifecycle!Next
<1> DEFINE D == sessions \ sessions'
<1>1. D \in SUBSET Lifecycle!Alive
  BY VanishedAlive
<1>2. Lifecycle!Vanish(D)
  <2>1. \A j \in Ids : Stage(j)' = IF j \in D THEN "gone" ELSE Stage(j)
    BY DEF Stage, TypeOK
  <2>2. \A j \in Ids : Outcome(j)' = Outcome(j)
    BY DEF Outcome
  <2>. QED
    BY <2>1, <2>2 DEF Lifecycle!Vanish
<1>. QED
  BY <1>1, <1>2 DEF Lifecycle!Next

\* Every step of the broker is a step of the abstract specification.
LEMMA StepRefines ==
  TypeOK /\ HistoryInv /\ [Next]_vars => [Lifecycle!Next]_(Lifecycle!vars)
<1> SUFFICES ASSUME TypeOK, HistoryInv, [Next]_vars
             PROVE  [Lifecycle!Next]_(Lifecycle!vars)
  OBVIOUS
<1>1. ASSUME NEW c \in Creators, CreateLocked(c) PROVE Lifecycle!Next
  <2>1. CASE entries' = entries /\ sessions' = Pruned(create[c].stamp)
    BY <2>1, PruneRefines, PrunedSubset
  <2>2. CASE \E id \in Ids \ DOMAIN entries :
              /\ DOMAIN entries' = DOMAIN entries \cup {id}
              /\ \A i \in DOMAIN entries : entries'[i] = entries[i]
              /\ entries'[id].claimed = FALSE /\ entries'[id].result = Pending
              /\ sessions' = Pruned(create[c].stamp) \cup {id}
    <3>1. PICK id \in Ids \ DOMAIN entries :
              /\ DOMAIN entries' = DOMAIN entries \cup {id}
              /\ \A i \in DOMAIN entries : entries'[i] = entries[i]
              /\ entries'[id].claimed = FALSE /\ entries'[id].result = Pending
              /\ sessions' = Pruned(create[c].stamp) \cup {id}
      BY <2>2
    <3> DEFINE D == sessions \ sessions'
    <3>2. D \in SUBSET Lifecycle!Alive /\ id \in Ids \ D
      BY <3>1, VanishedAlive DEF TypeOK
    <3>3. Stage(id) = "new"
      BY <3>1 DEF Stage
    <3>4. \A j \in Ids : Stage(j)' = IF j = id THEN "posted" ELSE IF j \in D THEN "gone" ELSE Stage(j)
      BY <3>1, PrunedSubset DEF Stage, TypeOK
    <3>5. \A j \in Ids : Outcome(j)' = Outcome(j)
      BY <3>1 DEF Outcome
    <3>6. Lifecycle!Post(id, D)
      BY <3>1, <3>3, <3>4, <3>5 DEF Lifecycle!Post, Lifecycle!Move
    <3>. QED
      BY <3>2, <3>6 DEF Lifecycle!Next
  <2>. QED
    BY Zenon, <1>1, <2>1, <2>2, CreateStep
<1>2. ASSUME NEW p \in Polls, NextLocked(p) PROVE Lifecycle!Next
  <2>1. sessions' = Pruned(now)
    BY <1>2 DEF NextLocked
  <2>2. CASE entries' = entries
    BY <2>1, <2>2, PruneRefines, PrunedSubset
  <2>3. CASE \E id \in Pruned(now) :
              /\ Offered(entries[id], poll[p].agent)
              /\ entries' = [entries EXCEPT ![id].claimed = TRUE]
    <3>1. PICK id \in Pruned(now) :
              /\ Offered(entries[id], poll[p].agent)
              /\ entries' = [entries EXCEPT ![id].claimed = TRUE]
      BY Zenon, <2>3
    <3> DEFINE D == sessions \ sessions'
    <3>2. id \in sessions /\ id \in DOMAIN entries /\ id \in Ids /\ entries[id] \in Entry
      BY <3>1, PrunedSubset DEF TypeOK
    <3>3. D \in SUBSET Lifecycle!Alive /\ id \in Ids \ D
      BY <2>1, <3>1, <3>2, VanishedAlive
    <3>4. Stage(id) = "posted"
      BY <3>1, <3>2 DEF Stage, Offered
    <3>5. /\ DOMAIN entries' = DOMAIN entries
          /\ \A j \in DOMAIN entries \ {id} : entries'[j] = entries[j]
          /\ entries'[id].claimed /\ entries'[id].result = Pending
          /\ entries[id].result = Pending
      BY <3>1, <3>2 DEF Entry, TypeOK, Offered
    <3>6. \A j \in Ids : Stage(j)' = IF j = id THEN "taken" ELSE IF j \in D THEN "gone" ELSE Stage(j)
      BY <2>1, <3>1, <3>2, <3>5, PrunedSubset DEF Stage, TypeOK
    <3>7. \A j \in Ids : Outcome(j)' = Outcome(j)
      BY <3>2, <3>5 DEF Outcome
    <3>8. Lifecycle!Take(id, D)
      BY <3>2, <3>4, <3>6, <3>7 DEF Lifecycle!Take, Lifecycle!Move
    <3>. QED
      BY <3>3, <3>8 DEF Lifecycle!Next
  <2>. QED
    BY <1>2, <2>2, <2>3, NextStep
<1>3. ASSUME NEW a \in Agents, NEW i \in Ids, NEW r, Finish(a, i, r)
      PROVE Lifecycle!Next
  <2>1. sessions' = Pruned(now)
    BY <1>3 DEF Finish
  <2>2. CASE entries' = entries
    BY <2>1, <2>2, PruneRefines, PrunedSubset
  <2>3. CASE /\ i \in Pruned(now)
             /\ r \in Results
             /\ Finishable(entries[i], a)
             /\ entries' = [entries EXCEPT ![i].result = r]
    <3> DEFINE D == sessions \ sessions'
    <3>1. i \in sessions /\ i \in DOMAIN entries /\ entries[i] \in Entry
      BY <2>3, PrunedSubset DEF TypeOK
    <3>2. D \in SUBSET Lifecycle!Alive /\ i \in Ids \ D
      BY <2>1, <2>3, <3>1, VanishedAlive
    <3>3. Stage(i) = "taken"
      BY <2>3, <3>1 DEF Stage, Finishable
    <3>4. /\ DOMAIN entries' = DOMAIN entries
          /\ \A j \in DOMAIN entries \ {i} : entries'[j] = entries[j]
          /\ entries'[i].result = r /\ r # Pending
      BY <2>3, <3>1, BrokerAssumption DEF Entry, TypeOK
    <3>5. \A j \in Ids : Stage(j)' = IF j = i THEN "settled" ELSE IF j \in D THEN "gone" ELSE Stage(j)
      BY <2>1, <2>3, <3>1, <3>4, PrunedSubset DEF Stage, TypeOK
    <3>6. \A j \in Ids : Outcome(j)' = IF j = i THEN r ELSE Outcome(j)
      BY <3>1, <3>4 DEF Outcome
    <3>7. Lifecycle!Settle(i, r, D)
      BY Zenon, <3>1, <3>3, <3>5, <3>6 DEF Lifecycle!Settle, Lifecycle!Move
    <3>. QED
      BY <2>3, <3>2, <3>7 DEF Lifecycle!Next
  <2>. QED
    BY <1>3, <2>2, <2>3, FinishStep
<1>4. ASSUME NEW u \in Users, NEW id \in Ids, Status(u, id) PROVE Lifecycle!Next
  <2>1. entries' = entries /\ sessions' \subseteq sessions
    BY <1>4, PrunedSubset DEF Status
  <2>. QED
    BY <2>1, PruneRefines
<1>5. CASE UNCHANGED <<entries, sessions>>
  BY <1>5, PruneRefines
<1>. QED
  BY <1>1, <1>2, <1>3, <1>4, <1>5
     DEF Next, vars, CreateCall, NextCall, NextWake, NextCancel, Tick

\* The broker implements the life cycle of an offer: every offer is posted,
\* taken and settled at most once each, in that order, and never comes back.
THEOREM Refinement == Spec => ImplementsLifecycle
<1>1. Init => Lifecycle!Init
  BY DEF Init, Lifecycle!Init, Stage, Outcome
<1>. QED
  BY <1>1, InitTyped, StepTyped, InitHistory, StepHistory, StepRefines, PTL
     DEF Spec, ImplementsLifecycle, Lifecycle!Spec
=============================================================================

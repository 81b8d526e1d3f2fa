--------------------------- MODULE OfferLifecycle ---------------------------
(***************************************************************************)
(* What signaling promises about one offer, with no clock, no channel and  *)
(* no concurrent calls: it is posted once, taken at most once, settled at  *)
(* most once and only after it was taken, and once gone it never returns.  *)
(* Broker is shown to implement this specification.                        *)
(***************************************************************************)
EXTENDS Naturals

CONSTANTS Ids, Results, Pending

VARIABLES
  stage,    \* stage[i]: "new", "posted", "taken", "settled" or "gone"
  outcome   \* outcome[i]: the result of a settled offer

vars == <<stage, outcome>>

Init ==
  /\ stage = [i \in Ids |-> "new"]
  /\ outcome = [i \in Ids |-> Pending]

Alive == {i \in Ids : stage[i] \in {"posted", "taken", "settled"}}

\* Offer i moves to stage s while the offers of D disappear.
Move(i, s, D) ==
  stage' = [j \in Ids |-> IF j = i THEN s ELSE IF j \in D THEN "gone" ELSE stage[j]]

Post(i, D) == stage[i] = "new" /\ Move(i, "posted", D) /\ UNCHANGED outcome

Take(i, D) == stage[i] = "posted" /\ Move(i, "taken", D) /\ UNCHANGED outcome

Settle(i, r, D) ==
  /\ stage[i] = "taken"
  /\ Move(i, "settled", D)
  /\ outcome' = [outcome EXCEPT ![i] = r]

Vanish(D) ==
  /\ stage' = [j \in Ids |-> IF j \in D THEN "gone" ELSE stage[j]]
  /\ UNCHANGED outcome

Next ==
  \E D \in SUBSET Alive :
    \/ Vanish(D)
    \/ \E i \in Ids \ D :
         Post(i, D) \/ Take(i, D) \/ \E r \in Results : Settle(i, r, D)

Spec == Init /\ [][Next]_vars
=============================================================================

----------------------------- MODULE MCIdentity -----------------------------
(***************************************************************************)
(* Identity with one bound Agent, a process that has its id and another    *)
(* key, and a process whose id was never bound.                            *)
(***************************************************************************)
EXTENDS Identity, TLC

CONSTANTS i1, i2, p1, p2, p3

MCId == p1 :> i1 @@ p2 :> i1 @@ p3 :> i2

MCHolder == i1 :> p1

\* The bound Agent's clock is right, or ahead by more than MaxClockSkew.
MCSkews == p1 :> {0, 2} @@ p2 :> {0} @@ p3 :> {0}

\* Nonces and copies are names that are only compared.
Symmetry == Permutations(Nonces) \cup Permutations(Copies)
=============================================================================

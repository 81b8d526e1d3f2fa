----------------------------- MODULE MCEnrolment -----------------------------
(***************************************************************************)
(* Two runs of bind, on one machine or on two, that race for the key file  *)
(* and the codes.                                                          *)
(***************************************************************************)
EXTENDS Enrolment, TLC

\* Only invariants are checked, and every set holds names that are only compared.
Symmetry ==
  Permutations(Machines) \cup Permutations(Runs) \cup Permutations(Codes)
    \cup Permutations(Keys) \cup Permutations(AgentIds) \cup Permutations(Requests)
=============================================================================

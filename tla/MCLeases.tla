------------------------------ MODULE MCLeases ------------------------------
(* Instances of Leases for TLC. *)
EXTENDS Leases, TLC

CONSTANTS u1, u2, c1, c2

\* Requests are interchangeable, and so are users.
MCSymmetry == Permutations({c1, c2}) \cup Permutations({u1, u2})
=============================================================================

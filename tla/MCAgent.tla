------------------------------ MODULE MCAgent ------------------------------
(* An instance of Agent for TLC. *)
EXTENDS Agent, TLC

CONSTANTS p1, p2

\* The connection of one peer changes its state, with two handlers at a time.
MCPending == (p1 :> 2) @@ (p2 :> 0)
=============================================================================

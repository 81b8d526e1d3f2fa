------------------------------ MODULE MCBroker ------------------------------
(***************************************************************************)
(* Small instances of Broker.                                              *)
(***************************************************************************)
EXTENDS Broker

CONSTANTS a1, u1, u2

Grant(agent, session, user, temporary) ==
  [agent |-> agent, browserSession |-> session, service |-> "svc", user |-> user,
   capability |-> session, temporary |-> temporary]

\* A restart request can quote another user's browser session.
MCForeign == {Grant(a1, "s1", u1, FALSE), Grant(a1, "s1", u2, FALSE)}
=============================================================================

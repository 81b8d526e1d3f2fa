------------------------------ MODULE Browser ------------------------------
(***************************************************************************)
(* The connections of one portal page (web/src/app.ts and the class        *)
(* DirectConnection of web/src/connection.ts).  JavaScript runs one task   *)
(* at a time; a step here is the code between two awaits, and every await  *)
(* lets clicks, timers, peer events and the other calls in.                *)
(*                                                                         *)
(* Each call of app.connect makes one DirectConnection, so both have one   *)
(* name.  The awaits that no other code can tell apart are one stage:      *)
(* localOffer and the POST ("post"), setRemoteDescription and the opening  *)
(* of the channels ("open"), authentication, temporary target and          *)
(* candidate pair ("auth").                                                *)
(***************************************************************************)
EXTENDS Integers, FiniteSets

CONSTANTS
  Conns,        \* calls of app.connect, each with its DirectConnection
  Frames,       \* concurrent calls of restart on one connection
  MaxRestarts,  \* maxRestarts of connection.ts
  MaxLosses,    \* bound: state changes of peer connections for the worse
  None          \* null

ASSUME BrowserAssumption ==
  /\ None \notin Conns
  /\ Frames # {}
  /\ MaxRestarts \in Nat
  /\ MaxLosses \in Nat

VARIABLES
  direct,   \* the variable of app.ts: the current connection
  page,     \* what the page offers: are restart and disconnect enabled?
  call,     \* call[c]: the await at which app.connect stands
  conn,     \* conn[c]: the DirectConnection of call c and its peer connection
  frame,    \* frame[c][f]: the await at which a call of restart stands
  losses,   \* how often a peer's state got worse, all connections together
  wish      \* history: what the user asked for last

vars == <<direct, page, call, conn, frame, losses, wish>>

(***************************************************************************)
(* peer is "open" while this.peer is set, "closed" once this.closed is.    *)
(* ice abstracts connectionState; timers counts pending observation        *)
(* windows; session: signalID and capability are set.  History: tries      *)
(* counts restarts begun; overlap marks a connection made while another    *)
(* call of app.connect had passed its own direct?.close(); late, one made  *)
(* after the user had disconnected or logged out; missed, that a window    *)
(* ended while a restart was reading its statistics.                       *)
(***************************************************************************)
Conn == [peer: {"none", "open", "closed"},
         ice: {"new", "checking", "connected", "disconnected", "failed", "closed"},
         session: BOOLEAN, restarting: BOOLEAN, count: 0..MaxRestarts,
         timers: 0..MaxLosses, tries: Nat,
         overlap: BOOLEAN, late: BOOLEAN, missed: BOOLEAN]

Stages == {"post", "answer", "open", "auth"}

TypeOK ==
  /\ direct \in Conns \cup {None}
  /\ page \in [restart: BOOLEAN, disconnect: BOOLEAN]
  /\ call \in [Conns -> {"new", "config", "online", "load", "done"} \cup Stages]
  /\ conn \in [Conns -> Conn]
  /\ frame \in [Conns -> [Frames -> {"idle", "post", "answer", "connected", "stats", "retry"}]]
  /\ losses \in 0..MaxLosses
  /\ wish \in {"connect", "disconnect"}

Fresh == [peer |-> "none", ice |-> "new", session |-> FALSE, restarting |-> FALSE,
          count |-> 0, timers |-> 0, tries |-> 0, overlap |-> FALSE, late |-> FALSE,
          missed |-> FALSE]

Init ==
  /\ direct = None
  /\ page = [restart |-> FALSE, disconnect |-> FALSE]
  /\ call = [c \in Conns |-> "new"]
  /\ conn = [c \in Conns |-> Fresh]
  /\ frame = [c \in Conns |-> [f \in Frames |-> "idle"]]
  /\ losses = 0
  /\ wish = "disconnect"
-----------------------------------------------------------------------------
\* DirectConnection.close; a restart in progress is left to notice.
Closed(d) == [d EXCEPT !.peer = "closed", !.ice = "closed", !.session = FALSE, !.count = 0,
                       !.overlap = FALSE, !.late = FALSE]

\* A bug: the connection that is replaced is left open.
WithDirectKept(cs) == cs

\* direct?.close(), on the connections cs.
WithDirectClosed(cs) == IF direct = None THEN cs ELSE [cs EXCEPT ![direct] = Closed(@)]

\* failP2P: close the current connection, whichever failed.
FailP2P(cs) ==
  /\ conn' = WithDirectClosed(cs)
  /\ page' = [restart |-> FALSE, disconnect |-> FALSE]

\* DirectConnection.fail of c.
Fail(c, cs) == FailP2P([cs EXCEPT ![c] = Closed(@)])

\* Are the restarts of a connection used up?
Exhausted(d) == d.count >= MaxRestarts

\* A restart that passes the checks sets the flag and the counter.
Restarted(d) == [d EXCEPT !.restarting = TRUE, !.count = @ + 1, !.tries = @ + 1]

\* The early return of restart.
Restartable(d) == d.peer = "open" /\ ~d.restarting

\* A frame for a call of restart that gets past the early return.
Unused(c) == CHOOSE f \in Frames : frame[c][f] = "idle"

\* restart() on connection c of cs, up to its first await.
Restart(c, cs) ==
  IF ~Restartable(cs[c])
  THEN conn' = cs /\ UNCHANGED <<page, frame>>
  ELSE IF Exhausted(cs[c])
  THEN Fail(c, cs) /\ UNCHANGED frame
  ELSE /\ conn' = [cs EXCEPT ![c] = Restarted(@)]
       /\ frame' = [frame EXCEPT ![c][Unused(c)] = "post"]
       /\ UNCHANGED page
-----------------------------------------------------------------------------
(***************************************************************************)
(* The calls of app.connect.                                               *)
(***************************************************************************)
Goto(c, s) == call' = [call EXCEPT ![c] = s]

\* A service is clicked; connectFromPortal fetches the configuration.
Click(c) ==
  /\ call[c] = "new"
  /\ Goto(c, "config")
  /\ wish' = "connect"
  /\ UNCHANGED <<direct, page, conn, frame, losses>>

\* connect begins: the current connection is closed, the Agent looked up.
Begin(c) ==
  /\ call[c] = "config"
  /\ Goto(c, "online")
  /\ conn' = WithDirectClosed(conn)
  /\ page' = [page EXCEPT !.restart = FALSE, !.disconnect = TRUE]
  /\ UNCHANGED <<direct, frame, losses, wish>>

\* The configuration or the Agent's status cannot be fetched.
Refused(c) ==
  /\ call[c] \in {"config", "online"}
  /\ Goto(c, "done")
  /\ UNCHANGED <<direct, page, conn, frame, losses, wish>>

\* The Agent is offline.
Offline(c) ==
  /\ call[c] = "online"
  /\ Goto(c, "done")
  /\ FailP2P(conn)
  /\ UNCHANGED <<direct, frame, losses, wish>>

\* The other calls that closed the current connection and did not replace it yet.
Overlapping(c) == {o \in Conns \ {c} : call[o] = "online"}

\* The Agent is online: the new DirectConnection becomes the current one.
Online(c) ==
  /\ call[c] = "online"
  /\ Goto(c, "post")
  /\ direct' = c
  /\ conn' = [conn EXCEPT ![c] = [Fresh EXCEPT !.peer = "open",
                                               !.overlap = Overlapping(c) # {},
                                               !.late = wish = "disconnect"]]
  /\ UNCHANGED <<page, frame, losses, wish>>

\* localOffer and the POST are done.  The session in the answer is stored even if the
\* connection was closed in the meantime.
Posted(c) ==
  /\ call[c] = "post"
  /\ Goto(c, "answer")
  /\ conn' = [conn EXCEPT ![c].session = TRUE]
  /\ UNCHANGED page

\* waitForAnswer has the answer, unless the connection was closed.
Answered(c) ==
  /\ call[c] = "answer" /\ conn[c].peer = "open"
  /\ Goto(c, "open")
  /\ conn' = [conn EXCEPT ![c].ice = "checking"]
  /\ UNCHANGED page

\* The three channels are open.
Opened(c) ==
  /\ call[c] = "open" /\ conn[c].peer = "open" /\ conn[c].ice = "connected"
  /\ Goto(c, "auth")
  /\ UNCHANGED <<page, conn>>

\* The channels are authenticated and the candidate pair is allowed.
Authenticated(c) ==
  /\ call[c] = "auth"
  /\ Goto(c, "load")
  /\ UNCHANGED <<page, conn>>

\* The service is loaded over the connection.
Loaded(c) ==
  /\ call[c] = "load"
  /\ Goto(c, "done")
  /\ page' = [page EXCEPT !.restart = TRUE]
  /\ UNCHANGED conn

\* The await at which connect stands is answered.
ConnectStep(c) ==
  /\ Posted(c) \/ Answered(c) \/ Opened(c) \/ Authenticated(c) \/ Loaded(c)
  /\ UNCHANGED <<direct, frame, losses, wish>>

\* The await is rejected, times out, or sees that the connection is closed.
ConnectThrows(c) ==
  /\ call[c] \in Stages \cup {"load"}
  /\ Goto(c, "done")
  /\ FailP2P(conn)
  /\ UNCHANGED <<direct, frame, losses, wish>>

\* The disconnect button.
Disconnect ==
  /\ page.disconnect
  /\ direct' = None
  /\ conn' = WithDirectClosed(conn)
  /\ page' = [restart |-> FALSE, disconnect |-> FALSE]
  /\ wish' = "disconnect"
  /\ UNCHANGED <<call, frame, losses>>

\* The logout button, before the page is left.
Logout ==
  /\ conn' = WithDirectClosed(conn)
  /\ wish' = "disconnect"
  /\ UNCHANGED <<direct, page, call, frame, losses>>

\* The restart button.
RestartButton ==
  /\ page.restart /\ direct # None
  /\ Restart(direct, conn)
  /\ UNCHANGED <<direct, call, losses, wish>>
-----------------------------------------------------------------------------
(***************************************************************************)
(* Events of the peer connection.                                          *)
(***************************************************************************)
PeerConnects(c) ==
  /\ conn[c].peer = "open" /\ conn[c].ice \in {"checking", "disconnected"}
  /\ conn' = [conn EXCEPT ![c].ice = "connected"]
  /\ UNCHANGED <<direct, page, call, frame, losses, wish>>

\* A bug: only the state disconnected is observed.
ObservedDisconnected(s) == s = "disconnected"

\* Does the connectionstatechange handler open an observation window?
Observed(s) == s \in {"disconnected", "failed"}

\* The states that are worse than state s.
Worse(s) == CASE s = "connected" -> {"disconnected", "failed"}
              [] s \in {"checking", "disconnected"} -> {"failed"}
              [] OTHER -> {}

\* The state gets worse, and the handler runs.
PeerLoses(c) ==
  /\ conn[c].peer = "open"
  /\ losses < MaxLosses
  /\ losses' = losses + 1
  /\ \E s \in Worse(conn[c].ice) :
       conn' = [conn EXCEPT ![c].ice = s,
                            ![c].timers = IF Observed(s) THEN @ + 1 ELSE @]
  /\ UNCHANGED <<direct, page, call, frame, wish>>

\* An observation window ends.
TimerFires(c) ==
  LET cs == [conn EXCEPT ![c].timers = @ - 1,
               ![c].missed = @ \/ \E f \in Frames : frame[c][f] = "stats"]
  IN
  /\ conn[c].timers > 0
  /\ \/ /\ conn[c].peer = "open" /\ conn[c].ice # "connected"
        /\ Restart(c, cs)
     \/ /\ ~(conn[c].peer = "open" /\ conn[c].ice # "connected")
        /\ conn' = cs
        /\ UNCHANGED <<page, frame>>
  /\ UNCHANGED <<direct, call, losses, wish>>

\* A relay candidate is gathered.
RelaySeen(c) ==
  /\ conn[c].peer = "open"
  /\ call[c] = "post" \/ \E f \in Frames : frame[c][f] = "post"
  /\ Fail(c, conn)
  /\ UNCHANGED <<direct, call, frame, losses, wish>>
-----------------------------------------------------------------------------
(***************************************************************************)
(* The calls of restart after their first await.                           *)
(***************************************************************************)
FrameTo(c, f, s) == frame' = [frame EXCEPT ![c][f] = s]

\* localOffer and the POST are done; the session is the one there was.
RestartPosted(c, f) ==
  /\ frame[c][f] = "post"
  /\ FrameTo(c, f, "answer")
  /\ UNCHANGED conn

\* waitForAnswer has the answer, and it is applied.
RestartAnswered(c, f) ==
  /\ frame[c][f] = "answer" /\ conn[c].peer = "open"
  /\ FrameTo(c, f, "connected")
  /\ conn' = [conn EXCEPT ![c].ice = IF @ = "failed" THEN "checking" ELSE @]

\* connected() resolves.
Reconnected(c, f) ==
  /\ frame[c][f] = "connected" /\ conn[c].peer = "open" /\ conn[c].ice = "connected"
  /\ FrameTo(c, f, "stats")
  /\ conn' = [conn EXCEPT ![c].session = TRUE]

\* selectedPair finds an allowed pair, and restart returns.
PairConfirmed(c, f) ==
  /\ frame[c][f] = "stats"
  /\ FrameTo(c, f, "idle")
  /\ conn' = [conn EXCEPT ![c].restarting = FALSE]

\* The await at which restart stands is answered.
RestartStep(c, f) ==
  /\ RestartPosted(c, f) \/ RestartAnswered(c, f) \/ Reconnected(c, f) \/ PairConfirmed(c, f)
  /\ UNCHANGED <<direct, page, call, losses, wish>>

\* A bug: the flag is cleared before the pause.
PausedUnguarded(d) == [d EXCEPT !.restarting = FALSE]

\* The connection during the pause between two attempts.
Paused(d) == d

\* The catch block: pause and try again, or give up.
RestartThrows(c, f) ==
  /\ frame[c][f] \in {"post", "answer", "connected", "stats"}
  /\ \/ /\ ~Exhausted(conn[c]) /\ conn[c].peer = "open"
        /\ FrameTo(c, f, "retry")
        /\ conn' = [conn EXCEPT ![c] = Paused(@)]
        /\ UNCHANGED page
     \/ /\ Exhausted(conn[c]) \/ conn[c].peer = "closed"
        /\ FrameTo(c, f, "idle")
        /\ Fail(c, [conn EXCEPT ![c].restarting = FALSE])
  /\ UNCHANGED <<direct, call, losses, wish>>

\* After the pause restart calls itself, and returns when that returns.  The
\* counter did not move during the pause, so it is not used up.
RestartAgain(c, f) ==
  LET d == [conn[c] EXCEPT !.restarting = FALSE] IN
  /\ frame[c][f] = "retry"
  /\ \/ /\ Restartable(d)
        /\ FrameTo(c, f, "post")
        /\ conn' = [conn EXCEPT ![c] = Restarted(d)]
     \/ /\ ~Restartable(d)
        /\ FrameTo(c, f, "idle")
        /\ conn' = [conn EXCEPT ![c] = d]
  /\ UNCHANGED <<direct, page, call, losses, wish>>

Next ==
  \/ \E c \in Conns : Click(c) \/ Begin(c) \/ Refused(c) \/ Offline(c) \/ Online(c)
                        \/ ConnectStep(c) \/ ConnectThrows(c)
  \/ Disconnect \/ Logout \/ RestartButton
  \/ \E c \in Conns : PeerConnects(c) \/ PeerLoses(c) \/ TimerFires(c) \/ RelaySeen(c)
  \/ \E c \in Conns, f \in Frames :
       RestartStep(c, f) \/ RestartThrows(c, f) \/ RestartAgain(c, f)

Spec == Init /\ [][Next]_vars

(***************************************************************************)
(* Fairness: timers fire, and every await of restart is answered, rejected *)
(* or times out.  Users, peers and the awaits of connect owe nothing.      *)
(***************************************************************************)
Fairness ==
  \A c \in Conns :
    /\ WF_vars(TimerFires(c))
    /\ WF_vars(\E f \in Frames :
                 RestartStep(c, f) \/ RestartThrows(c, f) \/ RestartAgain(c, f))

FairSpec == Spec /\ Fairness
-----------------------------------------------------------------------------
(***************************************************************************)
(* Properties.                                                             *)
(***************************************************************************)

\* restart is called by the button, by every observation window and by
\* itself after the pause; the flag lets one call work at a time, and is
\* cleared when that call is over, however it ends (restart, lines 113-158).
\* A connection begins at most maxRestarts of them in its life, also when close
\* resets the counter under a restart in progress.
OneRestart ==
  /\ TypeOK
  /\ \A c \in Conns :
       /\ Cardinality({f \in Frames : frame[c][f] # "idle"}) = IF conn[c].restarting THEN 1 ELSE 0
       /\ conn[c].tries <= MaxRestarts

\* Connections do not pile up: a peer connection that the page can no longer
\* close was made while a second call of app.connect waited for agentOnline
\* (lines 136-150: the old connection is closed before that await and
\* replaced after it).
OnlyOverlapLeaks ==
  \A c \in Conns : conn[c].peer = "open" /\ c # direct => conn[c].overlap

\* A lost connection recovers or is closed: no window that is ignored, no
\* failed attempt and no late event leaves it lost for good, unless a window
\* ended while a restart had its statistics to read only (observe, restart).
LossResolved ==
  \A c \in Conns :
    conn[c].peer = "open" /\ conn[c].ice \in {"disconnected", "failed"}
      ~> conn[c].peer # "open" \/ conn[c].ice = "connected" \/ conn[c].missed

\* NETWORK_FLOWS.md, line 29: when the connection is closed or the user logs out, the
\* channels are destroyed.  That holds of every connection there is when the button is
\* pressed; one survives only if connect was waiting for the configuration or for the
\* Agent's status, after which it goes on (line 146), or if two calls overlapped.
DisconnectMissesOnlyPending ==
  wish = "disconnect" =>
    \A c \in Conns : conn[c].peer = "open" => conn[c].late \/ conn[c].overlap
=============================================================================

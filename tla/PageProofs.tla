----------------------------- MODULE PageProofs -----------------------------
(***************************************************************************)
(* Proofs about what runs in the user's browser: the connections of the    *)
(* portal page (Browser), the way of a request of the proxied page to the  *)
(* data channel (Transport), and the remote desktop page (Viewer).         *)
(***************************************************************************)
EXTENDS Browser, Transport, Viewer, FiniteSetTheorems, TLAPS

(***************************************************************************)
(* Browser, for any number of connections, of restarts and of losses.      *)
(*                                                                         *)
(* A connection and the calls of restart on it: without the flag no call   *)
(* is in progress, with it exactly one.  While the connection is open the  *)
(* counter is the number of restarts; a call that pauses has not used the  *)
(* counter up, so that it needs no check when it goes on.                  *)
(***************************************************************************)
RestartOK(d, row) ==
  /\ ~d.restarting => \A f \in Frames : row[f] = "idle"
  /\ d.restarting =>
       \E f \in Frames : row[f] # "idle" /\ \A g \in Frames : g # f => row[g] = "idle"
  /\ d.tries <= MaxRestarts
  /\ d.peer = "open" => d.tries = d.count
  /\ d.peer = "open" => \A f \in Frames : row[f] = "retry" => d.count < MaxRestarts

\* app.connect has not yet made its connection.
Before == {"new", "config", "online"}

DirectOpen == direct # None /\ conn[direct].peer = "open"

(***************************************************************************)
(* A call that waits for agentOnline has closed the current connection; a  *)
(* current connection that is open all the same was made while it waited.  *)
(***************************************************************************)
LeakInv ==
  /\ \A c \in Conns : call[c] \in Before => conn[c] = Fresh
  /\ direct # None => call[direct] \notin Before
  /\ DirectOpen /\ (\E c \in Conns : call[c] = "online") => conn[direct].overlap
  /\ OnlyOverlapLeaks /\ DisconnectMissesOnlyPending

BrowserInv ==
  /\ TypeOK /\ LeakInv
  /\ \A c \in Conns : conn[c].timers <= losses /\ RestartOK(conn[c], frame[c])
-----------------------------------------------------------------------------
\* What any step but the making of a connection does to a connection, as far as leaks go.
Fades(s, r) ==
  r.peer = "open" => s.peer = "open" /\ r.overlap = s.overlap /\ r.late = s.late

\* What a step that is none of restart does to it: restarts are neither begun nor ended.
Ages(s, r) ==
  /\ r \in Conn /\ Fades(s, r)
  /\ r.restarting = s.restarting /\ r.tries = s.tries /\ r.timers <= s.timers
  /\ r.peer = "open" => r.count = s.count

\* A connection may stay as it is, and two such changes are one.
LEMMA AgesOrder ==
  /\ \A s \in Conn : Ages(s, s)
  /\ \A s, r, q \in Conn : Ages(s, r) /\ Ages(r, q) => Ages(s, q)
<1>1. \A s \in Conn : s.timers \in Int
  BY DEF Conn
<1>. QED
  BY <1>1 DEF Ages, Fades

\* Closing a connection is such a change.
LEMMA ClosedAges == ASSUME NEW d \in Conn PROVE Ages(d, Closed(d)) /\ Closed(d).peer = "closed"
<1>1. 0 \in 0..MaxRestarts
  BY BrowserAssumption
<1>2. Closed(d) \in Conn
  BY <1>1, Zenon DEF Closed, Conn
<1>3. /\ Closed(d).peer = "closed" /\ Closed(d).restarting = d.restarting
      /\ Closed(d).tries = d.tries /\ Closed(d).timers = d.timers
  BY DEF Closed, Conn
<1>4. d.timers \in Int
  BY DEF Conn
<1>. QED
  BY <1>2, <1>3, <1>4 DEF Ages, Fades

\* Such changes keep what holds of the calls of restart.
LEMMA AgesRestart ==
  ASSUME NEW s \in Conn, NEW r, NEW row, Ages(s, r), RestartOK(s, row)
  PROVE  RestartOK(r, row)
BY DEF Ages, Fades, RestartOK

\* Leaks: the current connection stays, or is closed and given up; whoever begins to wait for
\* agentOnline, and whoever wishes to disconnect, has closed it.
LEMMA LeakKeeps ==
  ASSUME TypeOK, LeakInv, conn' \in [Conns -> Conn],
         \A c \in Conns : Fades(conn[c], conn'[c]),
         \A c \in Conns : call'[c] \in Before => call[c] \in Before /\ conn'[c] = conn[c],
         direct' \in {direct, None},
         \/ DirectOpen'
         \/ \A c \in Conns : conn'[c].peer = "open" => c # direct,
         DirectOpen' => \A c \in Conns : call'[c] = "online" => call[c] = "online",
         DirectOpen' /\ wish' = "disconnect" => wish = "disconnect"
  PROVE  LeakInv'
<1>1. \A c \in Conns : call'[c] \in Before => conn'[c] = Fresh
  BY DEF LeakInv
<1>2. direct' # None => call'[direct'] \notin Before
  BY DEF LeakInv, TypeOK
<1>3. DirectOpen' => DirectOpen /\ direct' = direct /\ conn'[direct].overlap = conn[direct].overlap
  BY DEF DirectOpen, Fades, TypeOK
<1>4. DirectOpen' /\ (\E c \in Conns : call'[c] = "online") => conn'[direct'].overlap
  BY <1>3 DEF LeakInv
<1>5. OnlyOverlapLeaks'
  BY DEF LeakInv, OnlyOverlapLeaks, Fades, DirectOpen
<1>6. DisconnectMissesOnlyPending'
  BY <1>3 DEF LeakInv, OnlyOverlapLeaks, DisconnectMissesOnlyPending, Fades, DirectOpen
<1>. QED
  BY <1>1, <1>2, <1>4, <1>5, <1>6 DEF LeakInv

\* So is a change of the peer's state, and the storing of the session.
LEMMA FieldsAge ==
  ASSUME NEW d \in Conn
  PROVE  /\ LET r == [d EXCEPT !.session = TRUE]
            IN  r \in Conn /\ Ages(d, r) /\ r.peer = d.peer
         /\ \A s \in {"checking", "connected", "disconnected", "failed"} :
              LET r == [d EXCEPT !.ice = s]
              IN  r \in Conn /\ Ages(d, r) /\ r.peer = d.peer
<1>1. d.timers \in Int
  BY DEF Conn
<1>2. Ages(d, d)
  BY AgesOrder
<1>3. [d EXCEPT !.session = TRUE] \in Conn
  BY Zenon DEF Conn
<1>4. ASSUME NEW s \in {"checking", "connected", "disconnected", "failed"}
      PROVE  [d EXCEPT !.ice = s] \in Conn
  BY <1>4, Zenon DEF Conn
<1>5. ASSUME NEW r \in Conn, r = [d EXCEPT !.session = TRUE] PROVE Ages(d, r) /\ r.peer = d.peer
  BY <1>1, <1>5 DEF Ages, Fades, Conn
<1>6. ASSUME NEW s \in {"checking", "connected", "disconnected", "failed"},
             NEW r \in Conn, r = [d EXCEPT !.ice = s]
      PROVE  Ages(d, r) /\ r.peer = d.peer
  BY <1>1, <1>6 DEF Ages, Fades, Conn
<1>. QED
  BY <1>3, <1>4, <1>5, <1>6

\* A step that is none of restart.
LEMMA QuietKeeps ==
  ASSUME BrowserInv, conn' \in [Conns -> Conn], \A c \in Conns : Ages(conn[c], conn'[c]),
         UNCHANGED <<frame, losses>>, page' \in [restart: BOOLEAN, disconnect: BOOLEAN],
         call' \in [Conns -> {"new", "config", "online", "load", "done"} \cup Stages],
         wish' \in {"connect", "disconnect"},
         \A c \in Conns : call'[c] \in Before => call[c] \in Before /\ conn'[c] = conn[c],
         direct' \in {direct, None},
         \/ DirectOpen'
         \/ \A c \in Conns : conn'[c].peer = "open" => c # direct,
         DirectOpen' => \A c \in Conns : call'[c] = "online" => call[c] = "online",
         DirectOpen' /\ wish' = "disconnect" => wish = "disconnect"
  PROVE  BrowserInv'
<1>1. TypeOK'
  BY DEF BrowserInv, TypeOK
<1>2. LeakInv'
  BY LeakKeeps DEF BrowserInv, Ages
<1>3. ASSUME NEW c \in Conns
      PROVE  conn'[c].timers <= losses' /\ RestartOK(conn'[c], frame'[c])
  <2>1. conn[c] \in Conn /\ RestartOK(conn[c], frame[c]) /\ conn[c].timers <= losses
    BY DEF BrowserInv, TypeOK
  <2>2. RestartOK(conn'[c], frame[c])
    BY <2>1, AgesRestart
  <2>3. conn'[c].timers \in Int /\ conn[c].timers \in Int /\ losses \in Int
    BY <2>1 DEF Conn, BrowserInv, TypeOK
  <2>. QED
    BY <2>1, <2>2, <2>3 DEF Ages
<1>. QED
  BY <1>1, <1>2, <1>3 DEF BrowserInv

\* direct?.close() ages the connections, and leaves the current one closed.
LEMMA DirectClosed ==
  ASSUME TypeOK, NEW cs \in [Conns -> Conn]
  PROVE  /\ WithDirectClosed(cs) \in [Conns -> Conn]
         /\ \A c \in Conns : Ages(cs[c], WithDirectClosed(cs)[c])
         /\ \A c \in Conns : c # direct => WithDirectClosed(cs)[c] = cs[c]
         /\ \A c \in Conns : WithDirectClosed(cs)[c].peer = "open" => c # direct
<1>1. direct \in Conns \cup {None} /\ None \notin Conns
  BY BrowserAssumption DEF TypeOK
<1>2. CASE direct = None
  BY <1>1, <1>2, AgesOrder DEF WithDirectClosed
<1>3. CASE direct \in Conns
  <2>1. WithDirectClosed(cs) = [cs EXCEPT ![direct] = Closed(cs[direct])]
    BY <1>1, <1>3 DEF WithDirectClosed
  <2>2. Ages(cs[direct], Closed(cs[direct])) /\ Closed(cs[direct]).peer = "closed"
    BY <1>3, ClosedAges
  <2>. QED
    BY <1>3, <2>1, <2>2, AgesOrder DEF Ages
<1>. QED
  BY <1>1, <1>2, <1>3

\* The steps of app.connect, but for the making of the connection, and the buttons.
LEMMA ConnectKeeps ==
  ASSUME BrowserInv,
         \/ \E c \in Conns : Click(c) \/ Begin(c) \/ Refused(c) \/ Offline(c)
                               \/ ConnectStep(c) \/ ConnectThrows(c)
         \/ Disconnect \/ Logout
  PROVE  BrowserInv'
<1>1. /\ TypeOK /\ conn \in [Conns -> Conn] /\ page \in [restart: BOOLEAN, disconnect: BOOLEAN]
      /\ call \in [Conns -> {"new", "config", "online", "load", "done"} \cup Stages]
      /\ wish \in {"connect", "disconnect"} /\ direct \in Conns \cup {None} /\ None \notin Conns
  BY BrowserAssumption DEF BrowserInv, TypeOK
<1>2. \A c \in Conns : Ages(conn[c], conn[c])
  BY <1>1, AgesOrder
<1>3. /\ WithDirectClosed(conn) \in [Conns -> Conn]
      /\ \A c \in Conns : Ages(conn[c], WithDirectClosed(conn)[c])
      /\ \A c \in Conns : c # direct => WithDirectClosed(conn)[c] = conn[c]
      /\ \A c \in Conns : WithDirectClosed(conn)[c].peer = "open" => c # direct
  BY <1>1, DirectClosed
<1>4. \A c \in Conns : call[c] \in Before => c # direct
  BY <1>1 DEF BrowserInv, LeakInv
<1>5. \/ DirectOpen
      \/ \A c \in Conns : conn[c].peer = "open" => c # direct
  BY <1>1 DEF DirectOpen
<1>6. ASSUME NEW c \in Conns, Click(c) \/ Refused(c) PROVE BrowserInv'
  <2>1. /\ conn' = conn /\ direct' = direct /\ page' = page /\ UNCHANGED <<frame, losses>>
        /\ wish' \in {"connect", wish}
    BY <1>6 DEF Click, Refused
  <2>2. \E s \in {"config", "done"} :
          call' = [call EXCEPT ![c] = s] /\ (s = "config" => call[c] = "new")
    BY <1>6 DEF Click, Refused, Goto
  <2>3. /\ call' \in [Conns -> {"new", "config", "online", "load", "done"} \cup Stages]
        /\ \A o \in Conns : call'[o] \in Before => call[o] \in Before
        /\ \A o \in Conns : call'[o] = "online" => call[o] = "online"
    BY <1>1, <2>2 DEF Before
  <2>4. DirectOpen' <=> DirectOpen
    BY <2>1 DEF DirectOpen
  <2>. QED
    BY <1>1, <1>2, <1>5, <2>1, <2>3, <2>4, QuietKeeps
<1>7. ASSUME conn' = WithDirectClosed(conn), direct' \in {direct, None},
             page' \in [restart: BOOLEAN, disconnect: BOOLEAN], UNCHANGED <<frame, losses>>,
             wish' \in {"connect", "disconnect"},
             call' \in [Conns -> {"new", "config", "online", "load", "done"} \cup Stages],
             \A o \in Conns : call'[o] \in Before => call[o] \in Before
      PROVE  BrowserInv'
  <2>1. ~DirectOpen'
    BY <1>1, <1>3, <1>7 DEF DirectOpen
  <2>2. \A o \in Conns : call'[o] \in Before => call[o] \in Before /\ conn'[o] = conn[o]
    BY <1>3, <1>4, <1>7
  <2>3. conn' \in [Conns -> Conn] /\ \A c \in Conns : Ages(conn[c], conn'[c])
    BY <1>3, <1>7
  <2>4. \A c \in Conns : conn'[c].peer = "open" => c # direct
    BY <1>3, <1>7
  <2>. QED
    BY <1>7, <2>1, <2>2, <2>3, <2>4, QuietKeeps
<1>8. ASSUME NEW c \in Conns, Begin(c) PROVE BrowserInv'
  <2>1. /\ call' \in [Conns -> {"new", "config", "online", "load", "done"} \cup Stages]
        /\ \A o \in Conns : call'[o] \in Before => call[o] \in Before
    BY <1>1, <1>8 DEF Begin, Goto, Before
  <2>2. page' \in [restart: BOOLEAN, disconnect: BOOLEAN]
    BY Zenon, <1>1, <1>8 DEF Begin
  <2>. QED
    BY <1>1, <1>7, <1>8, <2>1, <2>2 DEF Begin
<1>9. ASSUME NEW c \in Conns, Offline(c) \/ ConnectThrows(c) PROVE BrowserInv'
  <2>1. call' = [call EXCEPT ![c] = "done"] /\ FailP2P(conn) /\ UNCHANGED <<direct, frame, losses, wish>>
    BY <1>9 DEF Offline, ConnectThrows, Goto
  <2>2. /\ call' \in [Conns -> {"new", "config", "online", "load", "done"} \cup Stages]
        /\ \A o \in Conns : call'[o] \in Before => call[o] \in Before
    BY <1>1, <2>1 DEF Before
  <2>. QED
    BY <1>1, <1>7, <2>1, <2>2 DEF FailP2P
<1>10. CASE Disconnect \/ Logout
  <2>1. CASE Disconnect
    <3>1. page' \in [restart: BOOLEAN, disconnect: BOOLEAN]
      BY <2>1 DEF Disconnect
    <3>2. call' = call /\ wish' = "disconnect" /\ direct' = None
      BY <2>1 DEF Disconnect
    <3>. QED
      BY <1>1, <1>7, <2>1, <3>1, <3>2 DEF Disconnect
  <2>2. CASE Logout
    <3>1. call' = call /\ wish' = "disconnect" /\ direct' = direct /\ page' = page
      BY <2>2 DEF Logout
    <3>. QED
      BY <1>1, <1>7, <2>2, <3>1 DEF Logout
  <2>. QED
    BY <1>10, <2>1, <2>2
<1>11. ASSUME NEW c \in Conns, ConnectStep(c) PROVE BrowserInv'
  <2>1. PICK s \in Stages \cup {"load", "done"}, r \in Conn :
          /\ call' = [call EXCEPT ![c] = s] /\ call[c] \notin Before
          /\ conn' = [conn EXCEPT ![c] = r] /\ Ages(conn[c], r) /\ r.peer = conn[c].peer
          /\ page' \in [restart: BOOLEAN, disconnect: BOOLEAN]
          /\ UNCHANGED <<direct, frame, losses, wish>>
    <3>1. UNCHANGED <<direct, frame, losses, wish>> /\ conn[c] \in Conn
      BY <1>1, <1>11 DEF ConnectStep
    <3>2. conn = [conn EXCEPT ![c] = conn[c]] /\ Ages(conn[c], conn[c])
      BY <1>1, <1>2
    <3>3. CASE Posted(c)
      <4>. DEFINE r == [conn[c] EXCEPT !.session = TRUE]
      <4>1. r \in Conn /\ Ages(conn[c], r) /\ r.peer = conn[c].peer
        BY Zenon, <3>1, FieldsAge
      <4>2. conn' = [conn EXCEPT ![c] = r] /\ page' = page
        BY <3>3 DEF Posted
      <4>3. call' = [call EXCEPT ![c] = "answer"] /\ call[c] \notin Before
        BY <3>3 DEF Posted, Goto, Before
      <4>. HIDE DEF r
      <4>. QED
        BY Zenon, <1>1, <3>1, <4>1, <4>2, <4>3 DEF Stages
    <3>4. CASE Answered(c)
      <4>. DEFINE r == [conn[c] EXCEPT !.ice = "checking"]
      <4>1. r \in Conn /\ Ages(conn[c], r) /\ r.peer = conn[c].peer
        BY Zenon, <3>1, FieldsAge
      <4>2. conn' = [conn EXCEPT ![c] = r] /\ page' = page
        BY <3>4 DEF Answered
      <4>3. call' = [call EXCEPT ![c] = "open"] /\ call[c] \notin Before
        BY <3>4 DEF Answered, Goto, Before
      <4>. HIDE DEF r
      <4>. QED
        BY Zenon, <1>1, <3>1, <4>1, <4>2, <4>3 DEF Stages
    <3>5. CASE Opened(c) \/ Authenticated(c) \/ Loaded(c)
      <4>1. page' \in [restart: BOOLEAN, disconnect: BOOLEAN]
        BY Zenon, <1>1, <3>5 DEF Opened, Authenticated, Loaded
      <4>2. \E s \in {"auth", "load", "done"} : call' = [call EXCEPT ![c] = s]
        BY <3>5 DEF Opened, Authenticated, Loaded, Goto
      <4>3. call[c] \notin Before /\ conn' = conn
        BY <3>5 DEF Opened, Authenticated, Loaded, Before
      <4>. QED
        BY Zenon, <3>1, <3>2, <4>1, <4>2, <4>3 DEF Stages
    <3>. QED
      BY <1>11, <3>3, <3>4, <3>5 DEF ConnectStep
  <2>2. /\ call' \in [Conns -> {"new", "config", "online", "load", "done"} \cup Stages]
        /\ \A o \in Conns : call'[o] \in Before => call[o] \in Before /\ conn'[o] = conn[o]
        /\ \A o \in Conns : call'[o] = "online" => call[o] = "online"
    BY <1>1, <2>1 DEF Before, Stages
  <2>3. /\ conn' \in [Conns -> Conn] /\ \A o \in Conns : Ages(conn[o], conn'[o])
        /\ \A o \in Conns : conn'[o].peer = conn[o].peer
    BY <1>1, <1>2, <2>1
  <2>4. DirectOpen' <=> DirectOpen
    BY <1>1, <2>1, <2>3 DEF DirectOpen
  <2>. QED
    BY Zenon, <1>1, <1>5, <2>1, <2>2, <2>3, <2>4, QuietKeeps
<1>. QED
  BY <1>6, <1>8, <1>9, <1>10, <1>11

FrameRow == [Frames -> {"idle", "post", "answer", "connected", "stats", "retry"}]

\* Whatever happens to a connection, or to a restart of it, app.connect has made it.
LEMMA Made ==
  ASSUME BrowserInv, NEW c \in Conns,
         \/ conn[c].peer = "open" \/ conn[c].timers > 0
         \/ \E f \in Frames : frame[c][f] # "idle"
  PROVE  call[c] \notin Before
<1>1. Fresh.peer = "none" /\ Fresh.timers = 0 /\ ~Fresh.restarting
  BY DEF Fresh
<1>2. call[c] \in Before => conn[c] = Fresh
  BY DEF BrowserInv, LeakInv
<1>3. ~conn[c].restarting => \A f \in Frames : frame[c][f] = "idle"
  BY DEF BrowserInv, RestartOK
<1>. QED
  BY <1>1, <1>2, <1>3

\* A step of the connections or of restart, while app.connect stands still.
LEMMA FrameKeeps ==
  ASSUME BrowserInv, conn' \in [Conns -> Conn], frame' \in [Conns -> FrameRow],
         page' \in [restart: BOOLEAN, disconnect: BOOLEAN], losses' \in 0..MaxLosses,
         UNCHANGED <<direct, call, wish>>,
         \A c \in Conns : /\ Fades(conn[c], conn'[c])
                          /\ conn'[c].timers <= losses' /\ RestartOK(conn'[c], frame'[c])
                          /\ call[c] \in Before => conn'[c] = conn[c],
         \/ DirectOpen'
         \/ \A c \in Conns : conn'[c].peer = "open" => c # direct
  PROVE  BrowserInv'
<1>1. TypeOK'
  BY DEF BrowserInv, TypeOK, FrameRow
<1>2. LeakInv'
  BY LeakKeeps DEF BrowserInv
<1>. QED
  BY <1>1, <1>2 DEF BrowserInv

\* The same, for a step of one connection that stays as open as it is.
LEMMA PointKeeps ==
  ASSUME BrowserInv, NEW c \in Conns, NEW r \in Conn, NEW row \in FrameRow,
         call[c] \notin Before, conn' = [conn EXCEPT ![c] = r], frame' = [frame EXCEPT ![c] = row],
         Fades(conn[c], r), r.peer = conn[c].peer, RestartOK(r, row),
         losses' \in 0..MaxLosses, losses <= losses', r.timers <= losses',
         UNCHANGED <<direct, page, call, wish>>
  PROVE  BrowserInv'
<1>1. TypeOK /\ conn \in [Conns -> Conn] /\ frame \in [Conns -> FrameRow] /\ losses \in Nat
  BY BrowserAssumption DEF BrowserInv, TypeOK, FrameRow
<1>2. conn' \in [Conns -> Conn] /\ frame' \in [Conns -> FrameRow]
  BY <1>1
<1>3. conn'[c] = r /\ frame'[c] = row
      /\ \A o \in Conns : o # c => conn'[o] = conn[o] /\ frame'[o] = frame[o]
  BY <1>1
<1>4. \A o \in Conns : conn'[o].peer = conn[o].peer
  BY <1>3
<1>5. \/ DirectOpen'
      \/ \A o \in Conns : conn'[o].peer = "open" => o # direct
  BY <1>1, <1>4, BrowserAssumption DEF DirectOpen, TypeOK
<1>6. ASSUME NEW o \in Conns
      PROVE  /\ Fades(conn[o], conn'[o])
             /\ conn'[o].timers <= losses' /\ RestartOK(conn'[o], frame'[o])
             /\ call[o] \in Before => conn'[o] = conn[o]
  <2>1. CASE o = c
    BY <1>3, <2>1
  <2>2. CASE o # c
    <3>1. conn[o].timers <= losses /\ RestartOK(conn[o], frame[o])
      BY DEF BrowserInv
    <3>2. conn[o].timers \in Int /\ losses \in Int /\ losses' \in Int
      BY <1>1 DEF Conn
    <3>. QED
      BY <1>3, <2>2, <3>1, <3>2 DEF Fades
  <2>. QED
    BY <2>1, <2>2
<1>7. page' \in [restart: BOOLEAN, disconnect: BOOLEAN]
  BY DEF BrowserInv, TypeOK
<1>. QED
  BY <1>2, <1>5, <1>6, <1>7, FrameKeeps

\* Where a call of restart is in progress it is the only one, and the flag is set.
LEMMA OneRow ==
  ASSUME NEW d \in Conn, NEW row \in FrameRow, NEW f \in Frames, RestartOK(d, row), row[f] # "idle"
  PROVE  d.restarting /\ \A g \in Frames : g # f => row[g] = "idle"
BY DEF RestartOK

\* The steps of restart between its awaits.
LEMMA RestartStepKeeps ==
  ASSUME BrowserInv, NEW c \in Conns, NEW f \in Frames, RestartStep(c, f)
  PROVE  BrowserInv'
<1>1. /\ conn[c] \in Conn /\ frame[c] \in FrameRow /\ losses \in 0..MaxLosses
      /\ RestartOK(conn[c], frame[c]) /\ conn[c].timers <= losses
      /\ conn \in [Conns -> Conn] /\ frame \in [Conns -> FrameRow]
  BY DEF BrowserInv, TypeOK, FrameRow
<1>2. UNCHANGED <<direct, page, call, losses, wish>> /\ losses \in Int /\ conn[c].timers \in Int
  BY <1>1 DEF RestartStep, Conn
<1>3. frame[c][f] # "idle"
  BY DEF RestartStep, RestartPosted, RestartAnswered, Reconnected, PairConfirmed
<1>4. /\ call[c] \notin Before /\ conn[c].restarting
      /\ \A g \in Frames : g # f => frame[c][g] = "idle"
  BY Zenon, <1>1, <1>3, Made, OneRow
<1>5. \E s \in {"answer", "connected", "stats", "idle"}, r \in Conn :
        /\ frame' = [frame EXCEPT ![c] = [frame[c] EXCEPT ![f] = s]]
        /\ conn' = [conn EXCEPT ![c] = r]
        /\ \/ s # "idle" /\ Ages(conn[c], r) /\ r.peer = conn[c].peer
           \/ s = "idle" /\ r = [conn[c] EXCEPT !.restarting = FALSE]
  <2>1. CASE RestartPosted(c, f)
    <3>1. conn' = [conn EXCEPT ![c] = conn[c]] /\ Ages(conn[c], conn[c])
      BY <1>1, <2>1, AgesOrder DEF RestartPosted
    <3>2. frame' = [frame EXCEPT ![c] = [frame[c] EXCEPT ![f] = "answer"]]
      BY <2>1 DEF RestartPosted, FrameTo
    <3>. QED
      BY Zenon, <1>1, <3>1, <3>2
  <2>2. CASE RestartAnswered(c, f)
    <3>1. PICK r \in Conn : conn' = [conn EXCEPT ![c] = r] /\ Ages(conn[c], r) /\ r.peer = conn[c].peer
      <4>1. CASE conn[c].ice = "failed"
        <5>. DEFINE r == [conn[c] EXCEPT !.ice = "checking"]
        <5>1. r \in Conn /\ Ages(conn[c], r) /\ r.peer = conn[c].peer
          BY Zenon, <1>1, FieldsAge
        <5>2. conn' = [conn EXCEPT ![c] = r]
          BY <2>2, <4>1 DEF RestartAnswered
        <5>. QED
          BY Zenon, <5>1, <5>2
      <4>2. CASE conn[c].ice # "failed"
        <5>1. [conn[c] EXCEPT !.ice = @] = conn[c]
          BY <1>1 DEF Conn
        <5>2. conn' = [conn EXCEPT ![c] = conn[c]] /\ Ages(conn[c], conn[c])
          BY Zenon, <1>1, <2>2, <4>2, <5>1, AgesOrder DEF RestartAnswered
        <5>. QED
          BY Zenon, <1>1, <5>2
      <4>. QED
        BY <4>1, <4>2
    <3>2. frame' = [frame EXCEPT ![c] = [frame[c] EXCEPT ![f] = "connected"]]
      BY <2>2 DEF RestartAnswered, FrameTo
    <3>. QED
      BY Zenon, <3>1, <3>2
  <2>3. CASE Reconnected(c, f)
    <3>. DEFINE r == [conn[c] EXCEPT !.session = TRUE]
    <3>1. r \in Conn /\ Ages(conn[c], r) /\ r.peer = conn[c].peer
      BY Zenon, <1>1, FieldsAge
    <3>2. /\ conn' = [conn EXCEPT ![c] = r]
          /\ frame' = [frame EXCEPT ![c] = [frame[c] EXCEPT ![f] = "stats"]]
      BY <2>3 DEF Reconnected, FrameTo
    <3>. HIDE DEF r
    <3>. QED
      BY Zenon, <3>1, <3>2
  <2>4. CASE PairConfirmed(c, f)
    <3>. DEFINE r == [conn[c] EXCEPT !.restarting = FALSE]
    <3>1. r \in Conn
      BY <1>1, Zenon DEF Conn
    <3>2. /\ conn' = [conn EXCEPT ![c] = r]
          /\ frame' = [frame EXCEPT ![c] = [frame[c] EXCEPT ![f] = "idle"]]
      BY <2>4 DEF PairConfirmed, FrameTo
    <3>. QED
      BY Zenon, <3>1, <3>2
  <2>. QED
    BY <2>1, <2>2, <2>3, <2>4 DEF RestartStep
<1>6. PICK s \in {"answer", "connected", "stats", "idle"}, r \in Conn :
        /\ frame' = [frame EXCEPT ![c] = [frame[c] EXCEPT ![f] = s]]
        /\ conn' = [conn EXCEPT ![c] = r]
        /\ \/ s # "idle" /\ Ages(conn[c], r) /\ r.peer = conn[c].peer
           \/ s = "idle" /\ r = [conn[c] EXCEPT !.restarting = FALSE]
  BY Zenon, <1>5
<1>. DEFINE row == [frame[c] EXCEPT ![f] = s]
<1>7. row \in FrameRow /\ row[f] = s /\ \A g \in Frames : g # f => row[g] = "idle"
  BY Zenon, <1>1, <1>4 DEF FrameRow
<1>8. /\ Fades(conn[c], r) /\ r.peer = conn[c].peer /\ r.timers <= conn[c].timers
      /\ r.tries = conn[c].tries
      /\ r.peer = "open" => r.count = conn[c].count
      /\ r.restarting <=> s # "idle"
  <2>1. CASE s # "idle"
    BY Zenon, <1>4, <1>6, <2>1 DEF Ages
  <2>2. CASE s = "idle"
    <3>1. r = [conn[c] EXCEPT !.restarting = FALSE]
      BY <1>6, <2>2
    <3>2. /\ r.peer = conn[c].peer /\ r.overlap = conn[c].overlap /\ r.late = conn[c].late
          /\ r.timers = conn[c].timers /\ r.tries = conn[c].tries /\ r.count = conn[c].count
          /\ r.restarting = FALSE
      BY <1>1, <3>1 DEF Conn
    <3>. QED
      BY <1>2, <2>2, <3>2 DEF Fades
  <2>. QED
    BY <2>1, <2>2
<1>9. RestartOK(r, row)
  <2>. HIDE DEF row
  <2>. QED
    BY <1>1, <1>6, <1>7, <1>8 DEF RestartOK
<1>10. r.timers <= losses' /\ losses <= losses' /\ losses' \in 0..MaxLosses
  <2>1. r.timers \in Int
    BY DEF Conn
  <2>. QED
    BY <1>1, <1>2, <1>8, <2>1
<1>11. frame' = [frame EXCEPT ![c] = row]
  BY <1>6
<1>. HIDE DEF row
<1>. QED
  BY Zenon, <1>2, <1>4, <1>6, <1>7, <1>8, <1>9, <1>10, <1>11, PointKeeps

\* A restart that begins.
LEMMA RestartedFields ==
  ASSUME NEW d \in Conn, d.count < MaxRestarts
  PROVE  /\ Restarted(d) \in Conn /\ Fades(d, Restarted(d)) /\ Restarted(d).restarting
         /\ Restarted(d).peer = d.peer /\ Restarted(d).timers = d.timers
         /\ Restarted(d).count = d.count + 1 /\ Restarted(d).tries = d.tries + 1
<1>1. d.count \in 0..MaxRestarts /\ d.tries \in Nat
  BY DEF Conn
<1>2. PICK n \in 0..MaxRestarts : n = d.count + 1
  BY <1>1, BrowserAssumption
<1>3. PICK m \in Nat : m = d.tries + 1
  BY <1>1
<1>4. Restarted(d) = [d EXCEPT !.restarting = TRUE, !.count = n, !.tries = m]
  BY <1>2, <1>3 DEF Restarted
<1>5. Restarted(d) \in Conn
  BY <1>4, Zenon DEF Conn
<1>6. /\ Restarted(d).peer = d.peer /\ Restarted(d).timers = d.timers
      /\ Restarted(d).overlap = d.overlap /\ Restarted(d).late = d.late
      /\ Restarted(d).restarting = TRUE /\ Restarted(d).count = n /\ Restarted(d).tries = m
  BY <1>4, Zenon DEF Conn
<1>. QED
  BY <1>2, <1>3, <1>5, <1>6 DEF Fades

\* The flag is cleared.
LEMMA UnflaggedFields ==
  ASSUME NEW d \in Conn, NEW r, r = [d EXCEPT !.restarting = FALSE]
  PROVE  /\ r \in Conn /\ Fades(d, r) /\ r.restarting = FALSE
         /\ r.peer = d.peer /\ r.timers = d.timers /\ r.count = d.count /\ r.tries = d.tries
<1>1. r \in Conn
  BY Zenon DEF Conn
<1>2. /\ r.peer = d.peer /\ r.timers = d.timers /\ r.count = d.count /\ r.tries = d.tries
      /\ r.overlap = d.overlap /\ r.late = d.late /\ r.restarting = FALSE
  BY Zenon DEF Conn
<1>. QED
  BY <1>1, <1>2 DEF Fades

\* restart calls itself after the pause.
LEMMA RestartAgainKeeps ==
  ASSUME BrowserInv, NEW c \in Conns, NEW f \in Frames, RestartAgain(c, f)
  PROVE  BrowserInv'
<1>1. /\ conn[c] \in Conn /\ frame[c] \in FrameRow /\ losses \in 0..MaxLosses
      /\ RestartOK(conn[c], frame[c]) /\ conn[c].timers <= losses
  BY DEF BrowserInv, TypeOK, FrameRow
<1>2. UNCHANGED <<direct, page, call, losses, wish>> /\ frame[c][f] = "retry"
  BY DEF RestartAgain
<1>3. call[c] \notin Before /\ \A g \in Frames : g # f => frame[c][g] = "idle"
  BY <1>1, <1>2, Made, OneRow
<1>. DEFINE d == [conn[c] EXCEPT !.restarting = FALSE]
<1>4. /\ d \in Conn /\ Fades(conn[c], d) /\ d.restarting = FALSE
      /\ d.peer = conn[c].peer /\ d.timers = conn[c].timers
      /\ d.count = conn[c].count /\ d.tries = conn[c].tries
  BY Zenon, <1>1, UnflaggedFields
<1>5. \/ /\ Restartable(d) /\ conn' = [conn EXCEPT ![c] = Restarted(d)]
         /\ frame' = [frame EXCEPT ![c] = [frame[c] EXCEPT ![f] = "post"]]
      \/ /\ conn' = [conn EXCEPT ![c] = d]
         /\ frame' = [frame EXCEPT ![c] = [frame[c] EXCEPT ![f] = "idle"]]
  BY DEF RestartAgain, FrameTo
<1>. HIDE DEF d
<1>6. losses <= losses' /\ losses' \in 0..MaxLosses /\ d.timers <= losses'
  BY <1>1, <1>2, <1>4
<1>7. ASSUME NEW s \in {"post", "idle"}
      PROVE  LET row == [frame[c] EXCEPT ![f] = s]
             IN  row \in FrameRow /\ row[f] = s /\ \A g \in Frames : g # f => row[g] = "idle"
  BY <1>1, <1>3 DEF FrameRow
<1>8. CASE Restartable(d) /\ conn' = [conn EXCEPT ![c] = Restarted(d)]
           /\ frame' = [frame EXCEPT ![c] = [frame[c] EXCEPT ![f] = "post"]]
  <2>. DEFINE r == Restarted(d)
              row == [frame[c] EXCEPT ![f] = "post"]
  <2>1. d.peer = "open" /\ d.count < MaxRestarts /\ d.tries = d.count
    BY Zenon, <1>1, <1>2, <1>4, <1>8 DEF Restartable, RestartOK
  <2>2. /\ r \in Conn /\ Fades(d, r) /\ r.restarting /\ r.peer = d.peer
        /\ r.timers = d.timers /\ r.count = d.count + 1 /\ r.tries = d.tries + 1
    BY <1>4, <2>1, RestartedFields
  <2>3. row \in FrameRow /\ row[f] = "post" /\ \A g \in Frames : g # f => row[g] = "idle"
    BY <1>7
  <2>. HIDE DEF r, row
  <2>4. d.count \in Nat
    BY <1>4 DEF Conn
  <2>5. RestartOK(r, row)
    BY <2>1, <2>2, <2>3, <2>4, BrowserAssumption DEF RestartOK
  <2>6. Fades(conn[c], r)
    BY <1>4, <2>2 DEF Fades
  <2>7. conn' = [conn EXCEPT ![c] = r] /\ frame' = [frame EXCEPT ![c] = row]
    BY <1>8 DEF r, row
  <2>. QED
    BY Zenon, <1>2, <1>3, <1>4, <1>6, <2>2, <2>3, <2>5, <2>6, <2>7, PointKeeps
<1>9. CASE conn' = [conn EXCEPT ![c] = d]
           /\ frame' = [frame EXCEPT ![c] = [frame[c] EXCEPT ![f] = "idle"]]
  <2>. DEFINE row == [frame[c] EXCEPT ![f] = "idle"]
  <2>1. row \in FrameRow /\ \A g \in Frames : row[g] = "idle"
    BY <1>7
  <2>2. frame' = [frame EXCEPT ![c] = row]
    BY Zenon, <1>9
  <2>. HIDE DEF row
  <2>3. RestartOK(d, row)
    BY Zenon, <1>1, <1>4, <2>1 DEF RestartOK
  <2>. QED
    BY Zenon, <1>2, <1>3, <1>4, <1>6, <1>9, <2>1, <2>2, <2>3, PointKeeps
<1>. QED
  BY <1>5, <1>8, <1>9

\* Closing one connection, then the current one.
LEMMA FailCloses ==
  ASSUME TypeOK, NEW c \in Conns, NEW cs \in [Conns -> Conn], Fail(c, cs)
  PROVE  /\ conn' \in [Conns -> Conn] /\ page' \in [restart: BOOLEAN, disconnect: BOOLEAN]
         /\ \A o \in Conns : Ages(cs[o], conn'[o])
         /\ \A o \in Conns : o # direct /\ o # c => conn'[o] = cs[o]
         /\ \A o \in Conns : conn'[o].peer = "open" => o # direct
<1>. DEFINE ds == [cs EXCEPT ![c] = Closed(cs[c])]
<1>1. Ages(cs[c], Closed(cs[c]))
  BY ClosedAges
<1>2. ds \in [Conns -> Conn] /\ \A o \in Conns : Ages(cs[o], ds[o])
  BY <1>1, AgesOrder DEF Ages
<1>3. \A o \in Conns : o # c => ds[o] = cs[o]
  OBVIOUS
<1>4. conn' = WithDirectClosed(ds) /\ page' = [restart |-> FALSE, disconnect |-> FALSE]
  BY DEF Fail, FailP2P
<1>. HIDE DEF ds
<1>5. /\ conn' \in [Conns -> Conn] /\ \A o \in Conns : Ages(ds[o], conn'[o])
      /\ \A o \in Conns : o # direct => conn'[o] = ds[o]
      /\ \A o \in Conns : conn'[o].peer = "open" => o # direct
  BY <1>2, <1>4, DirectClosed
<1>6. \A o \in Conns : Ages(cs[o], conn'[o])
  <2>1. \A o \in Conns : cs[o] \in Conn /\ ds[o] \in Conn /\ conn'[o] \in Conn
    BY <1>2, <1>5
  <2>. QED
    BY <1>2, <1>5, <2>1, AgesOrder
<1>. QED
  BY <1>3, <1>4, <1>5, <1>6

\* An attempt fails: restart pauses, or gives up and closes the connection.
LEMMA RestartThrowsKeeps ==
  ASSUME BrowserInv, NEW c \in Conns, NEW f \in Frames, RestartThrows(c, f)
  PROVE  BrowserInv'
<1>1. /\ conn[c] \in Conn /\ frame[c] \in FrameRow /\ losses \in 0..MaxLosses
      /\ RestartOK(conn[c], frame[c]) /\ conn[c].timers <= losses /\ TypeOK
      /\ conn \in [Conns -> Conn] /\ frame \in [Conns -> FrameRow]
      /\ conn[c].count \in Int /\ MaxRestarts \in Int /\ conn[c].timers \in Int /\ losses \in Int
  BY BrowserAssumption DEF BrowserInv, TypeOK, FrameRow, Conn
<1>2. UNCHANGED <<direct, call, losses, wish>> /\ frame[c][f] # "idle"
  BY DEF RestartThrows
<1>3. /\ call[c] \notin Before /\ conn[c].restarting
      /\ \A g \in Frames : g # f => frame[c][g] = "idle"
  BY <1>1, <1>2, Made, OneRow
<1>4. ASSUME NEW s \in {"retry", "idle"}
      PROVE  LET row == [frame[c] EXCEPT ![f] = s]
             IN  row \in FrameRow /\ row[f] = s /\ \A g \in Frames : g # f => row[g] = "idle"
  BY <1>1, <1>3 DEF FrameRow
<1>5. CASE /\ ~Exhausted(conn[c]) /\ conn[c].peer = "open"
           /\ FrameTo(c, f, "retry")
           /\ conn' = [conn EXCEPT ![c] = Paused(@)]
           /\ UNCHANGED page
  <2>. DEFINE row == [frame[c] EXCEPT ![f] = "retry"]
  <2>1. row \in FrameRow /\ row[f] = "retry" /\ \A g \in Frames : g # f => row[g] = "idle"
    BY <1>4
  <2>2. frame' = [frame EXCEPT ![c] = row] /\ conn' = [conn EXCEPT ![c] = conn[c]]
    BY <1>5 DEF FrameTo, Paused
  <2>. HIDE DEF row
  <2>3. conn[c].count < MaxRestarts
    BY <1>1, <1>5 DEF Exhausted
  <2>4. RestartOK(conn[c], row)
    BY <1>1, <1>3, <2>1, <2>3 DEF RestartOK
  <2>5. Fades(conn[c], conn[c]) /\ losses <= losses' /\ conn[c].timers <= losses'
    BY SMTT(30), <1>1, <1>2 DEF Fades
  <2>. QED
    BY Zenon, <1>1, <1>2, <1>3, <1>5, <2>1, <2>2, <2>4, <2>5, PointKeeps
<1>6. CASE FrameTo(c, f, "idle") /\ Fail(c, [conn EXCEPT ![c].restarting = FALSE])
  <2>. DEFINE row == [frame[c] EXCEPT ![f] = "idle"]
              d == [conn[c] EXCEPT !.restarting = FALSE]
              cs == [conn EXCEPT ![c] = d]
  <2>1. row \in FrameRow /\ \A g \in Frames : row[g] = "idle"
    BY <1>4
  <2>2. frame' = [frame EXCEPT ![c] = row] /\ Fail(c, cs)
    BY <1>6 DEF FrameTo
  <2>3. /\ d \in Conn /\ Fades(conn[c], d) /\ d.restarting = FALSE
        /\ d.peer = conn[c].peer /\ d.timers = conn[c].timers
        /\ d.count = conn[c].count /\ d.tries = conn[c].tries
    BY Zenon, <1>1, UnflaggedFields
  <2>. HIDE DEF row, d
  <2>4. cs \in [Conns -> Conn] /\ cs[c] = d /\ \A o \in Conns : o # c => cs[o] = conn[o]
    BY <1>1, <2>3
  <2>. HIDE DEF cs
  <2>5. /\ conn' \in [Conns -> Conn] /\ page' \in [restart: BOOLEAN, disconnect: BOOLEAN]
        /\ \A o \in Conns : Ages(cs[o], conn'[o])
        /\ \A o \in Conns : o # direct /\ o # c => conn'[o] = cs[o]
        /\ \A o \in Conns : conn'[o].peer = "open" => o # direct
    BY Zenon, <1>1, <2>2, <2>4, FailCloses
  <2>6. RestartOK(d, row)
    BY <1>1, <2>1, <2>3 DEF RestartOK
  <2>7. frame' \in [Conns -> FrameRow] /\ frame'[c] = row
        /\ \A o \in Conns : o # c => frame'[o] = frame[o]
    BY <1>1, <2>1, <2>2
  <2>8. ASSUME NEW o \in Conns
        PROVE  /\ Fades(conn[o], conn'[o])
               /\ conn'[o].timers <= losses' /\ RestartOK(conn'[o], frame'[o])
               /\ call[o] \in Before => conn'[o] = conn[o]
    <3>1. RestartOK(cs[o], frame'[o]) /\ cs[o].timers <= losses /\ Fades(conn[o], cs[o])
      BY Zenon, <1>1, <2>3, <2>4, <2>6, <2>7 DEF BrowserInv, Fades
    <3>2. cs[o] \in Conn /\ conn'[o] \in Conn /\ Ages(cs[o], conn'[o])
      BY Zenon, <2>4, <2>5
    <3>3. RestartOK(conn'[o], frame'[o])
      BY Zenon, <3>1, <3>2, AgesRestart
    <3>4. cs[o].timers \in Int /\ conn'[o].timers \in Int
      BY SMTT(30), <3>2 DEF Conn
    <3>5. Fades(conn[o], conn'[o]) /\ conn'[o].timers <= losses'
      BY SMTT(30), <1>1, <1>2, <3>1, <3>2, <3>4 DEF Ages, Fades
    <3>6. call[o] \in Before => conn'[o] = conn[o]
      <4>1. call[o] \in Before => o # c /\ o # direct
        BY <1>3, BrowserAssumption DEF BrowserInv, LeakInv
      <4>. QED
        BY Zenon, <2>4, <2>5, <4>1
    <3>. QED
      BY <3>3, <3>5, <3>6
  <2>. QED
    BY Zenon, <1>1, <1>2, <2>5, <2>7, <2>8, FrameKeeps
<1>. QED
  BY <1>5, <1>6 DEF RestartThrows

\* A call of restart, up to its first await, on connections of which one has aged.
LEMMA RestartKeeps ==
  ASSUME BrowserInv, NEW c \in Conns, NEW r \in Conn, call[c] \notin Before,
         Ages(conn[c], r), r.peer = conn[c].peer, Restart(c, [conn EXCEPT ![c] = r]),
         UNCHANGED <<direct, call, losses, wish>>
  PROVE  BrowserInv'
<1>1. /\ conn[c] \in Conn /\ frame[c] \in FrameRow /\ losses \in 0..MaxLosses
      /\ RestartOK(conn[c], frame[c]) /\ conn[c].timers <= losses /\ TypeOK
      /\ conn \in [Conns -> Conn] /\ frame \in [Conns -> FrameRow]
      /\ page \in [restart: BOOLEAN, disconnect: BOOLEAN]
      /\ call \in [Conns -> {"new", "config", "online", "load", "done"} \cup Stages]
      /\ wish \in {"connect", "disconnect"}
  BY DEF BrowserInv, TypeOK, FrameRow
<1>2. /\ r.count \in Nat /\ r.tries \in Nat /\ r.timers \in Int /\ conn[c].timers \in Int
      /\ losses \in Int /\ MaxRestarts \in Nat
  BY <1>1, BrowserAssumption DEF Conn
<1>3. RestartOK(r, frame[c]) /\ Fades(conn[c], r) /\ r.timers <= losses' /\ losses <= losses'
  BY <1>1, <1>2, AgesRestart DEF Ages
<1>. DEFINE cs == [conn EXCEPT ![c] = r]
<1>4. cs \in [Conns -> Conn] /\ cs[c] = r /\ \A o \in Conns : o # c => cs[o] = conn[o]
  BY <1>1
<1>5. \/ conn' = cs /\ UNCHANGED <<page, frame>>
      \/ Fail(c, cs) /\ UNCHANGED frame
      \/ /\ Restartable(r) /\ ~Exhausted(r) /\ UNCHANGED page
         /\ conn' = [cs EXCEPT ![c] = Restarted(r)]
         /\ frame' = [frame EXCEPT ![c] = [frame[c] EXCEPT ![Unused(c)] = "post"]]
  BY <1>4 DEF Restart
<1>6. CASE conn' = cs /\ UNCHANGED <<page, frame>>
  <2>1. frame' = [frame EXCEPT ![c] = frame[c]]
    BY Zenon, <1>1, <1>6
  <2>. QED
    BY Zenon, <1>1, <1>3, <1>6, <2>1, PointKeeps
<1>7. CASE Fail(c, cs) /\ UNCHANGED frame
  <2>. HIDE DEF cs
  <2>1. /\ conn' \in [Conns -> Conn] /\ page' \in [restart: BOOLEAN, disconnect: BOOLEAN]
        /\ \A o \in Conns : Ages(cs[o], conn'[o])
        /\ \A o \in Conns : o # direct /\ o # c => conn'[o] = cs[o]
        /\ \A o \in Conns : conn'[o].peer = "open" => o # direct
    BY Zenon, <1>1, <1>4, <1>7, FailCloses
  <2>2. ASSUME NEW o \in Conns PROVE Ages(conn[o], conn'[o])
    <3>1. Ages(conn[o], cs[o]) /\ conn[o] \in Conn /\ cs[o] \in Conn /\ conn'[o] \in Conn
      BY Zenon, <1>1, <1>4, <2>1, AgesOrder
    <3>. QED
      BY <2>1, <3>1, AgesOrder
  <2>3. \A o \in Conns : call[o] \in Before => o # c /\ o # direct
    BY BrowserAssumption DEF BrowserInv, LeakInv
  <2>4. \A o \in Conns : call[o] \in Before => conn'[o] = conn[o]
    BY Zenon, <1>4, <2>1, <2>3
  <2>5. ~DirectOpen'
    BY <2>1, <1>1, BrowserAssumption DEF DirectOpen, TypeOK
  <2>6. UNCHANGED <<frame, losses>> /\ UNCHANGED call /\ UNCHANGED wish /\ direct' \in {direct, None}
    BY <1>7
  <2>. QED
    BY Zenon, <1>1, <2>1, <2>2, <2>4, <2>5, <2>6, QuietKeeps
<1>8. CASE /\ Restartable(r) /\ ~Exhausted(r) /\ UNCHANGED page
           /\ conn' = [cs EXCEPT ![c] = Restarted(r)]
           /\ frame' = [frame EXCEPT ![c] = [frame[c] EXCEPT ![Unused(c)] = "post"]]
  <2>. DEFINE q == Restarted(r)
              u == Unused(c)
              row == [frame[c] EXCEPT ![u] = "post"]
  <2>1. r.peer = "open" /\ ~r.restarting /\ r.count < MaxRestarts /\ r.tries = r.count
    BY SMTT(30), <1>2, <1>3, <1>8 DEF Restartable, Exhausted, RestartOK
  <2>2. \A f \in Frames : frame[c][f] = "idle"
    BY <1>3, <2>1 DEF RestartOK
  <2>3. u \in Frames
    BY <2>2, BrowserAssumption DEF Unused
  <2>4. conn' = [conn EXCEPT ![c] = q] /\ frame' = [frame EXCEPT ![c] = row]
    BY Zenon, <1>1, <1>8
  <2>5. /\ q \in Conn /\ Fades(r, q) /\ q.restarting /\ q.peer = r.peer
        /\ q.timers = r.timers /\ q.count = r.count + 1 /\ q.tries = r.tries + 1
    BY <2>1, RestartedFields
  <2>. HIDE DEF u, q
  <2>6. row \in FrameRow /\ row[u] = "post" /\ \A g \in Frames : g # u => row[g] = "idle"
    BY Zenon, <1>1, <2>2, <2>3 DEF FrameRow
  <2>. HIDE DEF row
  <2>7. RestartOK(q, row)
    BY SMTT(30), <1>2, <2>1, <2>3, <2>5, <2>6 DEF RestartOK
  <2>8. Fades(conn[c], q) /\ q.timers <= losses' /\ q.peer = conn[c].peer
    BY <1>3, <2>5 DEF Fades
  <2>. QED
    BY Zenon, <1>1, <1>3, <1>8, <2>4, <2>5, <2>6, <2>7, <2>8, PointKeeps
<1>. QED
  BY Zenon, <1>5, <1>6, <1>7, <1>8

\* The restart button, and the events of a peer connection.
LEMMA RestartButtonKeeps == ASSUME BrowserInv, RestartButton PROVE BrowserInv'
<1>1. direct \in Conns /\ call[direct] \notin Before /\ conn \in [Conns -> Conn]
  BY BrowserAssumption DEF RestartButton, BrowserInv, LeakInv, TypeOK
<1>2. conn = [conn EXCEPT ![direct] = conn[direct]] /\ Ages(conn[direct], conn[direct])
  BY <1>1, AgesOrder
<1>3. Restart(direct, [conn EXCEPT ![direct] = conn[direct]])
  BY <1>2, Zenon DEF RestartButton
<1>. QED
  BY <1>1, <1>2, <1>3, RestartKeeps DEF RestartButton

\* The peer connection connects or is lost.
LEMMA PeerEventKeeps ==
  ASSUME BrowserInv, NEW c \in Conns, PeerConnects(c) \/ PeerLoses(c)
  PROVE  BrowserInv'
<1>1. /\ conn[c] \in Conn /\ frame[c] \in FrameRow /\ losses \in 0..MaxLosses
      /\ RestartOK(conn[c], frame[c]) /\ conn[c].timers <= losses
      /\ conn[c].timers \in 0..MaxLosses /\ MaxLosses \in Nat
      /\ conn \in [Conns -> Conn] /\ frame \in [Conns -> FrameRow]
  BY BrowserAssumption DEF BrowserInv, TypeOK, FrameRow, Conn
<1>2. call[c] \notin Before
  BY Made DEF PeerConnects, PeerLoses
<1>3. \E s \in {"connected", "disconnected", "failed"}, n \in 0..MaxLosses :
        /\ conn' = [conn EXCEPT ![c] = [conn[c] EXCEPT !.ice = s, !.timers = n]]
        /\ n <= losses'
  <2>1. CASE PeerConnects(c)
    <3>1. [conn[c] EXCEPT !.ice = "connected", !.timers = conn[c].timers]
          = [conn[c] EXCEPT !.ice = "connected"]
      BY Zenon, <1>1 DEF Conn
    <3>2. conn' = [conn EXCEPT ![c] = [conn[c] EXCEPT !.ice = "connected"]] /\ losses' = losses
      BY <2>1 DEF PeerConnects
    <3>. QED
      BY Zenon, <1>1, <3>1, <3>2
  <2>2. CASE PeerLoses(c)
    <3>1. PICK s \in {"disconnected", "failed"} :
            conn' = [conn EXCEPT ![c].ice = s,
                                 ![c].timers = IF Observed(s) THEN @ + 1 ELSE @]
      <4>1. Worse(conn[c].ice) \subseteq {"disconnected", "failed"}
        BY <1>1 DEF Worse
      <4>. QED
        BY Zenon, <2>2, <4>1 DEF PeerLoses
    <3>2. conn' = [conn EXCEPT ![c] = [conn[c] EXCEPT !.ice = s, !.timers = conn[c].timers + 1]]
      <4>1. Observed(s)
        BY DEF Observed
      <4>. QED
        BY Zenon, <1>1, <3>1, <4>1
    <3>3. conn[c].timers + 1 \in 0..MaxLosses /\ conn[c].timers + 1 <= losses'
      <4>1. losses < MaxLosses /\ losses' = losses + 1
        BY <2>2, Zenon DEF PeerLoses
      <4>. QED
        BY <1>1, <4>1
    <3>. QED
      BY Zenon, <3>2, <3>3
  <2>. QED
    BY Zenon, <2>1, <2>2
<1>4. PICK s \in {"connected", "disconnected", "failed"}, n \in 0..MaxLosses :
        /\ conn' = [conn EXCEPT ![c] = [conn[c] EXCEPT !.ice = s, !.timers = n]]
        /\ n <= losses'
  BY Zenon, <1>3
<1>. DEFINE r == [conn[c] EXCEPT !.ice = s, !.timers = n]
<1>5. r \in Conn
  BY <1>1, Zenon DEF Conn
<1>6. /\ r.peer = conn[c].peer /\ r.overlap = conn[c].overlap /\ r.late = conn[c].late
      /\ r.restarting = conn[c].restarting /\ r.count = conn[c].count
      /\ r.tries = conn[c].tries /\ r.timers = n
  BY <1>1, Zenon DEF Conn
<1>7. conn' = [conn EXCEPT ![c] = r] /\ frame' = [frame EXCEPT ![c] = frame[c]]
  BY <1>1, <1>4, Zenon DEF PeerConnects, PeerLoses
<1>. HIDE DEF r
<1>8. Fades(conn[c], r) /\ RestartOK(r, frame[c])
  BY <1>1, <1>6 DEF Fades, RestartOK
<1>9. losses' \in 0..MaxLosses /\ losses <= losses'
  BY <1>1 DEF PeerConnects, PeerLoses
<1>10. UNCHANGED <<direct, page, call, wish>>
  BY DEF PeerConnects, PeerLoses
<1>. QED
  BY Zenon, <1>1, <1>2, <1>4, <1>5, <1>6, <1>7, <1>8, <1>9, <1>10, PointKeeps

\* The timer of a lost connection fires.
LEMMA TimerKeeps == ASSUME BrowserInv, NEW c \in Conns, TimerFires(c) PROVE BrowserInv'
<1>1. /\ conn[c] \in Conn /\ conn[c].timers \in 0..MaxLosses /\ MaxLosses \in Nat
      /\ conn[c].missed \in BOOLEAN /\ conn \in [Conns -> Conn] /\ frame \in [Conns -> FrameRow]
      /\ losses \in 0..MaxLosses /\ RestartOK(conn[c], frame[c]) /\ conn[c].timers <= losses
  BY BrowserAssumption DEF BrowserInv, TypeOK, Conn, FrameRow
<1>2. call[c] \notin Before /\ UNCHANGED <<direct, call, losses, wish>>
  BY Made DEF TimerFires
<1>3. PICK n \in 0..MaxLosses : n = conn[c].timers - 1
  BY <1>1 DEF TimerFires
<1>4. PICK m \in BOOLEAN : m = (conn[c].missed \/ \E f \in Frames : frame[c][f] = "stats")
  BY Zenon
<1>. DEFINE r == [conn[c] EXCEPT !.timers = n, !.missed = m]
<1>5. r \in Conn
  BY <1>1, Zenon DEF Conn
<1>6. /\ r.peer = conn[c].peer /\ r.overlap = conn[c].overlap /\ r.late = conn[c].late
      /\ r.restarting = conn[c].restarting /\ r.count = conn[c].count
      /\ r.tries = conn[c].tries /\ r.timers = n
  BY <1>1, Zenon DEF Conn
<1>7. [conn EXCEPT ![c].timers = @ - 1,
               ![c].missed = @ \/ \E f \in Frames : frame[c][f] = "stats"]
      = [conn EXCEPT ![c] = r]
  BY Zenon, <1>1, <1>3, <1>4
<1>8. \/ Restart(c, [conn EXCEPT ![c] = r])
      \/ conn' = [conn EXCEPT ![c] = r] /\ UNCHANGED <<page, frame>>
  BY <1>7, Zenon DEF TimerFires
<1>. HIDE DEF r
<1>9. Ages(conn[c], r)
  BY <1>1, <1>3, <1>5, <1>6 DEF Ages, Fades
<1>10. CASE Restart(c, [conn EXCEPT ![c] = r])
  BY <1>2, <1>5, <1>6, <1>9, <1>10, RestartKeeps
<1>11. CASE conn' = [conn EXCEPT ![c] = r] /\ UNCHANGED <<page, frame>>
  <2>1. frame' = [frame EXCEPT ![c] = frame[c]] /\ frame[c] \in FrameRow
    BY <1>1, <1>11
  <2>2. RestartOK(r, frame[c]) /\ Fades(conn[c], r)
    BY <1>1, <1>9, AgesRestart DEF Ages
  <2>3. losses' = losses /\ r.timers = n /\ n = conn[c].timers - 1
    BY Zenon, <1>2, <1>3, <1>6
  <2>4. losses \in 0..MaxLosses /\ conn[c].timers \in 0..MaxLosses /\ conn[c].timers <= losses
    BY Zenon, <1>1
  <2>5. losses' \in 0..MaxLosses /\ losses <= losses' /\ r.timers <= losses'
    BY <2>3, <2>4
  <2>. QED
    BY Zenon, <1>2, <1>5, <1>6, <1>11, <2>1, <2>2, <2>5, PointKeeps
<1>. QED
  BY Zenon, <1>8, <1>10, <1>11

\* A relayed pair is seen.
LEMMA RelayKeeps == ASSUME BrowserInv, NEW c \in Conns, RelaySeen(c) PROVE BrowserInv'
<1>1. /\ TypeOK /\ conn \in [Conns -> Conn]
      /\ call \in [Conns -> {"new", "config", "online", "load", "done"} \cup Stages]
      /\ wish \in {"connect", "disconnect"} /\ direct \in Conns \cup {None}
  BY Zenon DEF BrowserInv, TypeOK
<1>2. UNCHANGED <<frame, losses>> /\ UNCHANGED <<direct, call, wish>> /\ Fail(c, conn)
  BY DEF RelaySeen
<1>3. /\ conn' \in [Conns -> Conn] /\ page' \in [restart: BOOLEAN, disconnect: BOOLEAN]
      /\ \A o \in Conns : Ages(conn[o], conn'[o])
      /\ \A o \in Conns : o # direct /\ o # c => conn'[o] = conn[o]
      /\ \A o \in Conns : conn'[o].peer = "open" => o # direct
  BY Zenon, <1>1, <1>2, FailCloses
<1>4. \A o \in Conns : call[o] \in Before => o # c /\ o # direct
  BY Zenon, Made, BrowserAssumption DEF BrowserInv, LeakInv, RelaySeen
<1>5. ~DirectOpen'
  BY Zenon, <1>1, <1>2, <1>3 DEF DirectOpen
<1>6. \A o \in Conns : call'[o] \in Before => call[o] \in Before /\ conn'[o] = conn[o]
  BY Zenon, <1>2, <1>3, <1>4
<1>. QED
  BY Zenon, <1>1, <1>2, <1>3, <1>5, <1>6, QuietKeeps

\* app.connect makes its connection.
LEMMA OnlineKeeps == ASSUME BrowserInv, NEW c \in Conns, Online(c) PROVE BrowserInv'
<1>1. /\ TypeOK /\ LeakInv /\ conn \in [Conns -> Conn]
      /\ call \in [Conns -> {"new", "config", "online", "load", "done"} \cup Stages]
  BY DEF BrowserInv, TypeOK
<1>2. /\ call[c] = "online" /\ direct' = c /\ call' = [call EXCEPT ![c] = "post"]
      /\ UNCHANGED <<page, frame, losses, wish>>
  BY DEF Online, Goto
<1>3. conn[c] = Fresh
  BY <1>1, <1>2 DEF LeakInv, Before
<1>4. PICK o \in BOOLEAN, l \in BOOLEAN :
        o = (Overlapping(c) # {}) /\ l = (wish = "disconnect")
  BY Zenon
<1>. DEFINE r == [Fresh EXCEPT !.peer = "open", !.overlap = o, !.late = l]
<1>5. conn' = [conn EXCEPT ![c] = r]
  BY <1>4, Zenon DEF Online
<1>6. r \in Conn
  <2>1. Fresh \in Conn
    BY <1>1, <1>3
  <2>. QED
    BY <2>1, Zenon DEF Conn
<1>7. /\ r.peer = "open" /\ r.overlap = o /\ r.late = l /\ r.restarting = FALSE
      /\ r.count = 0 /\ r.tries = 0 /\ r.timers = 0
  BY DEF Fresh
<1>. HIDE DEF r
<1>8. /\ conn' \in [Conns -> Conn] /\ conn'[c] = r
      /\ \A k \in Conns : k # c => conn'[k] = conn[k]
  BY <1>1, <1>5, <1>6
<1>9. /\ call' \in [Conns -> {"new", "config", "online", "load", "done"} \cup Stages]
      /\ call'[c] = "post"
      /\ \A k \in Conns : k # c => call'[k] = call[k]
  BY <1>1, <1>2 DEF Stages
<1>10. TypeOK'
  BY Zenon, <1>1, <1>2, <1>8, <1>9 DEF TypeOK
<1>11. LeakInv'
  <2>1. \A k \in Conns : call'[k] \in Before => conn'[k] = Fresh
    BY <1>1, <1>8, <1>9 DEF LeakInv, Before
  <2>2. call'[direct'] \notin Before
    BY <1>2, <1>9 DEF Before
  <2>3. (\E k \in Conns : call'[k] = "online") => conn'[direct'].overlap
    BY Zenon, <1>2, <1>4, <1>7, <1>8, <1>9 DEF Overlapping
  <2>4. OnlyOverlapLeaks'
    <3>1. ASSUME NEW k \in Conns, k # c, conn[k].peer = "open" PROVE conn[k].overlap
      BY <1>1, <1>2, <3>1, BrowserAssumption DEF LeakInv, OnlyOverlapLeaks, DirectOpen
    <3>. QED
      BY <1>2, <1>8, <3>1 DEF OnlyOverlapLeaks
  <2>5. DisconnectMissesOnlyPending'
    BY Zenon, <1>1, <1>2, <1>4, <1>7, <1>8 DEF LeakInv, DisconnectMissesOnlyPending
  <2>. QED
    BY Zenon, <2>1, <2>2, <2>3, <2>4, <2>5 DEF LeakInv
<1>12. ASSUME NEW k \in Conns
       PROVE  conn'[k].timers <= losses' /\ RestartOK(conn'[k], frame'[k])
  <2>1. conn[k].timers <= losses /\ RestartOK(conn[k], frame[k])
    BY Zenon DEF BrowserInv
  <2>2. CASE k = c
    <3>1. Fresh.timers = 0 /\ ~Fresh.restarting
      BY Zenon DEF Fresh
    <3>2. \A f \in Frames : frame[c][f] = "idle"
      BY Zenon, <1>3, <2>1, <2>2, <3>1 DEF RestartOK
    <3>3. RestartOK(r, frame[c])
      BY <1>7, <3>2, BrowserAssumption DEF RestartOK
    <3>. QED
      BY Zenon, <1>2, <1>3, <1>7, <1>8, <2>1, <2>2, <3>1, <3>3
  <2>. QED
    BY Zenon, <1>2, <1>8, <2>1, <2>2
<1>. QED
  BY <1>10, <1>11, <1>12 DEF BrowserInv

\* No connection has been made at the start.
LEMMA BrowserInitInv == ASSUME Init PROVE BrowserInv
<1>1. 0 \in 0..MaxRestarts /\ 0 \in 0..MaxLosses /\ 0 \in Nat
  BY BrowserAssumption
<1>2. Fresh \in Conn
  BY <1>1, Zenon DEF Fresh, Conn
<1>3. /\ Fresh.peer = "none" /\ Fresh.restarting = FALSE /\ Fresh.tries = 0 /\ Fresh.timers = 0
  BY DEF Fresh
<1>4. TypeOK
  BY <1>1, <1>2 DEF Init, TypeOK
<1>5. LeakInv
  BY <1>3 DEF Init, LeakInv, DirectOpen, OnlyOverlapLeaks, DisconnectMissesOnlyPending
<1>6. \A c \in Conns : conn[c].timers <= losses /\ RestartOK(conn[c], frame[c])
  BY <1>1, <1>3, BrowserAssumption DEF Init, RestartOK
<1>. QED
  BY <1>4, <1>5, <1>6 DEF BrowserInv

\* Every step of the page keeps the invariant.
LEMMA BrowserStep == ASSUME BrowserInv, [Next]_vars PROVE BrowserInv'
<1>1. CASE UNCHANGED vars
  <2>1. BrowserInv' <=> BrowserInv
    BY <1>1 DEF vars, BrowserInv, TypeOK, LeakInv, DirectOpen, OnlyOverlapLeaks,
                DisconnectMissesOnlyPending
  <2>. QED
    BY Zenon, <2>1
<1>. QED
  BY Zenon, <1>1, ConnectKeeps, OnlineKeeps, RestartButtonKeeps, PeerEventKeeps, TimerKeeps, RelayKeeps,
     RestartStepKeeps, RestartThrowsKeeps, RestartAgainKeeps
  DEF Next

\* BrowserInv holds in every reachable state.
LEMMA BrowserInvariance == Spec => []BrowserInv
BY BrowserInitInv, BrowserStep, PTL DEF Spec

\* Exactly one call of restart is in progress when the flag is set.
LEMMA InvOneRestart == ASSUME BrowserInv PROVE OneRestart
<1>1. ASSUME NEW c \in Conns
      PROVE  /\ Cardinality({f \in Frames : frame[c][f] # "idle"})
                  = IF conn[c].restarting THEN 1 ELSE 0
             /\ conn[c].tries <= MaxRestarts
  <2>1. RestartOK(conn[c], frame[c])
    BY Zenon DEF BrowserInv
  <2>2. CASE conn[c].restarting
    <3>1. PICK f \in Frames : frame[c][f] # "idle" /\ \A g \in Frames : g # f => frame[c][g] = "idle"
      BY <2>1, <2>2 DEF RestartOK
    <3>2. {g \in Frames : frame[c][g] # "idle"} = {f}
      BY Zenon, <3>1
    <3>. QED
      BY Zenon, <2>1, <2>2, <3>2, FS_Singleton DEF RestartOK
  <2>3. CASE ~conn[c].restarting
    <3>1. {g \in Frames : frame[c][g] # "idle"} = {}
      BY <2>1, <2>3 DEF RestartOK
    <3>. QED
      BY Zenon, <2>1, <2>3, <3>1, FS_EmptySet DEF RestartOK
  <2>. QED
    BY <2>2, <2>3
<1>. QED
  BY <1>1 DEF OneRestart, BrowserInv

\* OneRestart for any number of connections and restarts: the button, the observation windows and
\* restart's own retry (connection.ts, lines 113-158) never work on a connection together, and
\* no connection begins more than maxRestarts of them.
THEOREM OneRestartAlways == Spec => []OneRestart
BY BrowserInvariance, InvOneRestart, PTL

\* OnlyOverlapLeaks for any number of connections: only two calls of app.connect that overlap
\* while they wait for agentOnline (app.ts, lines 136-150) leave one the page cannot close.
THEOREM OnlyOverlapLeaksAlways == Spec => []OnlyOverlapLeaks
<1>1. BrowserInv => OnlyOverlapLeaks
  BY DEF BrowserInv, LeakInv
<1>. QED
  BY <1>1, BrowserInvariance, PTL

\* DisconnectMissesOnlyPending for any number of connections: after the disconnect button or a
\* logout, the connections that are open are those that app.connect made later, or leaked ones.
THEOREM DisconnectMissesOnlyPendingAlways == Spec => []DisconnectMissesOnlyPending
<1>1. BrowserInv => DisconnectMissesOnlyPending
  BY DEF BrowserInv, LeakInv
<1>. QED
  BY <1>1, BrowserInvariance, PTL
-----------------------------------------------------------------------------
(***************************************************************************)
(* Transport, for any number of loads and requests, any limits.            *)
(*                                                                         *)
(* The calls of loadRemote: a call that waits has made a controller, and   *)
(* the controllers in use have a transport.  As long as no two calls       *)
(* overlapped, a call that registers found no controller, one that waits   *)
(* made the current one, and the frame shows what its controller reaches.  *)
(***************************************************************************)
LoadTyped ==
  /\ load \in [Loads -> LoadPlaces]
  /\ controller \in Loads \cup {NoLoad} /\ via \in [Loads -> Loads \cup {NoLoad}]
  /\ iframe \in [controller: Loads \cup {NoLoad}, page: Loads \cup {NoLoad}]
  /\ overlapped \in BOOLEAN

Reached ==
  /\ \A l \in Loads : load[l] = "wait" => controller \in Loads
  /\ controller \in Loads => via[controller] \in Loads
  /\ iframe.controller \in Loads => via[iframe.controller] \in Loads

Separate ==
  /\ \A k, l \in Loads : k \in Loading /\ l \in Loading => k = l
  /\ \A l \in Loads : load[l] = "register" => controller = NoLoad
  /\ \A l \in Loads : load[l] = "wait" => controller = l /\ via[l] = l /\ iframe.page = NoLoad
  /\ controller = NoLoad => iframe.page = NoLoad
  /\ iframe.page # NoLoad => iframe.controller = controller /\ via[controller] = iframe.page

LoadInv == LoadTyped /\ Reached /\ (overlapped \/ Separate)

(***************************************************************************)
(* Where record q of request r is in the queues fq: a fetch that is under  *)
(* way is the first of its transport, one that is chained is somewhere.    *)
(***************************************************************************)
Fetching == {"write", "blocked", "read"}

RequestOK(r, q, fq) ==
  /\ q.at \in Fetching \cup {"request", "queued", "body"} => q.by \in Loads
  /\ q.at = "queued" => \E i \in 1..Len(fq[q.by]) : fq[q.by][i] = r
  /\ q.at \in Fetching => fq[q.by] # << >> /\ Head(fq[q.by]) = r
  /\ q.at = "route" => iframe.controller \in Loads

RequestRecord == [at: RequestPlaces, tries: 0..(MaxAttempts - 1), by: Loads \cup {NoLoad}]

Queued == DOMAIN fetchQueue = Loads /\ \A t \in Loads : fetchQueue[t] \in Seq(Requests)

RequestInv ==
  /\ request \in [Requests -> RequestRecord] /\ Queued
  /\ \A r \in Requests : RequestOK(r, request[r], fetchQueue)

TransportInv == LoadInv /\ RequestInv /\ chan \in [Loads -> Channel]

\* A fetch that failed does not leave its queue rejected.
Unrejected == rejected = [t \in Loads |-> FALSE]

loadVars == <<load, controller, via, iframe, overlapped>>
-----------------------------------------------------------------------------
\* The calls of loadRemote.
LEMMA LoadRemoteKeeps ==
  ASSUME LoadInv, NEW l \in Loads, NEW event, LoadRemote(l, event)
  PROVE  LoadInv' /\ (iframe.controller \in Loads => iframe'.controller \in Loads)
<1>1. LoadTyped /\ Reached /\ NoLoad \notin Loads
  BY TransportAssumption DEF LoadInv
<1>2. load[l] = "none" /\ overlapped' = (overlapped \/ Loading # {}) /\ UNCHANGED controller
  BY DEF LoadRemote, NextOf, Begun
<1>3. CASE controller = NoLoad
  <2>1. load' = [load EXCEPT ![l] = "register"] /\ UNCHANGED <<via, iframe>>
    BY <1>3 DEF LoadRemote
  <2>2. LoadTyped'
    BY <1>1, <1>2, <2>1 DEF LoadTyped, LoadPlaces
  <2>3. Reached'
    BY Zenon, <1>1, <1>2, <2>1 DEF LoadTyped, Reached
  <2>4. ASSUME ~overlapped' PROVE Separate'
    <3>1. Separate /\ Loading = {}
      BY Zenon, <1>2, <2>4 DEF LoadInv
    <3>2. \A k \in Loads : k # l => load[k] \notin {"register", "wait"} /\ load'[k] = load[k]
      BY <1>1, <2>1, <3>1 DEF Loading, LoadTyped
    <3>3. load'[l] = "register"
      BY <1>1, <2>1 DEF LoadTyped
    <3>4. \A k \in Loads : k \in Loading' => k = l
      BY <3>2 DEF Loading
    <3>. QED
      BY <1>2, <1>3, <2>1, <3>1, <3>2, <3>3, <3>4 DEF Separate
  <2>. QED
    BY <2>1, <2>2, <2>3, <2>4 DEF LoadInv
<1>4. CASE controller # NoLoad
  <2>1. /\ controller \in Loads /\ load' = [load EXCEPT ![l] = "done"]
        /\ via' = [via EXCEPT ![controller] = l] /\ iframe' = [controller |-> controller, page |-> l]
    BY Zenon, <1>1, <1>4 DEF LoadRemote, Pointed, Shown, LoadTyped
  <2>2. LoadTyped'
    BY Zenon, <1>1, <1>2, <2>1 DEF LoadTyped, LoadPlaces
  <2>3. Reached'
    BY <1>1, <1>2, <2>1 DEF LoadTyped, Reached
  <2>4. ASSUME ~overlapped' PROVE Separate'
    <3>1. Separate /\ Loading = {}
      BY Zenon, <1>2, <2>4 DEF LoadInv
    <3>2. \A k \in Loads : load'[k] \notin {"register", "wait"}
      BY <1>1, <2>1, <3>1 DEF Loading, LoadTyped
    <3>3. via'[controller] = l
      BY Zenon, <1>1, <2>1 DEF LoadTyped
    <3>. QED
      BY Zenon, <1>1, <1>2, <2>1, <3>2, <3>3 DEF Separate, Loading
  <2>. QED
    BY <2>1, <2>2, <2>3, <2>4 DEF LoadInv
<1>. QED
  BY <1>3, <1>4

\* A step of a load, after its call of loadRemote.
LEMMA LoadStepKeeps ==
  ASSUME LoadInv, NEW l \in Loads, LoadStep(l)
  PROVE  LoadInv' /\ (iframe.controller \in Loads => iframe'.controller \in Loads)
<1>1. LoadTyped /\ Reached /\ NoLoad \notin Loads
  BY TransportAssumption DEF LoadInv
<1>2. CASE Registered(l)
  <2>1. /\ load[l] = "register" /\ controller' = l /\ via' = [via EXCEPT ![l] = l]
        /\ load' = [load EXCEPT ![l] = "wait"] /\ UNCHANGED <<iframe, overlapped>>
    BY <1>2 DEF Registered
  <2>2. LoadTyped'
    BY <1>1, <2>1 DEF LoadTyped, LoadPlaces
  <2>3. Reached'
    BY Zenon, <1>1, <2>1 DEF LoadTyped, Reached
  <2>4. ASSUME Separate PROVE Separate'
    <3>1. \A k \in Loads : k # l => load[k] \notin {"register", "wait"} /\ load'[k] = load[k]
      BY <1>1, <2>1, <2>4 DEF Separate, Loading, LoadTyped
    <3>2. load'[l] = "wait" /\ via'[l] = l
      BY Zenon, <1>1, <2>1 DEF LoadTyped
    <3>3. iframe.page = NoLoad
      BY <2>1, <2>4 DEF Separate
    <3>. QED
      BY Zenon, <1>1, <2>1, <3>1, <3>2, <3>3 DEF Separate, Loading
  <2>. QED
    BY <2>1, <2>2, <2>3, <2>4 DEF LoadInv
<1>3. CASE NotReady(l)
  <2>1. load' = [load EXCEPT ![l] = "failed"] /\ UNCHANGED <<controller, via, iframe, overlapped>>
    BY <1>3 DEF NotReady
  <2>2. LoadTyped' /\ Reached'
    BY Zenon, <1>1, <2>1 DEF LoadTyped, LoadPlaces, Reached
  <2>3. ASSUME Separate PROVE Separate'
    <3>1. \A k \in Loads : load'[k] \in {"register", "wait"} => load'[k] = load[k]
      BY <1>1, <2>1 DEF LoadTyped
    <3>. QED
      BY <2>1, <2>3, <3>1 DEF Separate, Loading
  <2>. QED
    BY <2>1, <2>2, <2>3 DEF LoadInv
<1>4. CASE Waited(l)
  <2>1. /\ load[l] = "wait" /\ load' = [load EXCEPT ![l] = "done"]
        /\ iframe' = [controller |-> controller, page |-> l] /\ UNCHANGED <<controller, via, overlapped>>
    BY <1>4 DEF Waited, Shown
  <2>2. LoadTyped' /\ Reached' /\ iframe'.controller \in Loads
    BY Zenon, <1>1, <2>1 DEF LoadTyped, LoadPlaces, Reached
  <2>3. ASSUME Separate PROVE Separate'
    <3>1. controller = l /\ via[l] = l
      BY Zenon, <2>1, <2>3 DEF Separate
    <3>2. \A k \in Loads : load'[k] \notin {"register", "wait"}
      BY Zenon, <1>1, <2>1, <2>3 DEF Separate, Loading, LoadTyped
    <3>. QED
      BY Zenon, <1>1, <2>1, <3>1, <3>2 DEF Separate, Loading
  <2>. QED
    BY Zenon, <2>1, <2>2, <2>3 DEF LoadInv
<1>. QED
  BY <1>2, <1>3, <1>4 DEF LoadStep

\* Everything else leaves them alone.
LEMMA LoadUnchanged == ASSUME LoadInv, UNCHANGED loadVars PROVE LoadInv'
BY DEF loadVars, LoadInv, LoadTyped, Reached, Separate, Loading

\* A request that moves with the queues as they are.
LEMMA MoveKeeps ==
  ASSUME RequestInv, NEW r \in Requests, NEW q \in RequestRecord,
         request' = [request EXCEPT ![r] = q], UNCHANGED <<iframe, fetchQueue>>,
         RequestOK(r, q, fetchQueue)
  PROVE  RequestInv'
<1>1. request \in [Requests -> RequestRecord] /\ Queued
  BY DEF RequestInv
<1>2. request' \in [Requests -> RequestRecord] /\ Queued'
  BY <1>1 DEF Queued
<1>3. request'[r] = q /\ \A o \in Requests : o # r => request'[o] = request[o]
  BY <1>1
<1>4. \A o \in Requests : RequestOK(o, request'[o], fetchQueue)
  BY Zenon, <1>3 DEF RequestInv
<1>5. ASSUME NEW o \in Requests PROVE RequestOK(o, request[o], fetchQueue)'
  BY <1>4 DEF RequestOK
<1>. QED
  BY <1>2, <1>5 DEF RequestInv

\* What RequestTo makes of a request.
LEMMA RequestToMoves ==
  ASSUME request \in [Requests -> RequestRecord], NEW r \in Requests,
         NEW place \in RequestPlaces, RequestTo(r, place)
  PROVE  \E q \in RequestRecord :
           /\ request' = [request EXCEPT ![r] = q] /\ q.at = place
           /\ place \notin Over => q.by = request[r].by
<1>1. PICK b \in Loads \cup {NoLoad} : b = IF place \in Over THEN NoLoad ELSE request[r].by
  BY DEF RequestRecord
<1>. DEFINE q == [request[r] EXCEPT !.at = place, !.by = b]
<1>2. request[r] \in RequestRecord
  OBVIOUS
<1>3. q \in RequestRecord /\ q.at = place /\ q.by = b
  BY <1>2, Zenon DEF RequestRecord
<1>4. request' = [request EXCEPT ![r] = q]
  BY <1>1, Zenon DEF RequestTo
<1>. HIDE DEF q
<1>. QED
  BY Zenon, <1>1, <1>3, <1>4

\* The worker's part.
LEMMA AttemptKeeps ==
  ASSUME LoadInv, RequestInv, NEW r \in Requests, NEW known \in BOOLEAN, Attempt(r, known)
  PROVE  RequestInv'
<1>1. /\ request[r] \in RequestRecord /\ request[r].at = "route"
      /\ iframe.controller \in Loads /\ via[iframe.controller] \in Loads
      /\ request[r].tries \in 0..(MaxAttempts - 1) /\ 0 \in 0..(MaxAttempts - 1)
  BY TransportAssumption DEF RequestInv, RequestOK, LoadInv, Reached, Attempt, RequestRecord
<1>2. UNCHANGED <<iframe, fetchQueue>>
  BY DEF Attempt
<1>. DEFINE v == via[iframe.controller]
<1>3. CASE known
  <2>. DEFINE q == [request[r] EXCEPT !.at = "request", !.tries = 0, !.by = v]
  <2>1. request' = [request EXCEPT ![r] = q]
    BY Zenon, <1>3 DEF Attempt
  <2>. HIDE DEF v
  <2>2. v \in Loads
    BY <1>1 DEF v
  <2>3. q \in RequestRecord /\ q.at = "request" /\ q.by = v
    BY <1>1, <2>2, Zenon DEF RequestRecord, RequestPlaces
  <2>. HIDE DEF q
  <2>4. RequestOK(r, q, fetchQueue)
    BY <2>2, <2>3 DEF RequestOK, Fetching
  <2>. QED
    BY Zenon, <1>2, <2>1, <2>3, <2>4, MoveKeeps
<1>4. CASE ~known /\ OutOfTries(r)
  <2>. DEFINE q == [request[r] EXCEPT !.at = "answered", !.tries = 0]
  <2>1. request' = [request EXCEPT ![r] = q]
    BY <1>4 DEF Attempt
  <2>2. q \in RequestRecord /\ q.at = "answered"
    BY <1>1, Zenon DEF RequestRecord, RequestPlaces
  <2>. HIDE DEF q
  <2>3. RequestOK(r, q, fetchQueue)
    BY <2>2 DEF RequestOK, Fetching
  <2>. QED
    BY Zenon, <1>2, <2>1, <2>2, <2>3, MoveKeeps
<1>5. CASE ~known /\ ~OutOfTries(r)
  <2>1. PICK n \in 0..(MaxAttempts - 1) : n = request[r].tries + 1
    <3>1. request[r].tries + 1 # MaxAttempts
      BY <1>5 DEF OutOfTries
    <3>. QED
      BY <1>1, <3>1, TransportAssumption
  <2>. DEFINE q == [request[r] EXCEPT !.tries = n]
  <2>2. request' = [request EXCEPT ![r] = q]
    <3>1. request' = [request EXCEPT ![r] = [request[r] EXCEPT !.tries = request[r].tries + 1]]
      BY <1>5, Zenon DEF Attempt
    <3>. QED
      BY <2>1, <3>1, Zenon
  <2>3. q \in RequestRecord /\ q.at = "route"
    BY <1>1, Zenon DEF RequestRecord
  <2>. HIDE DEF q
  <2>4. RequestOK(r, q, fetchQueue)
    BY <1>1, <2>3 DEF RequestOK, Fetching
  <2>. QED
    BY Zenon, <1>2, <2>2, <2>3, <2>4, MoveKeeps
<1>. QED
  BY <1>3, <1>4, <1>5

\* The fetch is chained behind the others.
LEMMA EnqueueKeeps == ASSUME RequestInv, NEW r \in Requests, Enqueue(r) PROVE RequestInv'
<1>1. request \in [Requests -> RequestRecord] /\ Queued /\ RequestOK(r, request[r], fetchQueue)
  BY Zenon DEF RequestInv
<1>. DEFINE t == request[r].by
<1>2. t \in Loads
  BY Zenon, <1>1 DEF Enqueue, RequestOK
<1>3. PICK q \in RequestRecord :
        request' = [request EXCEPT ![r] = q] /\ q.at = "queued" /\ q.by = t
  BY <1>1, RequestToMoves DEF Enqueue, RequestPlaces, Over
<1>4. fetchQueue' = [fetchQueue EXCEPT ![t] = Append(fetchQueue[t], r)] /\ UNCHANGED iframe
  BY DEF Enqueue
<1>. HIDE DEF t
<1>5. fetchQueue[t] \in Seq(Requests)
  BY <1>1, <1>2 DEF Queued
<1>6. /\ DOMAIN fetchQueue' = Loads /\ fetchQueue'[t] = Append(fetchQueue[t], r)
      /\ \A o \in Loads : o # t => fetchQueue'[o] = fetchQueue[o]
  BY <1>1, <1>2, <1>4 DEF Queued
<1>7. Append(fetchQueue[t], r) \in Seq(Requests)
  BY <1>5
<1>8. Queued'
  BY Zenon, <1>1, <1>6, <1>7 DEF Queued
<1>9. request' \in [Requests -> RequestRecord] /\ request'[r] = q
      /\ \A o \in Requests : o # r => request'[o] = request[o]
  BY <1>1, <1>3
<1>10. RequestOK(r, q, fetchQueue')
  <2>1. Len(fetchQueue'[t]) \in 1..Len(fetchQueue'[t]) /\ fetchQueue'[t][Len(fetchQueue'[t])] = r
    BY <1>5, <1>6
  <2>. QED
    BY Zenon, <1>2, <1>3, <2>1 DEF RequestOK, Fetching
<1>11. ASSUME NEW o \in Requests, o # r PROVE RequestOK(o, request[o], fetchQueue')
  <2>1. RequestOK(o, request[o], fetchQueue)
    BY Zenon DEF RequestInv
  <2>2. CASE request[o].by = t
    <3>1. \A i \in 1..Len(fetchQueue[t]) :
            i \in 1..Len(fetchQueue'[t]) /\ fetchQueue'[t][i] = fetchQueue[t][i]
      BY <1>5, <1>6
    <3>2. fetchQueue[t] # << >> => fetchQueue'[t] # << >> /\ Head(fetchQueue'[t]) = Head(fetchQueue[t])
      BY <1>5, <1>6
    <3>. QED
      BY Zenon, <2>1, <2>2, <3>1, <3>2 DEF RequestOK
  <2>3. CASE request[o].by # t
    BY ZenonT(30), <1>6, <2>1, <2>3 DEF RequestOK, Fetching
  <2>. QED
    BY <2>2, <2>3
<1>12. ASSUME NEW o \in Requests PROVE RequestOK(o, request[o], fetchQueue)'
  <2>1. RequestOK(o, request'[o], fetchQueue')
    BY <1>9, <1>10, <1>11
  <2>. QED
    BY <1>4, <2>1 DEF RequestOK
<1>. QED
  BY <1>8, <1>9, <1>12 DEF RequestInv

\* A fetch that was under way is over, and the next one's turn comes.
LEMMA SettleKeeps ==
  ASSUME RequestInv, NEW r \in Requests, request[r].at \in Fetching,
         NEW ok, NEW place \in {"answered", "body", "failed"}, Settle(r, ok, place)
  PROVE  RequestInv'
<1>1. request \in [Requests -> RequestRecord] /\ Queued /\ RequestOK(r, request[r], fetchQueue)
  BY Zenon DEF RequestInv
<1>. DEFINE t == request[r].by
<1>2. t \in Loads /\ fetchQueue[t] # << >> /\ Head(fetchQueue[t]) = r
  BY <1>1 DEF RequestOK
<1>3. PICK q \in RequestRecord :
        /\ request' = [request EXCEPT ![r] = q] /\ q.at = place
        /\ place = "body" => q.by = t
  <2>1. place \in RequestPlaces /\ RequestTo(r, place)
    BY DEF Settle, RequestPlaces
  <2>. QED
    BY <1>1, <2>1, RequestToMoves DEF Over
<1>4. fetchQueue' = [fetchQueue EXCEPT ![t] = Tail(fetchQueue[t])] /\ UNCHANGED iframe
  BY DEF Settle
<1>. HIDE DEF t
<1>5. fetchQueue[t] \in Seq(Requests)
  BY <1>1, <1>2 DEF Queued
<1>6. /\ DOMAIN fetchQueue' = Loads /\ fetchQueue'[t] = Tail(fetchQueue[t])
      /\ \A o \in Loads : o # t => fetchQueue'[o] = fetchQueue[o]
  BY <1>1, <1>2, <1>4 DEF Queued
<1>7. Queued'
  <2>1. Tail(fetchQueue[t]) \in Seq(Requests)
    BY <1>2, <1>5
  <2>. QED
    BY Zenon, <1>1, <1>6, <2>1 DEF Queued
<1>8. request' \in [Requests -> RequestRecord] /\ request'[r] = q
      /\ \A o \in Requests : o # r => request'[o] = request[o]
  BY Zenon, <1>1, <1>3
<1>9. RequestOK(r, q, fetchQueue')
  BY Zenon, <1>2, <1>3 DEF RequestOK, Fetching
<1>10. ASSUME NEW o \in Requests, o # r PROVE RequestOK(o, request[o], fetchQueue')
  <2>1. RequestOK(o, request[o], fetchQueue)
    BY Zenon DEF RequestInv
  <2>2. CASE request[o].by = t
    <3>1. request[o].at \notin Fetching
      BY <1>2, <1>10, <2>1, <2>2 DEF RequestOK
    <3>2. ASSUME NEW i \in 1..Len(fetchQueue[t]), fetchQueue[t][i] = o
          PROVE  \E k \in 1..Len(fetchQueue'[t]) : fetchQueue'[t][k] = o
      <4>1. i # 1
        BY SMTT(30), <1>2, <1>5, <1>10, <3>2
      <4>2. i - 1 \in 1..Len(Tail(fetchQueue[t])) /\ Tail(fetchQueue[t])[i - 1] = fetchQueue[t][i]
        BY SMTT(30), <1>2, <1>5, <4>1
      <4>. QED
        BY Zenon, <1>6, <3>2, <4>2
    <3>. QED
      BY Zenon, <2>1, <2>2, <3>1, <3>2 DEF RequestOK
  <2>3. CASE request[o].by # t
    BY Zenon, <1>6, <2>1, <2>3 DEF RequestOK, Fetching
  <2>. QED
    BY <2>2, <2>3
<1>11. ASSUME NEW o \in Requests PROVE RequestOK(o, request[o], fetchQueue)'
  <2>1. RequestOK(o, request'[o], fetchQueue')
    BY <1>8, <1>9, <1>10
  <2>. QED
    BY <1>4, <2>1 DEF RequestOK
<1>. QED
  BY <1>7, <1>8, <1>11 DEF RequestInv

\* The event of a buffer that drained lets the requests that wait for it go on.
LEMMA WokenKeeps ==
  ASSUME RequestInv, NEW t \in Loads, request' = Woken(t), UNCHANGED <<iframe, fetchQueue>>
  PROVE  RequestInv'
<1>1. request \in [Requests -> RequestRecord] /\ Queued /\ Queued'
  BY Zenon DEF RequestInv, Queued
<1>2. ASSUME NEW r \in Requests
      PROVE  request'[r] \in RequestRecord /\ RequestOK(r, request'[r], fetchQueue)
  <2>1. request[r] \in RequestRecord /\ RequestOK(r, request[r], fetchQueue)
    BY Zenon, <1>1 DEF RequestInv
  <2>2. CASE request[r].by = t /\ request[r].at = "blocked"
    <3>. DEFINE q == [request[r] EXCEPT !.at = "write"]
    <3>1. request'[r] = q
      BY <2>2 DEF Woken
    <3>2. q \in RequestRecord /\ q.at = "write" /\ q.by = request[r].by
      BY <2>1, Zenon DEF RequestRecord, RequestPlaces
    <3>. HIDE DEF q
    <3>3. RequestOK(r, q, fetchQueue)
      BY Zenon, <2>1, <2>2, <3>2 DEF RequestOK, Fetching
    <3>. QED
      BY <3>1, <3>2, <3>3
  <2>3. CASE ~(request[r].by = t /\ request[r].at = "blocked")
    <3>1. request'[r] = request[r]
      BY <2>3 DEF Woken
    <3>. QED
      BY <2>1, <3>1
  <2>. QED
    BY <2>2, <2>3
<1>3. request' \in [Requests -> RequestRecord]
  <2>1. request' = [r \in Requests |-> request'[r]]
    BY DEF Woken
  <2>. QED
    BY <1>2, <2>1, Zenon
<1>4. ASSUME NEW r \in Requests PROVE RequestOK(r, request[r], fetchQueue)'
  BY Zenon, <1>2 DEF RequestOK
<1>. QED
  BY <1>1, <1>3, <1>4 DEF RequestInv

\* Changes of the requests by the page and by loadRemote.
LEMMA RequestUnchanged ==
  ASSUME RequestInv, UNCHANGED <<request, fetchQueue>>,
         iframe.controller \in Loads => iframe'.controller \in Loads
  PROVE  RequestInv'
<1>1. request' \in [Requests -> RequestRecord] /\ Queued'
  BY Zenon DEF RequestInv, Queued
<1>2. ASSUME NEW r \in Requests PROVE RequestOK(r, request[r], fetchQueue)'
  BY DEF RequestInv, RequestOK
<1>. QED
  BY Zenon, <1>1, <1>2 DEF RequestInv

\* The worker gets a fetch event.
LEMMA FetchEventKeeps ==
  ASSUME LoadInv, RequestInv, NEW r \in Requests, NEW data \in BOOLEAN, FetchEvent(r, data)
  PROVE  RequestInv'
<1>1. request \in [Requests -> RequestRecord] /\ iframe.controller \in Loads
  BY Zenon DEF RequestInv, LoadInv, LoadTyped, FetchEvent
<1>2. PICK place \in {"answered", "route"} : RequestTo(r, place)
  BY Zenon DEF FetchEvent, EmbeddedData
<1>3. PICK q \in RequestRecord : request' = [request EXCEPT ![r] = q] /\ q.at = place
  BY SMTT(30), <1>1, <1>2, RequestToMoves DEF RequestPlaces
<1>4. RequestOK(r, q, fetchQueue)
  BY <1>1, <1>3 DEF RequestOK, Fetching
<1>. QED
  BY Zenon, <1>3, <1>4, MoveKeeps DEF FetchEvent

\* The steps of a fetch that do not touch the queue.
LEMMA FetchMoves ==
  ASSUME RequestInv, NEW r \in Requests, NEW place \in {"write", "blocked", "read", "answered", "failed"},
         RequestTo(r, place), UNCHANGED <<iframe, fetchQueue>>,
         \/ request[r].at \in Fetching
         \/ request[r].at = "queued" /\ AtTurn(r)
         \/ place \in Over
  PROVE  RequestInv'
<1>1. /\ request \in [Requests -> RequestRecord] /\ Queued
      /\ RequestOK(r, request[r], fetchQueue) /\ place \in RequestPlaces
  BY DEF RequestInv, RequestPlaces
<1>2. PICK q \in RequestRecord :
        /\ request' = [request EXCEPT ![r] = q] /\ q.at = place
        /\ place \notin Over => q.by = request[r].by
  BY Zenon, <1>1, RequestToMoves
<1>3. RequestOK(r, q, fetchQueue)
  <2>1. CASE place \in Over
    BY Zenon, <1>2, <2>1 DEF RequestOK, Fetching, Over
  <2>2. CASE request[r].at \in Fetching /\ place \notin Over
    BY Zenon, <1>1, <1>2, <2>2 DEF RequestOK, Fetching, Over
  <2>3. CASE request[r].at = "queued" /\ AtTurn(r) /\ place \notin Over
    <3>1. request[r].by \in Loads /\ \E i \in 1..Len(fetchQueue[request[r].by]) : TRUE
      BY Zenon, <1>1, <2>3 DEF RequestOK
    <3>2. fetchQueue[request[r].by] \in Seq(Requests)
      BY Zenon, <1>1, <3>1 DEF Queued
    <3>3. fetchQueue[request[r].by] # << >>
      BY <3>1, <3>2
    <3>. QED
      BY Zenon, <1>2, <2>3, <3>1, <3>3 DEF RequestOK, AtTurn, Over
  <2>. QED
    BY Zenon, <2>1, <2>2, <2>3
<1>. QED
  BY Zenon, <1>2, <1>3, MoveKeeps

\* The records of a channel.
LEMMA ChannelFields ==
  ASSUME NEW c \in Channel
  PROVE  /\ \A s \in {"open", "closed", "told", "silent"} : [c EXCEPT !.state = s] \in Channel
         /\ \A b \in BOOLEAN : /\ [c EXCEPT !.falling = b] \in Channel
                               /\ [c EXCEPT !.ended = b] \in Channel
         /\ \A s \in {"closed", "silent"} :
              [c EXCEPT !.state = s, !.falling = FALSE] \in Channel
         /\ \A n \in 0..(High + 1), b \in BOOLEAN :
              /\ [c EXCEPT !.buffered = n] \in Channel
              /\ [c EXCEPT !.buffered = n, !.falling = b] \in Channel
         /\ c.buffered \in 0..(High + 1)
<1>1. /\ \A s \in {"open", "closed", "told", "silent"} : [c EXCEPT !.state = s] \in Channel
      /\ \A s \in {"closed", "silent"} : [c EXCEPT !.state = s, !.falling = FALSE] \in Channel
  BY Zenon DEF Channel
<1>2. \A b \in BOOLEAN : [c EXCEPT !.falling = b] \in Channel /\ [c EXCEPT !.ended = b] \in Channel
  BY Zenon DEF Channel
<1>3. \A n \in 0..(High + 1), b \in BOOLEAN :
        [c EXCEPT !.buffered = n] \in Channel /\ [c EXCEPT !.buffered = n, !.falling = b] \in Channel
  BY Zenon DEF Channel
<1>4. c.buffered \in 0..(High + 1)
  BY DEF Channel
<1>. QED
  BY Zenon, <1>1, <1>2, <1>3, <1>4

\* Abandoned channels keep their type.
LEMMA AbandonedTyped ==
  ASSUME chan \in [Loads -> Channel], NEW event \in BOOLEAN
  PROVE  Abandoned(event) \in [Loads -> Channel]
<1>. DEFINE s == IF event THEN "closed" ELSE "silent"
<1>1. s \in {"closed", "silent"}
  OBVIOUS
<1>. HIDE DEF s
<1>2. \A t \in Loads : chan[t] \in Channel /\ [chan[t] EXCEPT !.state = s, !.falling = FALSE] \in Channel
  BY Zenon, <1>1, ChannelFields
<1>3. Abandoned(event) =
        [t \in Loads |-> IF chan[t].state = "open"
                         THEN [chan[t] EXCEPT !.state = s, !.falling = FALSE] ELSE chan[t]]
  BY Zenon DEF Abandoned, s
<1>. QED
  BY Zenon, <1>2, <1>3

\* The events of a channel.
LEMMA ChannelKeeps ==
  ASSUME TransportInv, NEW t \in Loads,
         \/ OtherWrite(t) \/ Drain(t) \/ OnBufferedAmountLow(t)
         \/ OnClose(t) \/ Abort(t) \/ RemoteCloses(t)
  PROVE  TransportInv'
<1>1. chan \in [Loads -> Channel] /\ chan[t] \in Channel /\ High \in Nat
  BY TransportAssumption DEF TransportInv
<1>2. ChannelStep /\ (UNCHANGED request \/ request' = Woken(t))
  BY DEF OtherWrite, Drain, OnBufferedAmountLow, OnClose, Abort, RemoteCloses
<1>3. LoadInv'
  BY <1>2, LoadUnchanged DEF TransportInv, ChannelStep, loadVars
<1>4. RequestInv'
  BY <1>2, RequestUnchanged, WokenKeeps DEF TransportInv, ChannelStep
<1>5. ASSUME NEW c \in Channel, chan' = [chan EXCEPT ![t] = c] PROVE chan' \in [Loads -> Channel]
  BY <1>1, <1>5
<1>6. \E c \in Channel : chan' = [chan EXCEPT ![t] = c]
  <2>1. CASE OtherWrite(t)
    <3>1. PICK n \in 0..(High + 1) : n = chan[t].buffered + 1
      <4>1. chan[t].buffered <= High /\ chan[t].buffered \in 0..(High + 1)
        BY Zenon, <1>1, <2>1, ChannelFields DEF OtherWrite
      <4>. QED
        BY <1>1, <4>1
    <3>2. chan' = [chan EXCEPT ![t] = [chan[t] EXCEPT !.buffered = n]]
      BY <2>1, <3>1, Zenon DEF OtherWrite
    <3>. QED
      BY Zenon, <1>1, <3>2, ChannelFields
  <2>2. CASE Drain(t)
    <3>1. PICK n \in 0..(High + 1) : n = chan[t].buffered - 1
      <4>1. chan[t].buffered > 0 /\ chan[t].buffered \in 0..(High + 1)
        BY Zenon, <1>1, <2>2, ChannelFields DEF Drain
      <4>. QED
        BY <1>1, <4>1
    <3>2. PICK b \in BOOLEAN : b = (chan[t].falling \/ chan[t].buffered = Low + 1)
      BY Zenon
    <3>3. chan' = [chan EXCEPT ![t] = [chan[t] EXCEPT !.buffered = n, !.falling = b]]
      BY Zenon, <1>1, <2>2, <3>1, <3>2 DEF Drain
    <3>. QED
      BY Zenon, <1>1, <3>3, ChannelFields
  <2>3. CASE OnBufferedAmountLow(t)
    <3>1. chan' = [chan EXCEPT ![t] = [chan[t] EXCEPT !.falling = FALSE]]
      BY <2>3, Zenon DEF OnBufferedAmountLow
    <3>. QED
      BY Zenon, <1>1, <3>1, ChannelFields
  <2>4. CASE OnClose(t)
    <3>1. 0 \in 0..(High + 1)
      BY <1>1
    <3>2. [state |-> "told", ended |-> TRUE, buffered |-> 0, falling |-> FALSE] \in Channel
      BY <3>1, Zenon DEF Channel
    <3>. QED
      BY <2>4, <3>2, Zenon DEF OnClose
  <2>5. CASE Abort(t)
    <3>1. chan' = [chan EXCEPT ![t] = [chan[t] EXCEPT !.ended = TRUE]]
      BY <2>5, Zenon DEF Abort, Broken
    <3>. QED
      BY Zenon, <1>1, <3>1, ChannelFields
  <2>6. CASE RemoteCloses(t)
    <3>1. chan' = [chan EXCEPT ![t] = [chan[t] EXCEPT !.state = "closed"]]
      BY <2>6, Zenon DEF RemoteCloses
    <3>. QED
      BY Zenon, <1>1, <3>1, ChannelFields
  <2>. QED
    BY Zenon, <2>1, <2>2, <2>3, <2>4, <2>5, <2>6
<1>. QED
  BY <1>3, <1>4, <1>5, <1>6 DEF TransportInv

\* The page closes the connection.
LEMMA PageClosesKeeps ==
  ASSUME TransportInv, NEW event \in BOOLEAN, PageCloses(event)
  PROVE  TransportInv'
<1>1. chan' \in [Loads -> Channel]
  BY AbandonedTyped DEF TransportInv, PageCloses
<1>2. LoadInv'
  BY LoadUnchanged DEF TransportInv, PageCloses, ChannelStep, loadVars
<1>3. RequestInv'
  BY RequestUnchanged DEF TransportInv, PageCloses, ChannelStep
<1>. QED
  BY <1>1, <1>2, <1>3 DEF TransportInv

\* The calls of loadRemote.
LEMMA LoadsKeep ==
  ASSUME TransportInv, NEW l \in Loads,
         LoadStep(l) \/ \E event \in BOOLEAN : LoadRemote(l, event)
  PROVE  TransportInv'
<1>1. LoadInv /\ RequestInv /\ chan \in [Loads -> Channel]
  BY Zenon DEF TransportInv
<1>2. CASE LoadStep(l)
  <2>1. UNCHANGED <<chan, request, fetchQueue>>
    BY <1>2 DEF LoadStep, Registered, NotReady, Waited
  <2>. QED
    BY Zenon, <1>1, <1>2, <2>1, LoadStepKeeps, RequestUnchanged DEF TransportInv
<1>3. CASE \E event \in BOOLEAN : LoadRemote(l, event)
  <2>1. PICK event \in BOOLEAN : LoadRemote(l, event)
    BY <1>3
  <2>. DEFINE cs == Abandoned(event)
  <2>2. cs \in [Loads -> Channel]
    BY <1>1, AbandonedTyped
  <2>3. chan' = [cs EXCEPT ![l] = [cs[l] EXCEPT !.state = "open"]] /\ UNCHANGED <<request, fetchQueue>>
    BY <2>1, Zenon DEF LoadRemote
  <2>. HIDE DEF cs
  <2>4. [cs[l] EXCEPT !.state = "open"] \in Channel
    BY Zenon, <2>2, ChannelFields
  <2>5. chan' \in [Loads -> Channel]
    BY Zenon, <2>2, <2>3, <2>4
  <2>. QED
    BY Zenon, <1>1, <2>1, <2>3, <2>5, LoadRemoteKeeps, RequestUnchanged DEF TransportInv
<1>. QED
  BY <1>2, <1>3

\* What a step does to the promises of the queues: nothing, or it settles one.
LEMMA UnrejectedStep == ASSUME Unrejected, [TransportNext]_transportVars PROVE Unrejected'
<1>1. ASSUME NEW r, NEW ok, NEW place, Settle(r, ok, place) PROVE UNCHANGED rejected
  <2>1. rejected' = [rejected EXCEPT ![request[r].by] = FALSE]
    BY Zenon, <1>1 DEF Settle, Rejects
  <2>. QED
    BY Zenon, <2>1 DEF Unrejected
<1>2. ASSUME NEW r \in Requests, RequestStep(r) \/ Responds(r) \/ \E data \in BOOLEAN : FetchEvent(r, data)
      PROVE  UNCHANGED rejected
  <2>1. CASE (\E known \in BOOLEAN : Attempt(r, known)) \/ Enqueue(r) \/ BodyRead(r)
             \/ \E data \in BOOLEAN : FetchEvent(r, data)
    BY Zenon, <2>1 DEF Attempt, Enqueue, BodyRead, FetchEvent
  <2>2. CASE Start(r) \/ Write(r) \/ FetchEnded(r) \/ Responds(r)
    BY Zenon, <1>1, <2>2 DEF Start, Write, FetchEnded, Responds, Respond
  <2>. QED
    BY Zenon, <1>2, <2>1, <2>2 DEF RequestStep
<1>3. ASSUME NEW l \in Loads, LoadStep(l) \/ \E event \in BOOLEAN : LoadRemote(l, event)
      PROVE  UNCHANGED rejected
  BY Zenon, <1>3 DEF LoadStep, Registered, NotReady, Waited, LoadRemote
<1>4. ASSUME NEW t \in Loads,
             \/ OtherWrite(t) \/ Drain(t) \/ OnBufferedAmountLow(t)
             \/ OnClose(t) \/ Abort(t) \/ RemoteCloses(t)
      PROVE  UNCHANGED rejected
  BY Zenon, <1>4 DEF OtherWrite, Drain, OnBufferedAmountLow, OnClose, Abort, RemoteCloses, ChannelStep
<1>5. ASSUME NEW event \in BOOLEAN, PageCloses(event) PROVE UNCHANGED rejected
  BY Zenon, <1>5 DEF PageCloses, ChannelStep
<1>6. UNCHANGED rejected
  BY Zenon, <1>2, <1>3, <1>4, <1>5 DEF TransportNext, transportVars
<1>. QED
  BY Zenon, <1>6 DEF Unrejected

\* The steps of a request.
LEMMA RequestKeeps ==
  ASSUME TransportInv, Unrejected, NEW r \in Requests,
         RequestStep(r) \/ Responds(r) \/ \E data \in BOOLEAN : FetchEvent(r, data)
  PROVE  TransportInv'
<1>1. LoadInv /\ RequestInv /\ chan \in [Loads -> Channel] /\ High \in Nat
  BY TransportAssumption DEF TransportInv
<1>2. UNCHANGED loadVars
  BY Zenon DEF RequestStep, Responds, FetchEvent, Attempt, Enqueue, Start, Write, FetchEnded, BodyRead,
         Respond, Settle, loadVars
<1>3. LoadInv' /\ UNCHANGED iframe
  BY <1>1, <1>2, LoadUnchanged DEF loadVars
<1>4. CASE \E known \in BOOLEAN : Attempt(r, known)
  BY Zenon, <1>1, <1>3, <1>4, AttemptKeeps DEF TransportInv, Attempt
<1>5. CASE Enqueue(r)
  BY Zenon, <1>1, <1>3, <1>5, EnqueueKeeps DEF TransportInv, Enqueue
<1>6. CASE Start(r)
  <2>1. request[r].at = "queued" /\ AtTurn(r) /\ UNCHANGED chan
    BY Zenon, <1>6 DEF Start
  <2>2. request[r].by \in Loads
    BY Zenon, <1>1, <2>1 DEF RequestInv, RequestOK
  <2>3. ~rejected[request[r].by]
    BY Zenon, <2>2 DEF Unrejected
  <2>4. RequestTo(r, "write") /\ UNCHANGED fetchQueue
    BY Zenon, <1>6, <2>3 DEF Start
  <2>. QED
    BY Zenon, <1>1, <1>3, <2>1, <2>4, FetchMoves DEF TransportInv
<1>7. CASE FetchEnded(r)
  BY Zenon, <1>1, <1>3, <1>7, SettleKeeps DEF TransportInv, FetchEnded, Fetching
<1>8. CASE Responds(r)
  BY Zenon, <1>1, <1>3, <1>8, SettleKeeps DEF TransportInv, Responds, Respond, Fetching
<1>9. CASE BodyRead(r)
  BY Zenon, <1>1, <1>3, <1>9, FetchMoves DEF TransportInv, BodyRead, Over
<1>10. CASE \E data \in BOOLEAN : FetchEvent(r, data)
  BY Zenon, <1>1, <1>3, <1>10, FetchEventKeeps DEF TransportInv, FetchEvent
<1>11. CASE Write(r)
  <2>. DEFINE t == request[r].by
  <2>1. request[r].at \in Fetching /\ t \in Loads
    BY <1>1, <1>11 DEF Write, Fetching, RequestInv, RequestOK
  <2>2. CASE Settle(r, FALSE, "failed") /\ UNCHANGED chan
    BY Zenon, <1>1, <1>3, <2>1, <2>2, SettleKeeps DEF TransportInv
  <2>3. CASE RequestTo(r, "blocked") /\ UNCHANGED chan /\ UNCHANGED fetchQueue
    BY Zenon, <1>1, <1>3, <2>1, <2>3, FetchMoves DEF TransportInv
  <2>4. CASE /\ RequestTo(r, "read") /\ chan' = [chan EXCEPT ![t].buffered = @ + 1]
             /\ ~(chan[t].buffered > High) /\ UNCHANGED fetchQueue
    <3>1. PICK n \in 0..(High + 1) : n = chan[t].buffered + 1
      <4>1. chan[t].buffered \in 0..(High + 1)
        BY Zenon, <1>1, <2>1, ChannelFields
      <4>. QED
        BY <1>1, <2>4, <4>1
    <3>2. chan' = [chan EXCEPT ![t] = [chan[t] EXCEPT !.buffered = n]]
      BY <2>4, <3>1, Zenon
    <3>3. [chan[t] EXCEPT !.buffered = n] \in Channel
      BY Zenon, <1>1, <2>1, ChannelFields
    <3>4. chan' \in [Loads -> Channel]
      BY <1>1, <3>2, <3>3, Zenon
    <3>5. RequestInv'
      BY Zenon, <1>1, <1>3, <2>1, <2>4, FetchMoves
    <3>. QED
      BY Zenon, <1>3, <3>4, <3>5 DEF TransportInv
  <2>. QED
    BY Zenon, <1>11, <2>2, <2>3, <2>4 DEF Write
<1>. QED
  BY Zenon, <1>4, <1>5, <1>6, <1>7, <1>8, <1>9, <1>10, <1>11 DEF RequestStep

\* Nothing is loaded or requested at the start.
LEMMA TransportInitInv == ASSUME TransportInit PROVE TransportInv
<1>1. 0 \in 0..(High + 1) /\ 0 \in 0..(MaxAttempts - 1) /\ NoLoad \notin Loads
  BY TransportAssumption
<1>2. LoadInv
  BY Zenon, <1>1 DEF TransportInit, LoadInv, LoadTyped, LoadPlaces, Reached, Separate, Loading
<1>3. [at |-> "none", tries |-> 0, by |-> NoLoad] \in RequestRecord
  BY <1>1, Zenon DEF RequestRecord, RequestPlaces
<1>4. [state |-> "none", ended |-> FALSE, buffered |-> 0, falling |-> FALSE] \in Channel
  BY <1>1, Zenon DEF Channel
<1>5. chan \in [Loads -> Channel] /\ request \in [Requests -> RequestRecord]
  BY <1>3, <1>4, Zenon DEF TransportInit
<1>6. Queued
  BY DEF TransportInit, Queued
<1>7. \A r \in Requests : RequestOK(r, request[r], fetchQueue)
  BY DEF TransportInit, RequestOK, Fetching
<1>. QED
  BY <1>2, <1>5, <1>6, <1>7 DEF TransportInv, RequestInv

\* Every step of the transport keeps TransportInv.
LEMMA TransportStep ==
  ASSUME TransportInv, Unrejected, [TransportNext]_transportVars
  PROVE  TransportInv'
<1>1. CASE UNCHANGED transportVars
  BY <1>1, LoadUnchanged, RequestUnchanged DEF transportVars, loadVars, TransportInv
<1>. QED
  BY Zenon, <1>1, LoadsKeep, RequestKeeps, ChannelKeeps, PageClosesKeeps DEF TransportNext

\* TransportInv holds in every reachable state.
LEMMA TransportInvariance == TransportSpec => [](TransportInv /\ Unrejected)
<1>1. TransportInit => Unrejected
  BY DEF TransportInit, Unrejected
<1>. QED
  BY <1>1, TransportInitInv, TransportStep, UnrejectedStep, PTL DEF TransportSpec

\* FetchesInTurn for any number of loads and requests: RTCEpoxyTransport.request (compat.ts) runs
\* one fetch of a transport at a time, in the order in which they were chained.
THEOREM FetchesInTurnAlways == TransportSpec => []FetchesInTurn
<1>1. TransportInv /\ Unrejected => FetchesInTurn
  <2>1. TransportInv /\ Unrejected => TransportTypeOK
    BY Zenon DEF TransportInv, LoadInv, LoadTyped, RequestInv, RequestRecord, Queued, Unrejected,
                TransportTypeOK
  <2>. QED
    BY Zenon, <2>1 DEF TransportInv, RequestInv, RequestOK, Fetching, FetchesInTurn
<1>. QED
  BY <1>1, TransportInvariance, PTL

\* A chained request keeps its place or is started, when r moves and the others stay.
LEMMA OneMoves ==
  ASSUME request \in [Requests -> RequestRecord], NEW r \in Requests,
         NEW place \in RequestPlaces, RequestTo(r, place),
         request[r].at # "queued" \/ place = "write"
  PROVE  OwnFetch
<1>1. PICK q \in RequestRecord :
        /\ request' = [request EXCEPT ![r] = q] /\ q.at = place
        /\ place \notin Over => q.by = request[r].by
  BY Zenon, RequestToMoves
<1>2. request'[r] = q /\ \A o \in Requests : o # r => request'[o] = request[o]
  BY <1>1
<1>. QED
  BY Zenon, <1>1, <1>2 DEF OwnFetch

\* Every step starts a chained request or leaves it in its queue.
LEMMA OwnFetchStep == ASSUME TransportInv, Unrejected, [TransportNext]_transportVars PROVE OwnFetch
<1>1. /\ request \in [Requests -> RequestRecord]
      /\ \A r \in Requests : request[r].at = "queued" => request[r].by \in Loads
  BY Zenon DEF TransportInv, RequestInv, RequestOK
<1>2. CASE UNCHANGED request
  BY Zenon, <1>2 DEF OwnFetch
<1>3. ASSUME NEW r \in Requests, NEW data \in BOOLEAN, FetchEvent(r, data) PROVE OwnFetch
  <2>1. request[r].at # "queued"
    BY Zenon, <1>3 DEF FetchEvent, NextOf
  <2>2. PICK place \in {"answered", "route"} : RequestTo(r, place)
    BY Zenon, <1>3 DEF FetchEvent, EmbeddedData
  <2>. QED
    BY Zenon, <1>1, <2>1, <2>2, OneMoves DEF RequestPlaces
<1>4. ASSUME NEW r \in Requests, NEW known \in BOOLEAN, Attempt(r, known) PROVE OwnFetch
  <2>1. \A o \in Requests : o # r => request'[o] = request[o]
    BY Zenon, <1>1, <1>4 DEF Attempt
  <2>. QED
    BY Zenon, <1>4, <2>1 DEF Attempt, OwnFetch
<1>5. ASSUME NEW r \in Requests, Enqueue(r) PROVE OwnFetch
  BY Zenon, <1>1, <1>5, OneMoves DEF Enqueue, RequestPlaces
<1>6. ASSUME NEW r \in Requests, Start(r) PROVE OwnFetch
  <2>1. ~rejected[request[r].by]
    BY Zenon, <1>1, <1>6 DEF Start, Unrejected
  <2>2. RequestTo(r, "write")
    BY Zenon, <1>6, <2>1 DEF Start
  <2>. QED
    BY Zenon, <1>1, <2>2, OneMoves DEF RequestPlaces
<1>7. ASSUME NEW r \in Requests, Write(r) \/ FetchEnded(r) \/ BodyRead(r) \/ Responds(r) PROVE OwnFetch
  <2>1. request[r].at # "queued"
    BY Zenon, <1>7 DEF Write, FetchEnded, BodyRead, Responds, Respond
  <2>2. \E place \in RequestPlaces : RequestTo(r, place)
    BY Zenon, <1>7 DEF Write, FetchEnded, BodyRead, Responds, Respond, Settle, RequestPlaces
  <2>. QED
    BY Zenon, <1>1, <2>1, <2>2, OneMoves
<1>8. ASSUME NEW t \in Loads, OnBufferedAmountLow(t) PROVE OwnFetch
  <2>1. \A r \in Requests : request[r].at = "queued" => request'[r] = request[r]
    BY Zenon, <1>8 DEF OnBufferedAmountLow, Woken
  <2>. QED
    BY Zenon, <2>1 DEF OwnFetch
<1>9. ASSUME NEW l \in Loads, LoadStep(l) \/ \E event \in BOOLEAN : LoadRemote(l, event)
      PROVE  UNCHANGED request
  BY Zenon, <1>9 DEF LoadStep, Registered, NotReady, Waited, LoadRemote
<1>10. ASSUME NEW t \in Loads, OtherWrite(t) \/ Drain(t) \/ OnClose(t) \/ Abort(t) \/ RemoteCloses(t)
       PROVE  UNCHANGED request
  BY Zenon, <1>10 DEF OtherWrite, Drain, OnClose, Abort, RemoteCloses
<1>11. ASSUME NEW event \in BOOLEAN, PageCloses(event) PROVE UNCHANGED request
  BY Zenon, <1>11 DEF PageCloses
<1>12. ASSUME UNCHANGED transportVars PROVE UNCHANGED request
  BY Zenon, <1>12 DEF transportVars
<1>13. CASE \E r \in Requests : RequestStep(r) \/ Responds(r) \/ \E data \in BOOLEAN : FetchEvent(r, data)
  BY Zenon, <1>3, <1>4, <1>5, <1>6, <1>7, <1>13 DEF RequestStep
<1>14. CASE \E l \in Loads : LoadStep(l) \/ \E event \in BOOLEAN : LoadRemote(l, event)
  BY Zenon, <1>2, <1>9, <1>14
<1>15. CASE \E t \in Loads :
              \/ OtherWrite(t) \/ Drain(t) \/ OnBufferedAmountLow(t)
              \/ OnClose(t) \/ Abort(t) \/ RemoteCloses(t)
  BY Zenon, <1>2, <1>8, <1>10, <1>15
<1>. QED
  BY Zenon, <1>2, <1>11, <1>12, <1>13, <1>14, <1>15 DEF TransportNext

\* A request that was chained leaves the queue with a fetch of its own, however the fetches before
\* it ended: both handlers of compat.ts:52 return undefined, so fetchQueue is never rejected.
THEOREM OwnFetchAlways == TransportSpec => [][OwnFetch]_request
<1>1. TransportInv /\ Unrejected /\ [TransportNext]_transportVars => [OwnFetch]_request
  BY Zenon, OwnFetchStep
<1>. QED
  BY <1>1, TransportInvariance, PTL DEF TransportSpec

\* OnlyOverlapMixes for any number of loads: unless two calls of loadRemote overlapped, the page
\* in the frame talks through the connection of its own service (scramjet.ts).
THEOREM OnlyOverlapMixesAlways == TransportSpec => []OnlyOverlapMixes
<1>1. TransportInv => OnlyOverlapMixes
  BY Zenon DEF TransportInv, LoadInv, Separate, OnlyOverlapMixes
<1>. QED
  BY <1>1, TransportInvariance, PTL
-----------------------------------------------------------------------------
(***************************************************************************)
(* Viewer, for any set of points.  TimeoutIsGenuine is inductive as it is: *)
(* what clears the timer also records that something came.                 *)
(***************************************************************************)
LEMMA ViewerStep ==
  ASSUME TimeoutIsGenuine, [ViewerNext]_viewerVars
  PROVE  TimeoutIsGenuine'
<1>1. ViewerTypeOK
  BY DEF TimeoutIsGenuine
<1>2. CASE UNCHANGED viewerVars
  BY <1>2 DEF viewerVars, TimeoutIsGenuine, ViewerTypeOK
<1>3. CASE PageStep
  <2>1. ASSUME NEW id \in BOOLEAN, Connect(id) PROVE TimeoutIsGenuine'
    <3>1. stage' \in ViewerStages /\ panel' \in {"status", "error"} /\ timer' = FALSE
      BY <2>1 DEF Connect, ViewerStages
    <3>2. since' = since /\ UNCHANGED pointerVars
      BY <2>1 DEF Connect
    <3>. QED
      BY Zenon, <1>1, <3>1, <3>2 DEF pointerVars, TimeoutIsGenuine, ViewerTypeOK, Panels
  <2>2. CASE Prepared
    BY Zenon, <2>2 DEF Prepared, pointerVars, TimeoutIsGenuine, ViewerTypeOK, ViewerStages
  <2>3. CASE Fails
    <3>1. stage' \in ViewerStages /\ panel' = "error"
      BY <1>1, <2>3 DEF Fails, ViewerStages
    <3>2. since' = since /\ timer' = timer /\ UNCHANGED pointerVars
      BY <2>3 DEF Fails
    <3>. QED
      BY <1>1, <3>1, <3>2 DEF pointerVars, TimeoutIsGenuine, ViewerTypeOK, Panels
  <2>. QED
    BY <1>3, <2>1, <2>2, <2>3 DEF PageStep
<1>4. CASE AskPassword \/ ReportError \/ RenderFrame
  BY Zenon, <1>4 DEF AskPassword, ReportError, RenderFrame, Report, Cleared, pointerVars,
              TimeoutIsGenuine, ViewerTypeOK, Panels
<1>5. CASE Connecting \/ Success \/ FirstFrameLate
  <2>1. UNCHANGED <<stage, pointerVars>> /\ panel' \in Panels
    BY <1>5 DEF Connecting, Success, FirstFrameLate, Panels
  <2>2. \/ panel' = "status" /\ UNCHANGED <<timer, since>>
        \/ panel' = "status" /\ timer' = TRUE /\ since' = "success"
        \/ panel' = "late" /\ timer' = FALSE /\ since' = "late"
    BY <1>5 DEF Connecting, Success, Armed, FirstFrameLate
  <2>3. /\ timer' \in BOOLEAN /\ (timer' => since' = "success") /\ (panel' = "late" => since' = "late")
        /\ since' \in {"nothing", "success", "late", "frame", "password", "error"}
    <3>1. CASE panel' = "status" /\ UNCHANGED <<timer, since>>
      BY <3>1 DEF TimeoutIsGenuine, ViewerTypeOK
    <3>2. CASE panel' = "status" /\ timer' = TRUE /\ since' = "success"
      BY <3>2
    <3>3. CASE panel' = "late" /\ timer' = FALSE /\ since' = "late"
      BY Zenon, <3>3
    <3>. QED
      BY Zenon, <2>2, <3>1, <3>2, <3>3
  <2>. QED
    BY <1>1, <2>1, <2>3 DEF pointerVars, TimeoutIsGenuine, ViewerTypeOK
<1>6. CASE Retry \/ DisconnectButton
  BY Zenon, <1>6 DEF Retry, DisconnectButton, pointerVars, TimeoutIsGenuine, ViewerTypeOK, ViewerStages,
              Panels
<1>7. CASE (\E p \in Points : PointerMove(p) \/ PointerButton(p)) \/ AnimationFrame
  <2>1. UNCHANGED pageVars
    BY <1>7 DEF PointerMove, AnimationFrame, PointerButton
  <2>2. /\ pointer' \in Points \cup {NoPoint} /\ pendingMove' \in Points \cup {NoPoint}
        /\ moveFrame' \in BOOLEAN /\ remote' \in Points \cup {NoPoint} /\ overtaken' \in BOOLEAN
    BY Zenon, <1>1, <1>7 DEF PointerMove, Gathered, AnimationFrame, PointerButton, ViewerTypeOK
  <2>. QED
    BY <2>1, <2>2 DEF pageVars, TimeoutIsGenuine, ViewerTypeOK
<1>. QED
  BY Zenon, <1>2, <1>3, <1>4, <1>5, <1>6, <1>7 DEF ViewerNext

\* TimeoutIsGenuine: the remote desktop page reports a missing first frame only when nothing came
\* after the success it belongs to (classic-ui.js, messageBox and renderFrame clear the timer).
THEOREM TimeoutIsGenuineAlways == ViewerSpec => []TimeoutIsGenuine
<1>1. ViewerInit => TimeoutIsGenuine
  BY Zenon DEF ViewerInit, TimeoutIsGenuine, ViewerTypeOK, ViewerStages, Panels
<1>. QED
  BY <1>1, ViewerStep, PTL DEF ViewerSpec
=============================================================================

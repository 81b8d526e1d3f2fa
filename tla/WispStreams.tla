---------------------------- MODULE WispStreams ----------------------------
(***************************************************************************)
(* The streams of one Wisp channel and the goroutines that serve them      *)
(* (internal/wisp/server.go).  Messages are handled one after the other;   *)
(* each stream has a goroutine in connect and one in writeLoop, later one  *)
(* in readLoop, and all of them may call stream.close.  A critical section *)
(* under server.mu or connMu is a step.  What sendFrame does is the        *)
(* subject of WispSend, what the FIFO does of WispFlow: here a send        *)
(* returns, and a FIFO may be full.                                        *)
(***************************************************************************)
EXTENDS Naturals, FiniteSets

CONSTANTS
  StreamIds,   \* stream ids the browser uses
  Streams,     \* stream objects that can be allocated
  MaxStreams   \* maxConcurrentStreams

ASSUME WispStreamsAssumption == MaxStreams \in Nat \ {0}

VARIABLES
  table,       \* server.streams: stream id -> stream object
  stream,      \* the stream objects allocated so far
  handshaken,
  cancelled,   \* the server's context is cancelled
  closed,      \* the data channel is closed: no more messages
  sweeping,    \* Server.Close is running
  left,        \* ... and has still to close these
  crashed      \* a goroutine panicked and took the process down

streamsVars == <<table, stream, handshaken, cancelled, closed, sweeping, left, crashed>>

\* phase: the parts of close().  connect: dialing (with a live context or, if
\* the server was done, a dead one), returned with a connection or an error,
\* stored, finished.  conn: nil, an open or a closed connection, or one that
\* connect closed and discarded.  reader "nil": readLoop runs without a connection.
Stream == [id: StreamIds,
           phase: {"open", "cancelled", "removed", "closed"},
           connect: {"dialing", "doomed", "dialled", "refused", "stored", "failed", "end"},
           conn: {"nil", "open", "closed", "discarded"},
           reader: {"none", "run", "nil", "end"},
           writer: {"wait", "run", "end"}]

StreamsTypeOK ==
  /\ DOMAIN stream \subseteq Streams /\ stream \in [DOMAIN stream -> Stream]
  /\ DOMAIN table \subseteq StreamIds /\ table \in [DOMAIN table -> DOMAIN stream]
  /\ Cardinality(DOMAIN table) <= MaxStreams
  /\ left \subseteq DOMAIN stream
  /\ {handshaken, cancelled, closed, sweeping, crashed} \subseteq BOOLEAN

StreamsInit ==
  /\ table = [i \in {} |-> {}] /\ stream = [o \in {} |-> {}]
  /\ handshaken = FALSE /\ cancelled = FALSE /\ closed = FALSE
  /\ sweeping = FALSE /\ left = {} /\ crashed = FALSE
-----------------------------------------------------------------------------
\* f with x mapped to v.
With(f, x, v) == [y \in DOMAIN f \cup {x} |-> IF y = x THEN v ELSE f[y]]

\* A bug: close() has no sync.Once.
FirstAlways(o) == stream[o].phase \in {"open", "closed"}

\* Is this the first call of close()?
First(o) == stream[o].phase = "open"

\* The record of stream o after a call of close().
Closing(o) == IF First(o) THEN [stream[o] EXCEPT !.phase = "cancelled"] ELSE stream[o]

\* A bug: nobody looks at the contexts.
CtxDoneNever(o) == FALSE

\* The context of stream o is cancelled.
CtxDone(o) == cancelled \/ stream[o].phase # "open"

\* The next message can be handled.
Listening == ~closed /\ ~sweeping

Others == <<table, handshaken, cancelled, closed, sweeping, left, crashed>>
-----------------------------------------------------------------------------
\* INFO.  A second one changes nothing.
Handshake ==
  /\ Listening /\ ~handshaken /\ handshaken' = TRUE
  /\ UNCHANGED <<table, stream, cancelled, closed, sweeping, left, crashed>>

\* A bug: Server.Close only cancels the context.
SnapshotNone == {}

\* The streams Server.Close finds.
Snapshot == {table[i] : i \in DOMAIN table}

\* Server.Close: cancel the context, copy the table, close the streams in turn.
Sweep ==
  /\ cancelled' = TRUE /\ sweeping' = TRUE /\ left' = Snapshot
  /\ UNCHANGED <<table, stream, handshaken, crashed>>

\* A packet that does not parse, a bad INFO or a packet before the handshake.
BadPacket == Listening /\ Sweep /\ UNCHANGED closed

\* OnClose.
ChannelCloses == Listening /\ Sweep /\ closed' = TRUE

\* The peer's context is cancelled; its channels close later.
PeerCancelled ==
  /\ ~cancelled /\ cancelled' = TRUE
  /\ UNCHANGED <<table, stream, handshaken, closed, sweeping, left, crashed>>

SweepOne(o) ==
  /\ o \in left
  /\ stream' = [stream EXCEPT ![o] = Closing(o)]
  /\ left' = IF stream[o].phase = "closed" THEN left \ {o} ELSE left
  /\ UNCHANGED <<table, handshaken, cancelled, closed, sweeping, crashed>>

SweepEnds ==
  /\ sweeping /\ left = {} /\ sweeping' = FALSE
  /\ UNCHANGED <<table, stream, handshaken, cancelled, closed, left, crashed>>

Room == Cardinality(DOMAIN table) < MaxStreams

\* CONNECT: openStream.  A known id or a full table is answered with CLOSE.
Connect(i, o) ==
  /\ Listening /\ handshaken
  /\ i \notin DOMAIN table /\ Room /\ o \notin DOMAIN stream
  /\ table' = With(table, i, o)
  /\ stream' = With(stream, o,
       [id |-> i, phase |-> "open", connect |-> IF cancelled THEN "doomed" ELSE "dialing",
        conn |-> "nil", reader |-> "none", writer |-> "wait"])
  /\ UNCHANGED <<handshaken, cancelled, closed, sweeping, left, crashed>>

\* CLOSE, or DATA for a full FIFO.  DATA for a FIFO with room is WispFlow's.
CloseOrOverflow(i) ==
  /\ Listening /\ handshaken /\ i \in DOMAIN table
  /\ stream' = [stream EXCEPT ![table[i]] = Closing(table[i])]
  /\ UNCHANGED Others
-----------------------------------------------------------------------------
\* The rest of close(): delete the id from the table, ...
Remove(o) ==
  /\ stream[o].phase = "cancelled"
  /\ table' = [i \in DOMAIN table \ {stream[o].id} |-> table[i]]
  /\ stream' = [stream EXCEPT ![o].phase = "removed"]
  /\ UNCHANGED <<handshaken, cancelled, closed, sweeping, left, crashed>>

\* ... and close the connection, under connMu.
CloseConn(o) ==
  /\ stream[o].phase = "removed"
  /\ stream' = [stream EXCEPT ![o].phase = "closed",
                              ![o].conn = IF @ = "open" THEN "closed" ELSE @]
  /\ UNCHANGED Others

\* dial returns an error, or a connection unless it began with a dead context.
Dial(o) ==
  /\ \/ /\ stream[o].connect \in {"dialing", "doomed"}
        /\ stream' = [stream EXCEPT ![o].connect = "refused"]
     \/ /\ stream[o].connect = "dialing"
        /\ stream' = [stream EXCEPT ![o].connect = "dialled"]
  /\ UNCHANGED Others

\* connect under connMu: a connection that comes too late is closed and
\* dropped.  connReady is closed.
Store(o) ==
  /\ \/ /\ stream[o].connect = "dialled"
        /\ stream' = [stream EXCEPT ![o].connect = "stored",
                                    ![o].conn = IF CtxDone(o) THEN "discarded" ELSE "open"]
     \/ /\ stream[o].connect = "refused"
        /\ stream' = [stream EXCEPT ![o].connect = "failed"]
  /\ UNCHANGED Others

\* connect ends: it closes the stream if dial returned an error, and else
\* starts readLoop with the connection, which is nil if it was discarded.
ConnectEnds(o) ==
  /\ \/ /\ stream[o].connect = "failed"
        /\ stream' = [stream EXCEPT ![o] = [Closing(o) EXCEPT !.connect = "end"]]
     \/ /\ stream[o].connect = "stored"
        /\ stream' = [stream EXCEPT ![o].connect = "end",
                        ![o].reader = IF stream[o].conn = "discarded" THEN "nil" ELSE "run"]
  /\ UNCHANGED Others

\* readLoop: Read fails, at the latest when the connection is closed, or the
\* data cannot be sent on.
ReadEnds(o) ==
  /\ stream[o].reader = "run"
  /\ stream' = [stream EXCEPT ![o] = [Closing(o) EXCEPT !.reader = "end"]]
  /\ UNCHANGED Others

\* Read on a nil net.Conn panics.
ReadPanics(o) ==
  /\ stream[o].reader = "nil" /\ crashed' = TRUE
  /\ UNCHANGED <<table, stream, handshaken, cancelled, closed, sweeping, left>>

\* A bug: connReady is closed only for a connection.
ReadyIfConnected(o) == stream[o].connect \in {"stored", "end"} /\ stream[o].conn # "nil"

\* connReady is closed.
Ready(o) == stream[o].connect \in {"stored", "failed", "end"}

\* writeLoop waits for connReady or for the server to be done, ...
WriterStarts(o) ==
  /\ stream[o].writer = "wait"
  /\ \/ cancelled /\ stream' = [stream EXCEPT ![o].writer = "end"]
     \/ /\ Ready(o)
        /\ stream' = [stream EXCEPT ![o].writer =
                        IF stream[o].conn \in {"open", "closed"} THEN "run" ELSE "end"]
  /\ UNCHANGED Others

\* ... then runs until its context is cancelled or a write or a send fails.
WriterEnds(o) ==
  /\ stream[o].writer = "run"
  /\ \/ CtxDone(o) /\ stream' = [stream EXCEPT ![o].writer = "end"]
     \/ stream' = [stream EXCEPT ![o] = [Closing(o) EXCEPT !.writer = "end"]]
  /\ UNCHANGED Others

Goroutine(o) ==
  \/ Remove(o) \/ CloseConn(o) \/ Dial(o) \/ Store(o) \/ ConnectEnds(o) \/ ReadPanics(o)
  \/ WriterStarts(o)

StreamsNext ==
  /\ ~crashed
  /\ \/ Handshake \/ BadPacket \/ ChannelCloses \/ PeerCancelled \/ SweepEnds
     \/ \E o \in DOMAIN stream : SweepOne(o) \/ Goroutine(o) \/ ReadEnds(o) \/ WriterEnds(o)
     \/ \E i \in StreamIds : CloseOrOverflow(i) \/ \E o \in Streams : Connect(i, o)

StreamsSpec == StreamsInit /\ [][StreamsNext]_streamsVars

\* Goroutines run; a dial times out; Read returns once the connection is closed,
\* and the writer's select notices its context.  A target may keep quiet forever.
Fairness ==
  /\ WF_streamsVars(~crashed /\ SweepEnds)
  /\ \A o \in Streams :
       /\ WF_streamsVars(~crashed /\ o \in DOMAIN stream /\ (SweepOne(o) \/ Goroutine(o)))
       /\ WF_streamsVars(~crashed /\ o \in DOMAIN stream /\ stream[o].conn = "closed" /\ ReadEnds(o))
       /\ WF_streamsVars(~crashed /\ o \in DOMAIN stream /\ CtxDone(o) /\ WriterEnds(o))

StreamsFairSpec == StreamsSpec /\ Fairness
-----------------------------------------------------------------------------
\* A stream on which close() was not called is in the table under its id, so
\* the browser's packets and Server.Close find it, even when the browser uses
\* the id of a stream that is still being closed.
LiveIsListed ==
  /\ StreamsTypeOK
  /\ \A o \in DOMAIN stream : stream[o].phase = "open" =>
       stream[o].id \in DOMAIN table /\ table[stream[o].id] = o

\* No TCP connection outlives its stream, whichever of connect and close comes first.
NoLeakedConnection ==
  \A o \in DOMAIN stream : stream[o].phase = "closed" => stream[o].conn # "open"

\* The goroutines of a closed stream end.
GoroutinesEnd ==
  \A o \in Streams :
    (o \in DOMAIN stream /\ stream[o].phase # "open")
      ~> (crashed \/ (/\ o \in DOMAIN stream
                      /\ stream[o].connect = "end" /\ stream[o].writer = "end"
                      /\ stream[o].reader \in {"none", "end"}))

\* When the channel is closed, every stream is closed, those opened while the
\* server was closing included.
ChannelCloseEndsAll ==
  closed ~> (crashed \/ \A o \in DOMAIN stream : stream[o].phase = "closed")

\* WISP_WEBRTC_BINDING.md: "if the PeerConnection closes, all streams are
\* cancelled".  A cancelled stream ends; no goroutine goes on with it.
CancelledStreamsEnd == ~crashed
=============================================================================

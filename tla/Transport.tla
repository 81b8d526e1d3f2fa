----------------------------- MODULE Transport -----------------------------
(***************************************************************************)
(* How a request of the proxied page reaches the data channel              *)
(* (web/src/controller-sw.js, scramjet.ts, compat.ts, rtc-stream.ts).      *)
(*                                                                         *)
(* The service worker hands a request to Scramjet's controller in the      *)
(* page, the controller to the transport it was given last, and the        *)
(* transport fetches one request at a time through Epoxy, whose packets    *)
(* wait for room in the channel.  loadRemote makes the controller and      *)
(* points it at a transport, with awaits in between.  Scramjet and Epoxy   *)
(* are external.  A run of the event loop up to an await is a step.        *)
(***************************************************************************)
EXTENDS Naturals, Sequences, FiniteSets

CONSTANTS
  Loads,        \* calls of loadRemote, each with a transport of its own, in order
  Requests,     \* requests the proxied page makes
  MaxAttempts,  \* routeReviveMaxAttempts
  High, Low,    \* highWaterMark, lowWaterMark, in packets
  NoLoad

ASSUME TransportAssumption ==
  /\ NoLoad \notin Loads
  /\ MaxAttempts \in Nat \ {0} /\ High \in Nat /\ Low \in 0..High

VARIABLES
  load,        \* load -> where its call is
  controller,  \* the module variable controller: the load that made it
  via,         \* controller -> the transport it uses
  iframe,      \* the last frame.go: its controller, and the load whose address it opened
  overlapped,  \* history: two calls of loadRemote were in progress at once
  chan,        \* transport -> its data channel
  request,     \* request -> where it is
  fetchQueue,  \* transport -> the requests chained on fetchQueue; the first one is fetching
  rejected     \* transport -> fetchQueue is a rejected promise for those that are chained on it

transportVars == <<load, controller, via, iframe, overlapped, chan, request, fetchQueue, rejected>>

\* Being registered, waited for, over; or not begun.
LoadPlaces == {"none", "register", "wait", "done", "failed"}

\* A closed channel has its close event due; the event runs ("told"), or never comes, which a
\* browser may do after RTCPeerConnection.close() ("silent").  ended is RTCWispTransport.closed;
\* falling: bufferedamountlow is due.
Channel == [state: {"none", "open", "closed", "told", "silent"}, ended: BOOLEAN,
            buffered: 0..(High + 1), falling: BOOLEAN]

RequestPlaces == {"none", "route", "request", "queued", "write", "blocked", "read", "body",
                  "answered", "failed"}

TransportTypeOK ==
  /\ load \in [Loads -> LoadPlaces]
  /\ controller \in Loads \cup {NoLoad} /\ via \in [Loads -> Loads \cup {NoLoad}]
  /\ iframe \in [controller: Loads \cup {NoLoad}, page: Loads \cup {NoLoad}]
  /\ overlapped \in BOOLEAN
  /\ chan \in [Loads -> Channel]
  /\ request \in [Requests -> [at: RequestPlaces, tries: 0..(MaxAttempts - 1), by: Loads \cup {NoLoad}]]
  /\ DOMAIN fetchQueue = Loads /\ \A t \in Loads : fetchQueue[t] \in Seq(Requests)
  /\ rejected \in [Loads -> BOOLEAN]

TransportInit ==
  /\ load = [l \in Loads |-> "none"]
  /\ controller = NoLoad /\ via = [l \in Loads |-> NoLoad]
  /\ iframe = [controller |-> NoLoad, page |-> NoLoad]
  /\ overlapped = FALSE
  /\ chan = [t \in Loads |-> [state |-> "none", ended |-> FALSE, buffered |-> 0, falling |-> FALSE]]
  /\ request = [r \in Requests |-> [at |-> "none", tries |-> 0, by |-> NoLoad]]
  /\ fetchQueue = [t \in Loads |-> << >>] /\ rejected = [t \in Loads |-> FALSE]
-----------------------------------------------------------------------------
\* n is the next of the names, which are interchangeable.
NextOf(n, names, used) == n \in names \ used /\ n = CHOOSE m \in names : m \notin used

Begun == {l \in Loads : load[l] # "none"}

Loading == {l \in Loads : load[l] \in {"register", "wait"}}

\* The channels when the page closes its connection: app.connect does so before it makes
\* another, and so do the buttons.  The event that follows is up to the browser.
Abandoned(event) ==
  [t \in Loads |-> IF chan[t].state = "open"
                   THEN [chan[t] EXCEPT !.state = IF event THEN "closed" ELSE "silent",
                                        !.falling = FALSE]
                   ELSE chan[t]]

\* The end of loadRemote: createFrame and go, with the controller the module has by now.
Shown(l, c) == iframe' = [controller |-> c, page |-> l]

\* A bug: only the first transport is ever used.
PointedNever(l) == via

\* setTransport: the controller uses the transport of l from now on.
Pointed(l) == [via EXCEPT ![controller] = l]

\* A connection for load l is there and loadRemote is called: without a controller it registers
\* the service worker, else the controller gets the transport and opens the address.
LoadRemote(l, event) ==
  /\ NextOf(l, Loads, Begun)
  /\ chan' = [Abandoned(event) EXCEPT ![l].state = "open"]
  /\ overlapped' = (overlapped \/ Loading # {})
  /\ IF controller = NoLoad
     THEN load' = [load EXCEPT ![l] = "register"] /\ UNCHANGED <<via, iframe>>
     ELSE /\ load' = [load EXCEPT ![l] = "done"]
          /\ via' = Pointed(l)
          /\ Shown(l, controller)
  /\ UNCHANGED <<controller, request, fetchQueue, rejected>>

\* activeServiceWorker returns a worker and the controller is made.
Registered(l) ==
  /\ load[l] = "register"
  /\ controller' = l /\ via' = [via EXCEPT ![l] = l]
  /\ load' = [load EXCEPT ![l] = "wait"]
  /\ UNCHANGED <<iframe, overlapped, chan, request, fetchQueue, rejected>>

\* activeServiceWorker throws; or controller.wait() does, and the controller stays.
NotReady(l) ==
  /\ load[l] \in {"register", "wait"} /\ load' = [load EXCEPT ![l] = "failed"]
  /\ UNCHANGED <<controller, via, iframe, overlapped, chan, request, fetchQueue, rejected>>

\* controller.wait() returns: the worker knows the controller.
Waited(l) ==
  /\ load[l] = "wait" /\ load' = [load EXCEPT ![l] = "done"]
  /\ Shown(l, controller)
  /\ UNCHANGED <<controller, via, overlapped, chan, request, fetchQueue, rejected>>
-----------------------------------------------------------------------------
Over == {"answered", "failed"}

RequestTo(r, place) ==
  request' = [request EXCEPT ![r].at = place, ![r].by = IF place \in Over THEN NoLoad ELSE @]

\* Embedded binary data is answered by the worker itself, with the bytes or with 400; anything
\* else is to be routed.
EmbeddedData(data) == IF data THEN "answered" ELSE "route"

\* The fetch event of a request under the proxy's path.
FetchEvent(r, data) ==
  /\ iframe.controller # NoLoad
  /\ NextOf(r, Requests, {q \in Requests : request[q].at # "none"})
  /\ RequestTo(r, EmbeddedData(data))
  /\ UNCHANGED <<load, controller, via, iframe, overlapped, chan, fetchQueue, rejected>>

\* Is this the last attempt?
OutOfTries(r) == request[r].tries + 1 = MaxAttempts

\* An attempt of routeProxyRequest.  The worker knows the controller of the page or, restarted
\* by the browser, does not know it yet.  The request goes to the controller, which asks its
\* transport; or the loop waits; or it has failed too often and the answer is 503.
Attempt(r, known) ==
  /\ request[r].at = "route"
  /\ request' = [request EXCEPT ![r] =
       CASE known -> [@ EXCEPT !.at = "request", !.tries = 0, !.by = via[iframe.controller]]
         [] ~known /\ OutOfTries(r) -> [@ EXCEPT !.at = "answered", !.tries = 0]
         [] OTHER -> [@ EXCEPT !.tries = request[r].tries + 1]]
  /\ UNCHANGED <<load, controller, via, iframe, overlapped, chan, fetchQueue, rejected>>

\* RTCEpoxyTransport.request, once init and the body have been awaited: the fetch is chained.
Enqueue(r) ==
  /\ request[r].at = "request" /\ RequestTo(r, "queued")
  /\ fetchQueue' = [fetchQueue EXCEPT ![request[r].by] = Append(@, r)]
  /\ UNCHANGED <<load, controller, via, iframe, overlapped, chan, rejected>>

\* A bug: a fetch does not wait for the one before it.
AtTurnAlways(r) == TRUE

\* The fetches before r have settled.
AtTurn(r) == Head(fetchQueue[request[r].by]) = r

\* A bug: fetchQueue is rejected with the fetch.
RejectsWithFetch(ok) == ~ok

\* Is fetchQueue rejected once a fetch has settled?  Both handlers return undefined.
Rejects(ok) == FALSE

\* The fetch of r settles, and with it the promise the next one is chained on.
Settle(r, ok, place) ==
  /\ RequestTo(r, place)
  /\ fetchQueue' = [fetchQueue EXCEPT ![request[r].by] = Tail(@)]
  /\ rejected' = [rejected EXCEPT ![request[r].by] = Rejects(ok)]
  /\ UNCHANGED <<load, controller, via, iframe, overlapped>>

\* The handler chained on fetchQueue starts the fetch; a rejection would skip it.
Start(r) ==
  /\ request[r].at = "queued" /\ AtTurn(r)
  /\ IF rejected[request[r].by]
     THEN Settle(r, FALSE, "failed")
     ELSE RequestTo(r, "write") /\ UNCHANGED <<load, controller, via, iframe, overlapped,
                                              fetchQueue, rejected>>
  /\ UNCHANGED chan

\* The write method of the WritableStream: it waits while too much is buffered, throws when the
\* channel is not open, or sends.
Write(r) == LET t == request[r].by IN
  /\ request[r].at = "write" /\ ~chan[t].ended
  /\ IF chan[t].buffered <= High /\ chan[t].state # "open"
     THEN Settle(r, FALSE, "failed") /\ UNCHANGED chan
     ELSE /\ IF chan[t].buffered > High
             THEN RequestTo(r, "blocked") /\ UNCHANGED chan
             ELSE RequestTo(r, "read") /\ chan' = [chan EXCEPT ![t].buffered = @ + 1]
          /\ UNCHANGED <<load, controller, via, iframe, overlapped, fetchQueue, rejected>>

\* Epoxy finds the reading side closed or in error: the fetch is rejected.
FetchEnded(r) ==
  /\ request[r].at \in {"write", "blocked", "read"} /\ chan[request[r].by].ended
  /\ Settle(r, FALSE, "failed") /\ UNCHANGED chan

\* The response's headers arrive, or the Agent ends the stream.  A document is then read to its
\* end, outside the queue; other bodies are passed on as streams.
Respond(r, place) ==
  /\ request[r].at = "read" /\ chan[request[r].by].state = "open"
  /\ ~chan[request[r].by].ended
  /\ Settle(r, place # "failed", place) /\ UNCHANGED chan

BodyRead(r) == LET c == chan[request[r].by] IN
  /\ request[r].at = "body"
  /\ \/ c.state = "open" /\ ~c.ended /\ RequestTo(r, "answered")
     \/ c.ended /\ RequestTo(r, "failed")
  /\ UNCHANGED <<load, controller, via, iframe, overlapped, chan, fetchQueue, rejected>>
-----------------------------------------------------------------------------
ChannelStep == UNCHANGED <<load, controller, via, iframe, overlapped, fetchQueue, rejected>>

\* Another user of the transport, a WebSocket or a body, writes under the same condition; the
\* WritableStream takes one write after the other.  It is left out while no request could meet it.
OtherWrite(t) ==
  /\ chan[t].state = "open" /\ ~chan[t].ended /\ chan[t].buffered <= High
  /\ \E r \in Requests : request[r].by = t /\ request[r].at \in {"request", "queued"}
  /\ \A r \in Requests : request[r].by = t => request[r].at \notin {"write", "blocked"}
  /\ chan' = [chan EXCEPT ![t].buffered = @ + 1]
  /\ UNCHANGED request /\ ChannelStep

\* The network takes a packet.
Drain(t) ==
  /\ chan[t].state = "open" /\ chan[t].buffered > 0
  /\ chan' = [chan EXCEPT ![t].buffered = @ - 1, ![t].falling = @ \/ chan[t].buffered = Low + 1]
  /\ UNCHANGED request /\ ChannelStep

\* The requests of t that wait for an event go on.
Woken(t) ==
  [r \in Requests |-> IF request[r].by = t /\ request[r].at = "blocked"
                      THEN [request[r] EXCEPT !.at = "write"] ELSE request[r]]

OnBufferedAmountLow(t) ==
  /\ chan[t].falling /\ chan' = [chan EXCEPT ![t].falling = FALSE]
  /\ request' = Woken(t) /\ ChannelStep

\* The close event: the reading side ends, and nothing looks at the buffer again.
OnClose(t) ==
  /\ chan[t].state = "closed"
  /\ chan' = [chan EXCEPT ![t] = [state |-> "told", ended |-> TRUE, buffered |-> 0,
                                  falling |-> FALSE]]
  /\ UNCHANGED request /\ ChannelStep

\* abort: the reading side ends in an error.
Broken(t) == [chan EXCEPT ![t].ended = TRUE]

\* A text packet or an error event breaks the transport with the channel still open.
Abort(t) ==
  /\ chan[t].state = "open" /\ ~chan[t].ended
  /\ chan' = Broken(t)
  /\ UNCHANGED request /\ ChannelStep

\* The Agent closes the channel.
RemoteCloses(t) ==
  /\ chan[t].state = "open" /\ chan' = [chan EXCEPT ![t].state = "closed"]
  /\ UNCHANGED request /\ ChannelStep

\* The page closes its connection: a button, a loss, a failure.
PageCloses(event) ==
  /\ chan' = Abandoned(event) /\ chan' # chan
  /\ UNCHANGED request /\ ChannelStep

LoadStep(l) == Registered(l) \/ NotReady(l) \/ Waited(l)

RequestStep(r) ==
  \/ \E known \in BOOLEAN : Attempt(r, known)
  \/ Enqueue(r) \/ Start(r) \/ Write(r) \/ FetchEnded(r) \/ BodyRead(r)

Responds(r) == \E place \in {"answered", "body", "failed"} : Respond(r, place)

TransportNext ==
  \/ \E l \in Loads : LoadStep(l) \/ \E event \in BOOLEAN : LoadRemote(l, event)
  \/ \E r \in Requests :
       RequestStep(r) \/ Responds(r) \/ \E data \in BOOLEAN : FetchEvent(r, data)
  \/ \E t \in Loads :
       \/ OtherWrite(t) \/ Drain(t) \/ OnBufferedAmountLow(t)
       \/ OnClose(t) \/ Abort(t) \/ RemoteCloses(t)
  \/ \E event \in BOOLEAN : PageCloses(event)

\* The page's and the worker's event loops run; the network drains an open channel; the target
\* answers a request it was sent, or the Agent ends its stream.  Nothing is assumed of the loads.
TransportFairness ==
  /\ \A r \in Requests : WF_transportVars(RequestStep(r) \/ Responds(r))
  /\ \A t \in Loads :
       WF_transportVars(Drain(t)) /\ WF_transportVars(OnBufferedAmountLow(t) \/ OnClose(t))

TransportSpec == TransportInit /\ [][TransportNext]_transportVars /\ TransportFairness
-----------------------------------------------------------------------------
\* A transport has one fetch under way at a time, the oldest that was chained, however the
\* fetches before it ended; only reading a document overlaps with the next.
FetchesInTurn ==
  /\ TransportTypeOK
  /\ \A t \in Loads, r \in Requests :
       request[r].by = t /\ request[r].at \in {"write", "blocked", "read"} =>
         fetchQueue[t] # << >> /\ Head(fetchQueue[t]) = r

\* The page in the frame talks through the transport of the service it belongs to: the controller
\* of the frame uses the connection of the load whose address the frame shows, except after
\* two calls of loadRemote overlapped, when the first call's address replaces the second's.
OnlyOverlapMixes ==
  Loading = {} /\ iframe.page # NoLoad /\ ~overlapped => via[iframe.controller] = iframe.page

\* A step leaves a chained request in its queue or starts its fetch.
OwnFetch == \A r \in Requests : request[r].at = "queued" => request'[r].at \in {"queued", "write"}

\* Every request of the page is answered or fails, also behind a fetch that failed, with a full
\* buffer, after the worker lost its state or when the connection goes away; and one that was
\* chained gets a fetch of its own, not the failure of one before it.  The exception is
\* a connection that the page closed and whose close event the browser leaves out.  Assumed is
\* that a target answers what it was sent, or the Agent ends the stream: the queue has no
\* timeout, and a target that does neither holds it up.
RequestsAnswered ==
  /\ []<>(\A r \in Requests :
            \/ request[r].at \in Over \cup {"none"}
            \/ request[r].by # NoLoad /\ chan[request[r].by].state = "silent")
  /\ [][OwnFetch]_request
=============================================================================

------------------------------ MODULE Control ------------------------------
(***************************************************************************)
(* The data channels of one peer connection: authentication of a channel,  *)
(* and the requests of the control channel.  The browser's side is         *)
(* authenticateWisp, authenticateControl and ControlClient of              *)
(* web/src/connection.ts; the Agent's is onDataChannel, handleControl,     *)
(* prepareTemporary, runDiagnostic and sendControl of                      *)
(* internal/agent/runtime.go.                                              *)
(*                                                                         *)
(* The channels are reliable and ordered.  The Agent reads one message of  *)
(* a channel at a time; its diagnostics are goroutines, of which the       *)
(* channel diagnosticSlots allows two.  The page asks for a temporary      *)
(* target once, before anything else; the Agent does not rely on it, and   *)
(* ControlClient takes requests in any order here.                         *)
(***************************************************************************)
EXTENDS Naturals, Sequences, FiniteSets

CONSTANTS
  Requests,  \* calls of ControlClient.request, each with its control id
  Streams,   \* the Wisp channels
  Slots,     \* capacity of diagnosticSlots
  MaxLabels, \* how many labels a peer may reserve
  Found,     \* how many addresses a lookup can find
  None       \* nil

CONTROL == "webvpn-control-v1"
Channels == Streams \cup {CONTROL}

ASSUME ControlAssumption ==
  /\ CONTROL \notin Streams /\ IsFiniteSet(Streams)
  /\ None \notin Requests
  /\ Slots \in Nat /\ MaxLabels \in Nat /\ Found \subseteq Nat
  /\ Cardinality(Channels) <= MaxLabels

VARIABLES
  temporary, \* current.temporary
  target,    \* current.temporaryTarget: the request it came from, or None
  labels,    \* current.labels
  agent,     \* agent[c]: the handler the Agent has on c, or "closed"
  browser,   \* browser[c]: the message the browser awaits on c, or "done"
  ready,     \* ready[c]: readyState of c in the browser
  up, down,  \* up[c], down[c]: messages on their way to the Agent, to the browser
  request,   \* request[r]: a request, its timer and what became of its promise
  work,      \* work[r]: where the goroutine that serves r is, and the result it sends
  slots,     \* how many slots are taken
  clash      \* history: a side closed a channel over a message it did not expect

vars == <<temporary, target, labels, agent, browser, ready, up, down, request, work, slots, clash>>

Results == {"diagnostic_result", "temporary_result"}

\* A result as its readers tell it apart: longer than 512 bytes; with a code the browser
\* does not know; ok, to a temporary target; any other, which is shown to the user and no more.
Codes == {"long", "unlisted", "ok", "other"}

\* A request as handleControl tells it apart: longer than 512 bytes; not decoded; decoded,
\* with a field too many, too few or wrong; valid.
Forms == {"long", "malformed", "invalid", "valid"}

\* The cases of handleControl, dns and diagnostic_ping being one, that answer with a result.
Kinds == {"diagnostic", "temporary_target"}

\* A message that is a text.
Text(t) == [type |-> t]

TypeOK ==
  /\ temporary \in BOOLEAN
  /\ target \in Requests \cup {None}
  /\ labels \subseteq Channels
  /\ agent \in [Channels -> {"auth", "ready", "serving", "closed"}]
  /\ browser \in [Channels -> {"auth-ok", "pong", "done"}]
  /\ ready \in [Channels -> {"open", "closing", "closed"}]
  /\ request \in [Requests -> [state: {"idle", "pending", "resolved", "rejected"}, timer: BOOLEAN,
                               type: Results \cup {None}, code: Codes \cup {None}]]
  /\ work \in [Requests -> [at: {"idle", "check", "prepare", "commit", "diagnostic", "send",
                                 "release"},
                            type: Results \cup {None}, code: Codes \cup {None}]]
  /\ slots \in 0..Slots
  /\ clash \in BOOLEAN

\* All channels are open, and the browser has sent the capability on each in one task.
Init ==
  /\ temporary \in BOOLEAN
  /\ target = None
  /\ labels = {}
  /\ agent = [c \in Channels |-> "auth"]
  /\ browser = [c \in Channels |-> "auth-ok"]
  /\ ready = [c \in Channels |-> "open"]
  /\ up = [c \in Channels |-> <<Text("auth")>>]
  /\ down = [c \in Channels |-> <<>>]
  /\ request = [r \in Requests |-> [state |-> "idle", timer |-> FALSE, type |-> None, code |-> None]]
  /\ work = [r \in Requests |-> [at |-> "idle", type |-> None, code |-> None]]
  /\ slots = 0
  /\ clash = FALSE
-----------------------------------------------------------------------------
(***************************************************************************)
(* Messages.  One is recorded as its reader will tell it apart.            *)
(***************************************************************************)
\* The case of handleControl a type leads to.
Kind(type) ==
  CASE type \in {"dns", "diagnostic_ping"} -> "diagnostic"
    [] type \in {"temporary_target", "ping"} -> type
    [] OTHER -> "default"

\* The fields that may and must have a value besides the type.
Fields(type) ==
  CASE type = "dns" -> {"id", "name"}
    [] type = "diagnostic_ping" -> {"id"}
    [] type = "temporary_target" -> {"id", "host", "port", "kind"}
    [] OTHER -> {}

\* The fields of the struct handleControl decodes into; others are refused.
Known == {"id", "name", "host", "port", "kind"}

\* A message of that type with those fields, whose values are valid, invalid or too long.
Request(r, type, fields, values) ==
  [type |-> Kind(type), id |-> r,
   form |-> IF values = "long" THEN "long"
            ELSE IF ~(fields \subseteq Known) THEN "malformed"
            ELSE IF fields # Fields(type) THEN "invalid" ELSE values]

\* The codes receive lets through.
Listed == {"ok", "blocked", "unavailable", "busy", "invalid_request"}

\* An upper bound of the bytes of a result with n addresses, of at most 39 bytes each.
Length(n) == 79 + 42 * n

\* A result with that code and n addresses.
Told(type, code, n) ==
  IF Length(n) > 512 THEN "long"
  ELSE IF code \notin Listed THEN "unlisted"
  ELSE IF type = "temporary_result" /\ code = "ok" THEN "ok" ELSE "other"

Result(r, type, code) == [type |-> type, id |-> r, code |-> code]

\* The type of the Agent's answer to a request.
ResultType(kind) == IF kind = "temporary_target" THEN "temporary_result" ELSE "diagnostic_result"

\* The type ControlClient expects.
ExpectedType(type) == IF type = "temporary_target" THEN "temporary_result" ELSE "diagnostic_result"
-----------------------------------------------------------------------------
(***************************************************************************)
(* Handlers, and the end of channels.                                      *)
(***************************************************************************)
\* The handler h of the Agent on channel c gets a message.
Arrives(c, h) == agent[c] = h /\ up[c] # <<>>

\* The handler sends the messages ms and leaves handler next on c.
AgentAnswers(c, ms, next) ==
  /\ up' = [up EXCEPT ![c] = IF next = "closed" THEN <<>> ELSE Tail(@)]
  /\ down' = [down EXCEPT ![c] = @ \o ms]
  /\ agent' = [agent EXCEPT ![c] = next]

\* A message event of the browser: only an open channel has them.
Delivered(c) ==
  /\ ready[c] = "open" /\ down[c] # <<>>
  /\ down' = [down EXCEPT ![c] = Tail(@)]

\* A request whose promise was rejected.
Rejected == [state |-> "rejected", timer |-> FALSE, type |-> None, code |-> None]

\* A bug: the timers are cleared and the promises forgotten.
FailAllQuietly(q) == [q EXCEPT !.timer = FALSE]

\* failAll, for one request.
FailAll(q) == IF q.state = "pending" THEN Rejected ELSE q

\* failP2P, disconnect, logout: closing the RTCPeerConnection fires no close events.
PageCloses ==
  /\ ready' = [c \in Channels |-> "closed"]
  /\ down' = [c \in Channels |-> <<>>]

\* The page closes the connection, also because a promise of textMessage timed out.
PeerClosedByPage ==
  /\ \E c \in Channels : ready[c] # "closed"
  /\ PageCloses
  /\ UNCHANGED <<temporary, target, labels, agent, browser, up, request, work, slots, clash>>

\* The Agent's peer is closed, whatever the reason; also because the page closed it.
PeerClosedByAgent ==
  /\ \E c \in Channels : agent[c] # "closed"
  /\ agent' = [c \in Channels |-> "closed"]
  /\ up' = [c \in Channels |-> <<>>]
  /\ UNCHANGED <<temporary, target, labels, browser, ready, down, request, work, slots, clash>>

\* The close event of channel c: textMessage rejects, and connect fails; or failAll.
CloseEvent(c) ==
  /\ c = CONTROL \/ browser[c] # "done"
  /\ ready[c] = "closing" \/ (ready[c] = "open" /\ agent[c] = "closed")
  /\ IF browser[c] # "done"
     THEN PageCloses /\ UNCHANGED request
     ELSE /\ ready' = [ready EXCEPT ![c] = "closed"]
          /\ down' = [down EXCEPT ![c] = <<>>]
          /\ request' = IF c = CONTROL THEN [r \in Requests |-> FailAll(request[r])] ELSE request
  /\ UNCHANGED <<temporary, target, labels, agent, browser, up, work, slots, clash>>
-----------------------------------------------------------------------------
(***************************************************************************)
(* Authentication.                                                         *)
(***************************************************************************)
\* reserveLabel.
Reservable(c) == c \notin labels /\ Cardinality(labels) < MaxLabels

\* The first handler of onDataChannel.
Authenticate(c) ==
  /\ Arrives(c, "auth")
  /\ IF Head(up[c]) = Text("auth") /\ Reservable(c)
     THEN /\ labels' = labels \cup {c}
          /\ \/ AgentAnswers(c, <<Text("auth-ok")>>, IF c = CONTROL THEN "serving" ELSE "ready")
             \/ AgentAnswers(c, <<>>, "closed")  \* SendText failed
          /\ UNCHANGED clash
     ELSE /\ AgentAnswers(c, <<>>, "closed")
          /\ clash' = TRUE
          /\ UNCHANGED labels
  /\ UNCHANGED <<temporary, target, browser, ready, request, work, slots>>

\* The second handler of a Wisp channel starts the server, whose packets are not modelled here.
Ready(c) ==
  /\ Arrives(c, "ready")
  /\ IF Head(up[c]) = Text("auth-ready")
     THEN /\ \/ AgentAnswers(c, <<>>, "serving")
             \/ AgentAnswers(c, <<>>, "closed")  \* Start failed
          /\ UNCHANGED clash
     ELSE AgentAnswers(c, <<>>, "closed") /\ clash' = TRUE
  /\ UNCHANGED <<temporary, target, labels, browser, ready, request, work, slots>>

\* authenticateControl goes on with a ping; authenticateWisp makes the transport and tells
\* the Agent.
Authenticated(c) ==
  /\ browser' = [browser EXCEPT ![c] = IF c = CONTROL THEN "pong" ELSE "done"]
  /\ up' = IF agent[c] = "closed" THEN up
           ELSE [up EXCEPT ![c] = Append(@, IF c = CONTROL THEN Request(None, "ping", {}, "valid")
                                            ELSE Text("auth-ready"))]

\* textMessage gets a message; one that is not the expected one fails the connection.
Awaited(c) ==
  /\ browser[c] # "done" /\ ready[c] = "open" /\ down[c] # <<>>
  /\ IF Head(down[c]) # Text(browser[c])
     THEN PageCloses /\ clash' = TRUE /\ UNCHANGED <<browser, up>>
     ELSE /\ Delivered(c)
          /\ \/ browser[c] = "auth-ok" /\ Authenticated(c)
             \/ browser[c] = "pong" /\ browser' = [browser EXCEPT ![c] = "done"] /\ UNCHANGED up
          /\ UNCHANGED <<ready, clash>>
  /\ UNCHANGED <<temporary, target, labels, agent, request, work, slots>>
-----------------------------------------------------------------------------
(***************************************************************************)
(* ControlClient.                                                          *)
(***************************************************************************)
\* A control id that was not used.
Unused(r) == r = CHOOSE q \in Requests : request[q].state = "idle"

\* request, once connect has all channels.
Ask(r, type, fields, values) ==
  /\ \A c \in Channels : browser[c] = "done"
  /\ request[r].state = "idle" /\ Unused(r)
  /\ \/ /\ ready[CONTROL] # "open"
        /\ request' = [request EXCEPT ![r] = Rejected]
        /\ UNCHANGED up
     \/ /\ ready[CONTROL] = "open"
        /\ request' = [request EXCEPT ![r] = [state |-> "pending", timer |-> TRUE,
                                              type |-> ExpectedType(type), code |-> None]]
        /\ up' = IF agent[CONTROL] = "closed" THEN up
                 ELSE [up EXCEPT ![CONTROL] = Append(@, Request(r, type, fields, values))]
  /\ UNCHANGED <<temporary, target, labels, agent, browser, ready, down, work, slots, clash>>

\* The buttons of the page.  The name of a DNS query is free text.
Dns(r, values) == Ask(r, "dns", {"id", "name"}, values)

PingTarget(r) == Ask(r, "diagnostic_ping", {"id"}, "valid")

\* configureTemporary, with what parseTemporaryURL made of the user's URL, whose host can be
\* any length; what it throws is up to connect.
ConfigureTemporary(r, values) ==
  Ask(r, "temporary_target", {"id", "host", "port", "kind"}, values)

\* The timer of request r.
Timeout(r) ==
  /\ request[r].timer
  /\ request' = [request EXCEPT ![r] = Rejected]
  /\ UNCHANGED <<temporary, target, labels, agent, browser, ready, up, down, work, slots, clash>>

\* Does receive close the channel over m, whatever is pending?
Unreadable(m) == m.type \notin Results \/ m.code \in {"long", "unlisted"}

\* receive: a message it cannot read, or of a type the request does not expect, closes the
\* channel; a result that nobody waits for any more is ignored.
Receive ==
  LET m == Head(down[CONTROL])
      awaited == ~Unreadable(m) /\ request[m.id].state = "pending"
  IN
  /\ browser[CONTROL] = "done"
  /\ Delivered(CONTROL)
  /\ IF Unreadable(m) \/ (awaited /\ m.type # request[m.id].type)
     THEN ready' = [ready EXCEPT ![CONTROL] = "closing"] /\ clash' = TRUE
     ELSE UNCHANGED <<ready, clash>>
  /\ request' = IF awaited /\ m.type = request[m.id].type
                THEN [request EXCEPT ![m.id].state = "resolved", ![m.id].timer = FALSE,
                                     ![m.id].code = m.code]
                ELSE request
  /\ UNCHANGED <<temporary, target, labels, agent, browser, up, work, slots>>
-----------------------------------------------------------------------------
(***************************************************************************)
(* handleControl.                                                          *)
(***************************************************************************)
Answers(ms, next) == AgentAnswers(CONTROL, ms, next)

\* sendControl in the handler's own goroutine, with a message that is short enough.
Sends(m) == Answers(<<m>>, "serving") \/ Answers(<<>>, "closed")

\* Does handleControl close the channel over m, which is short enough?
Unexpected(m) ==
  \/ m.type \notin Kinds \cup {"ping"}
  \/ m.form = "malformed"
  \/ m.type = "ping" /\ m.form # "valid"

\* Is m a request that handleControl answers at once?
Invalid(m) == m.form = "invalid" \/ (m.type = "temporary_target" /\ ~temporary)

\* The select on diagnosticSlots.
SlotFree == slots < Slots

\* handleControl gets a request that it refuses, or serves in a goroutine of its own.
HandleRequest(m) ==
  LET refusal(code) == Result(m.id, ResultType(m.type), Told(ResultType(m.type), code, 0)) IN
  \/ Invalid(m) /\ Sends(refusal("invalid_request")) /\ UNCHANGED <<work, slots>>
  \/ ~Invalid(m) /\ ~SlotFree /\ Sends(refusal("busy")) /\ UNCHANGED <<work, slots>>
  \/ /\ ~Invalid(m) /\ SlotFree
     /\ Answers(<<>>, "serving")
     /\ work' = [work EXCEPT ![m.id] =
                   [at |-> IF m.type = "temporary_target" THEN "check" ELSE m.type,
                    type |-> ResultType(m.type), code |-> None]]
     /\ slots' = slots + 1

\* handleControl.
Handle ==
  LET m == Head(up[CONTROL]) IN
  /\ Arrives(CONTROL, "serving")
  /\ IF m.form # "long" /\ Unexpected(m)
     THEN Answers(<<>>, "closed") /\ clash' = TRUE /\ UNCHANGED <<work, slots>>
     ELSE /\ \/ m.form = "long" /\ Answers(<<>>, "closed") /\ UNCHANGED <<work, slots>>
             \/ /\ m.form # "long" /\ m.type = "ping"
                /\ Sends(Text("pong"))
                /\ UNCHANGED <<work, slots>>
             \/ m.form # "long" /\ m.type # "ping" /\ HandleRequest(m)
          /\ UNCHANGED clash
  /\ UNCHANGED <<temporary, target, labels, browser, ready, request>>
-----------------------------------------------------------------------------
(***************************************************************************)
(* The goroutines.                                                         *)
(***************************************************************************)
Goes(r, at, code) == work' = [work EXCEPT ![r].at = at, ![r].code = code]

\* The goroutine calls sendControl with a result.
Replies(r, type, code, n) == Goes(r, "send", Told(type, code, n))

\* diagnosticCode of an error.
DiagnosticCodes == {"blocked", "unavailable"}

\* prepareTemporary: the first look at temporaryTarget.
Check(r) ==
  /\ work[r].at = "check"
  /\ IF target # None THEN Replies(r, "temporary_result", "invalid_request", 0)
     ELSE Goes(r, "prepare", None)
  /\ UNCHANGED <<temporary, target, labels, agent, browser, ready, up, down, request, slots, clash>>

\* PrepareTemporary, without the lock.
Prepare(r) ==
  /\ work[r].at = "prepare"
  /\ \/ Goes(r, "commit", None)
     \/ \E code \in DiagnosticCodes : Replies(r, "temporary_result", code, 0)
  /\ UNCHANGED <<temporary, target, labels, agent, browser, ready, up, down, request, slots, clash>>

\* A bug: the target is not looked at again.
VacantAssumed == TRUE

\* Is temporaryTarget still nil, when the lock is taken again?
Vacant == target = None

\* A bug: whoever gets here says ok.
VerdictOk == "ok"

\* The answer of prepareTemporary after its second look.
Verdict == IF Vacant THEN "ok" ELSE "invalid_request"

\* The second look, and the assignment.
Commit(r) ==
  /\ work[r].at = "commit"
  /\ target' = IF Vacant THEN r ELSE target
  /\ Replies(r, "temporary_result", Verdict, 0)
  /\ UNCHANGED <<temporary, labels, agent, browser, ready, up, down, request, slots, clash>>

\* A bug: a result names all addresses, however many there are.
ShownAll(n) == n

\* How many of n addresses a result names.
Shown(n) == IF n > 8 THEN 8 ELSE n

\* runDiagnostic: a failure, the round trip of a ping, or the addresses of a lookup.
RunDiagnostic(r) ==
  /\ work[r].at = "diagnostic"
  /\ \/ \E code \in DiagnosticCodes \cup {"ok"} : Replies(r, "diagnostic_result", code, 0)
     \/ \E n \in Found : Replies(r, "diagnostic_result", "ok", Shown(n))
  /\ UNCHANGED <<temporary, target, labels, agent, browser, ready, up, down, request, slots, clash>>

\* sendControl in a goroutine; nothing happens on a channel that is closed.
SendControl(r) ==
  /\ work[r].at = "send"
  /\ Goes(r, "release", None)
  /\ IF agent[CONTROL] = "closed" THEN UNCHANGED <<agent, up, down, clash>>
     ELSE IF work[r].code = "long"
     THEN /\ agent' = [agent EXCEPT ![CONTROL] = "closed"]
          /\ up' = [up EXCEPT ![CONTROL] = <<>>]
          /\ clash' = TRUE
          /\ UNCHANGED down
     ELSE /\ \/ /\ down' = IF ready[CONTROL] = "closed" THEN down
                         ELSE [down EXCEPT ![CONTROL] =
                                 Append(@, Result(r, work[r].type, work[r].code))]
                /\ UNCHANGED <<agent, up>>
             \/ /\ agent' = [agent EXCEPT ![CONTROL] = "closed"]  \* SendText failed
                /\ up' = [up EXCEPT ![CONTROL] = <<>>]
                /\ UNCHANGED down
          /\ UNCHANGED clash
  /\ UNCHANGED <<temporary, target, labels, browser, ready, request, slots>>

\* A bug: the slot is not given back when the channel is gone.
ReturnedIfOpen(r) == IF agent[CONTROL] = "closed" THEN slots ELSE slots - 1

\* The slots without the one of r.
Returned(r) == slots - 1

\* The deferred receive from diagnosticSlots.
Release(r) ==
  /\ work[r].at = "release"
  /\ slots' = Returned(r)
  /\ work' = [work EXCEPT ![r] = [at |-> "idle", type |-> None, code |-> None]]
  /\ UNCHANGED <<temporary, target, labels, agent, browser, ready, up, down, request, clash>>
-----------------------------------------------------------------------------
Goroutine(r) ==
  Check(r) \/ Prepare(r) \/ Commit(r) \/ RunDiagnostic(r) \/ SendControl(r) \/ Release(r)

Next ==
  \/ PeerClosedByPage \/ PeerClosedByAgent
  \/ \E c \in Channels : CloseEvent(c) \/ Authenticate(c) \/ Ready(c)
                         \/ Awaited(c)
  \/ \E r \in Requests : \/ \E values \in {"valid", "invalid", "long"} : Dns(r, values)
                         \/ PingTarget(r)
                         \/ \E values \in {"valid", "long"} : ConfigureTemporary(r, values)
  \/ \E r \in Requests : Timeout(r) \/ Goroutine(r)
  \/ Receive \/ Handle

\* Timers fire, and goroutines run: their lookups and pings have timeouts.  Which of them is
\* next does not matter, since each takes finitely many steps.
Fairness == WF_vars(\E r \in Requests : Timeout(r)) /\ WF_vars(\E r \in Requests : Goroutine(r))

Spec == Init /\ [][Next]_vars /\ Fairness
-----------------------------------------------------------------------------
(***************************************************************************)
(* Properties.                                                             *)
(***************************************************************************)
\* The two implementations agree on the protocol: whatever the order of requests, answers,
\* timeouts and refusals, no side closes a channel because of what the other has sent, its
\* type, fields, code or length, nor because its own result has become too long.  The one
\* exception is a request of more than 512 bytes, which the page does not prevent.
ProtocolAgreed == TypeOK /\ ~clash

\* A temporary target is set at most once, although two goroutines can both find it nil and
\* prepare theirs without the lock.
TargetSetOnce == [][target # None => target' = target]_target

\* A caller that was told "ok" has its own target in use, not that of a concurrent request.
OkMeansTarget ==
  \A r \in Requests :
    request[r].state = "resolved" /\ request[r].type = "temporary_result" /\ request[r].code = "ok"
      => target = r

\* Every request is settled, by its answer, its timer or the close event, also when the
\* connection is closed without close events: again and again none is pending.
RequestsSettle == []<>(\A r \in Requests : request[r].state # "pending")

\* Whenever all slots are taken one comes back, whatever became of the requests and the channel.
BusyEnds == []<>(slots < Slots)
=============================================================================

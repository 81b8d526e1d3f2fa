---------------------------- MODULE ControlProofs ----------------------------
(***************************************************************************)
(* Proofs for any number of requests, Wisp channels and slots.  The        *)
(* temporary target is set once, and only its own request hears ok.  The   *)
(* two sides agree on the protocol: neither meets a message it does not    *)
(* expect.                                                                 *)
(***************************************************************************)
EXTENDS Control, FiniteSetTheorems, TLAPS

\* What the page makes of a request, and the Agent of a result: the request is
\* never malformed, the result neither too long nor of an unknown code.
Sent == {"long", "invalid", "valid"}
Said == {"ok", "other"}

\* The ping of authenticateControl.
PingMsg == Request(None, "ping", {}, "valid")

\* The messages on their way to the Agent, and to the browser.
UpMsg == [type: {"auth", "auth-ready"}] \cup {PingMsg} \cup [type: Kinds, id: Requests, form: Sent]

DownMsg == [type: {"auth-ok", "pong"}] \cup [type: Results \cup {None}, id: Requests, code: Said]

Work == [at: {"idle", "check", "prepare", "commit", "diagnostic", "send", "release"},
         type: Results \cup {None}, code: Codes \cup {None}]

Asked == [state: {"idle", "pending", "resolved", "rejected"}, timer: BOOLEAN,
          type: Results \cup {None}, code: Codes \cup {None}]

Typed ==
  /\ target \in Requests \cup {None}
  /\ up \in [Channels -> Seq(UpMsg)]
  /\ down \in [Channels -> Seq(DownMsg)]
  /\ work \in [Requests -> Work]
  /\ request \in [Requests -> Asked]

\* A message that says ok names the request whose target is in use.
Honest(m) == m.type \in Results /\ m.code = "ok" => m.id = target

\* Wherever an ok is, in a goroutine, on its way or with the caller, the
\* target is that of its request.
OkInv ==
  /\ Typed
  /\ \A r \in Requests :
       work[r].at = "send" => work[r].code \in Said /\ (work[r].code = "ok" => target = r)
  /\ \A i \in 1..Len(down[CONTROL]) : Honest(down[CONTROL][i])
  /\ \A r \in Requests : request[r].state = "resolved" /\ request[r].code = "ok" => target = r
-----------------------------------------------------------------------------
\* The control channel is a channel.
LEMMA ControlChannel == CONTROL \in Channels
BY DEF Channels

\* Appending a message of the right type.
LEMMA AppendTyped ==
  ASSUME NEW S, NEW s \in Seq(S), NEW m \in S
  PROVE  Append(s, m) \in Seq(S)
OBVIOUS

\* A queue that loses its head or is emptied keeps its type.
LEMMA TailTyped ==
  ASSUME NEW S, NEW s \in Seq(S), s # <<>>
  PROVE  /\ Tail(s) \in Seq(S) /\ Head(s) \in S
         /\ Head(s) = s[1] /\ 1 \in 1..Len(s)
         /\ \A i \in 1..Len(Tail(s)) : i + 1 \in 1..Len(s) /\ Tail(s)[i] = s[i + 1]
OBVIOUS

\* What is in a queue after a message was added to it.
LEMMA Appended ==
  ASSUME NEW S, NEW s \in Seq(S), NEW m \in S
  PROVE  \A i \in 1..Len(Append(s, m)) :
           (i \in 1..Len(s) /\ Append(s, m)[i] = s[i]) \/ Append(s, m)[i] = m
OBVIOUS

\* What AgentAnswers does to the queues, for at most one message.
LEMMA AnswerTyped ==
  ASSUME OkInv, NEW c \in Channels, up[c] # <<>>, NEW next,
         NEW ms \in {<<>>} \cup {<<m>> : m \in DownMsg}, AgentAnswers(c, ms, next),
         \A i \in 1..Len(ms) : Honest(ms[i])
  PROVE  /\ up' \in [Channels -> Seq(UpMsg)]
         /\ down' \in [Channels -> Seq(DownMsg)]
         /\ \A i \in 1..Len(down'[CONTROL]) : Honest(down'[CONTROL][i])
<1>1. up[c] \in Seq(UpMsg) /\ down[c] \in Seq(DownMsg)
  BY DEF OkInv, Typed
<1>2. up' \in [Channels -> Seq(UpMsg)]
  <2>1. Tail(up[c]) \in Seq(UpMsg) /\ <<>> \in Seq(UpMsg)
    BY <1>1, TailTyped
  <2>. QED
    BY <2>1 DEF AgentAnswers, OkInv, Typed
<1>3. ms \in Seq(DownMsg)
  <2>1. CASE ms = <<>>
    BY <2>1
  <2>2. CASE ms # <<>>
    <3>1. PICK m \in DownMsg : ms = <<m>>
      BY <2>2
    <3>. QED
      BY <3>1
  <2>. QED
    BY <2>1, <2>2
<1>4. PICK s \in Seq(DownMsg) : s = down[c] \o ms
  <2>1. down[c] \o ms \in Seq(DownMsg)
    BY <1>1, <1>3
  <2>. QED
    BY Zenon, <2>1
<1>5. down' = [down EXCEPT ![c] = s]
  BY <1>4 DEF AgentAnswers
<1>6. down' \in [Channels -> Seq(DownMsg)]
  BY <1>5 DEF OkInv, Typed
<1>7. CASE c # CONTROL
  <2>1. down'[CONTROL] = down[CONTROL]
    BY <1>5, <1>7, ControlChannel DEF OkInv, Typed
  <2>. QED
    BY <1>2, <1>6, <2>1 DEF OkInv
<1>8. CASE c = CONTROL
  <2>1. ASSUME NEW i \in 1..Len(s) PROVE Honest(s[i])
    <3>1. Len(s) = Len(down[c]) + Len(ms)
          /\ s[i] = IF i <= Len(down[c]) THEN down[c][i] ELSE ms[i - Len(down[c])]
      BY <1>1, <1>3, <1>4, <2>1
    <3>2. CASE i <= Len(down[c])
      <4>1. i \in 1..Len(down[c])
        BY <1>1, <3>2
      <4>. QED
        BY <1>8, <3>1, <3>2, <4>1 DEF OkInv
    <3>3. CASE ~(i <= Len(down[c]))
      <4>1. Len(s) \in Nat /\ Len(down[c]) \in Nat /\ Len(ms) \in Nat
        BY <1>1, <1>3, <1>4
      <4>2. i - Len(down[c]) \in 1..Len(ms)
        BY <3>1, <3>3, <4>1
      <4>. QED
        BY <3>1, <3>3, <4>2
    <3>. QED
      BY <3>2, <3>3
  <2>2. down'[CONTROL] = s
    BY <1>5, <1>8, ControlChannel DEF OkInv, Typed
  <2>. QED
    BY <1>2, <1>6, <2>1, <2>2
<1>. QED
  BY <1>2, <1>6, <1>7, <1>8
-----------------------------------------------------------------------------
\* The messages and records the steps write have their types.
LEMMA WritesTyped ==
  /\ Text("auth-ok") \in DownMsg /\ Text("pong") \in DownMsg
  /\ PingMsg \in UpMsg /\ Text("auth-ready") \in UpMsg
  /\ \A r \in Requests, kind \in Kinds, form \in Sent :
       [type |-> kind, id |-> r, form |-> form] \in UpMsg
  /\ Rejected \in Asked /\ Rejected.state = "rejected"
  /\ \A t \in Results \cup {None} :
       [state |-> "pending", timer |-> TRUE, type |-> t, code |-> None] \in Asked
BY DEF Text, DownMsg, UpMsg, Rejected, Asked

\* The ping has no fields, so handleControl finds nothing to object to.
LEMMA PingMade == PingMsg = [type |-> "ping", id |-> None, form |-> "valid"]
<1>1. Kind("ping") = "ping" /\ Fields("ping") = {}
  BY DEF Kind, Fields
<1>2. {} \subseteq Known
  OBVIOUS
<1>. QED
  BY <1>1, <1>2 DEF PingMsg, Request

\* ControlClient.request, with the request as handleControl will find it.
Asks(r, kind, form) ==
  /\ \A c \in Channels : browser[c] = "done"
  /\ request[r].state = "idle"
  /\ \/ request' = [request EXCEPT ![r] = Rejected] /\ UNCHANGED up
     \/ /\ request' = [request EXCEPT ![r] = [state |-> "pending", timer |-> TRUE,
                                              type |-> ResultType(kind), code |-> None]]
        /\ up' = IF agent[CONTROL] = "closed" THEN up
                 ELSE [up EXCEPT ![CONTROL] = Append(@, [type |-> kind, id |-> r, form |-> form])]
  /\ UNCHANGED <<temporary, target, labels, agent, browser, ready, down, work, slots, clash>>

\* The fields the page sends are those the Agent wants, and the page expects the type the
\* Agent answers with.
LEMMA RequestMade ==
  ASSUME NEW r \in Requests, NEW values \in Sent,
         NEW type \in {"dns", "diagnostic_ping", "temporary_target"}
  PROVE  /\ Kind(type) \in Kinds
         /\ Request(r, type, Fields(type), values) = [type |-> Kind(type), id |-> r, form |-> values]
         /\ ExpectedType(type) = ResultType(Kind(type))
<1>1. Fields(type) \subseteq Known
  BY DEF Fields, Known
<1>2. Kind(type) \in Kinds /\ ExpectedType(type) = ResultType(Kind(type))
  BY DEF Kind, Kinds, ExpectedType, ResultType
<1>3. (IF values = "long" THEN "long"
       ELSE IF ~(Fields(type) \subseteq Known) THEN "malformed"
       ELSE IF Fields(type) # Fields(type) THEN "invalid" ELSE values) = values
  BY <1>1
<1>. QED
  BY Zenon, <1>2, <1>3 DEF Request

\* The buttons of the page.
LEMMA ButtonsAsk ==
  ASSUME NEW r \in Requests,
         \/ \E values \in {"valid", "invalid", "long"} : Dns(r, values)
         \/ PingTarget(r)
         \/ \E values \in {"valid", "long"} : ConfigureTemporary(r, values)
  PROVE  \E kind \in Kinds, form \in Sent : Asks(r, kind, form)
<1>1. \E type \in {"dns", "diagnostic_ping", "temporary_target"}, values \in Sent :
        Ask(r, type, Fields(type), values)
  <2>1. /\ Fields("dns") = {"id", "name"} /\ Fields("diagnostic_ping") = {"id"}
        /\ Fields("temporary_target") = {"id", "host", "port", "kind"}
    BY DEF Fields
  <2>. QED
    BY Zenon, <2>1 DEF Dns, PingTarget, ConfigureTemporary, Sent
<1>2. PICK type \in {"dns", "diagnostic_ping", "temporary_target"}, values \in Sent :
        Ask(r, type, Fields(type), values)
  BY Zenon, <1>1
<1>3. /\ Kind(type) \in Kinds
      /\ Request(r, type, Fields(type), values) = [type |-> Kind(type), id |-> r, form |-> values]
      /\ ExpectedType(type) = ResultType(Kind(type))
  BY Zenon, RequestMade
<1>4. Asks(r, Kind(type), values)
  BY Zenon, <1>2, <1>3 DEF Ask, Asks
<1>. QED
  BY Zenon, <1>3, <1>4

\* A result with one of the Agent's codes and at most eight addresses is short enough, and
\* the browser knows its code; only prepareTemporary says ok.
LEMMA ToldSaid ==
  ASSUME NEW type, NEW code \in Listed, NEW n \in 0..8
  PROVE  /\ Told(type, code, n) \in Said
         /\ Told(type, code, n) = "ok" => type = "temporary_result" /\ code = "ok"
<1>1. ~(Length(n) > 512)
  BY DEF Length
<1>. QED
  BY Zenon, <1>1 DEF Told, Said

\* The same for what handleControl itself answers.
LEMMA RefusalSaid ==
  ASSUME NEW type, NEW code \in {"invalid_request", "busy"}
  PROVE  Told(type, code, 0) \in Said /\ Told(type, code, 0) # "ok"
<1>1. 0 \in 0..8 /\ code \in Listed /\ code # "ok"
  BY DEF Listed
<1>. QED
  BY <1>1, ToldSaid

\* A text never says ok.
LEMMA TextHonest == ASSUME NEW t \in {"auth-ok", "pong"} PROVE Honest(Text(t))
BY DEF Honest, Text, Results

\* A step that keeps the target and the goroutines.
LEMMA QueueStep ==
  ASSUME OkInv, UNCHANGED <<target, work>>,
         up' \in [Channels -> Seq(UpMsg)], down' \in [Channels -> Seq(DownMsg)],
         \A i \in 1..Len(down'[CONTROL]) : Honest(down'[CONTROL][i]),
         request' \in [Requests -> Asked],
         \A r \in Requests : \/ request'[r] = request[r]
                             \/ request'[r].state # "resolved"
                             \/ request'[r].code = "ok" => target = r
  PROVE  OkInv'
<1>1. Typed'
  BY DEF OkInv, Typed
<1>2. \A i \in 1..Len(down'[CONTROL]) : Honest(down[CONTROL][i])'
  BY DEF Honest
<1>. QED
  BY <1>1, <1>2 DEF OkInv

\* The page closes the connection: no message is left.
LEMMA PageClosesStep ==
  ASSUME OkInv, PageCloses, UNCHANGED <<target, work, request>>,
         up' \in [Channels -> Seq(UpMsg)]
  PROVE  OkInv'
<1>1. down' \in [Channels -> Seq(DownMsg)] /\ down'[CONTROL] = <<>>
  BY ControlChannel DEF PageCloses
<1>2. request' \in [Requests -> Asked]
  BY DEF OkInv, Typed
<1>3. Len(down'[CONTROL]) = 0
  BY <1>1
<1>. QED
  BY <1>1, <1>2, <1>3, QueueStep

\* The Agent answers on a channel with a text, or not at all.
LEMMA AgentStep ==
  ASSUME OkInv, NEW c \in Channels, Authenticate(c) \/ Ready(c)
  PROVE  OkInv'
<1>1. up[c] # <<>> /\ UNCHANGED <<target, work, request>>
  BY DEF Authenticate, Ready, Arrives
<1>2. \E ms \in {<<>>, <<Text("auth-ok")>>},
         next \in {"serving", "ready", "closed"} : AgentAnswers(c, ms, next)
  BY DEF Authenticate, Ready
<1>3. PICK ms \in {<<>>, <<Text("auth-ok")>>},
           next \in {"serving", "ready", "closed"} : AgentAnswers(c, ms, next)
  BY <1>2
<1>4. /\ ms \in {<<>>} \cup {<<m>> : m \in DownMsg}
      /\ \A i \in 1..Len(ms) : Honest(ms[i])
  <2>1. CASE ms = <<>>
    BY <2>1
  <2>2. CASE ms # <<>>
    <3>1. ms = <<Text("auth-ok")>>
      BY <1>3, <2>2
    <3>2. Text("auth-ok") \in DownMsg /\ Honest(Text("auth-ok"))
      BY WritesTyped, TextHonest
    <3>3. \A i \in 1..Len(ms) : ms[i] = Text("auth-ok")
      BY <3>1
    <3>. QED
      BY <3>1, <3>2, <3>3
  <2>. QED
    BY <2>1, <2>2
<1>5. /\ up' \in [Channels -> Seq(UpMsg)] /\ down' \in [Channels -> Seq(DownMsg)]
      /\ \A i \in 1..Len(down'[CONTROL]) : Honest(down'[CONTROL][i])
  BY <1>1, <1>3, <1>4, AnswerTyped
<1>6. request' \in [Requests -> Asked]
  BY <1>1 DEF OkInv, Typed
<1>. QED
  BY <1>1, <1>5, <1>6, QueueStep

\* The browser takes a message off a queue.
LEMMA DeliveredTyped ==
  ASSUME OkInv, NEW c \in Channels, Delivered(c)
  PROVE  /\ down' \in [Channels -> Seq(DownMsg)]
         /\ \A i \in 1..Len(down'[CONTROL]) : Honest(down'[CONTROL][i])
         /\ Head(down[c]) \in DownMsg
         /\ c = CONTROL => Honest(Head(down[c]))
<1>1. down[c] \in Seq(DownMsg) /\ down[c] # <<>> /\ down' = [down EXCEPT ![c] = Tail(@)]
  BY DEF OkInv, Typed, Delivered
<1>2. PICK s \in Seq(DownMsg) : s = down[c]
  BY <1>1
<1>3. /\ Tail(s) \in Seq(DownMsg) /\ Head(s) \in DownMsg
      /\ Head(s) = s[1] /\ 1 \in 1..Len(s)
      /\ \A i \in 1..Len(Tail(s)) : i + 1 \in 1..Len(s) /\ Tail(s)[i] = s[i + 1]
  BY <1>1, <1>2, TailTyped
<1>4. down' \in [Channels -> Seq(DownMsg)]
  BY <1>1, <1>2, <1>3 DEF OkInv, Typed
<1>5. CASE c = CONTROL
  <2>1. down'[CONTROL] = Tail(s) /\ s = down[CONTROL]
    BY <1>1, <1>2, <1>5, ControlChannel DEF OkInv, Typed
  <2>2. \A i \in 1..Len(s) : Honest(s[i])
    BY <2>1 DEF OkInv
  <2>3. \A i \in 1..Len(Tail(s)) : Honest(Tail(s)[i])
    BY <1>3, <2>2
  <2>. QED
    BY Zenon, <1>2, <1>3, <1>4, <2>1, <2>2, <2>3
<1>6. CASE c # CONTROL
  <2>1. down'[CONTROL] = down[CONTROL]
    BY <1>1, <1>6, ControlChannel DEF OkInv, Typed
  <2>. QED
    BY <1>2, <1>3, <1>4, <1>6, <2>1 DEF OkInv
<1>. QED
  BY <1>5, <1>6

\* textMessage gets a message.
LEMMA AwaitedStep ==
  ASSUME OkInv, NEW c \in Channels, Awaited(c)
  PROVE  OkInv'
<1>1. UNCHANGED <<target, work, request>>
  BY DEF Awaited
<1>2. up' \in [Channels -> Seq(UpMsg)]
  <2>1. up' = up \/ \E m \in {PingMsg, Text("auth-ready")} :
                      up' = [up EXCEPT ![c] = Append(@, m)]
    BY DEF Awaited, Authenticated, PingMsg
  <2>2. up \in [Channels -> Seq(UpMsg)]
    BY DEF OkInv, Typed
  <2>3. \A m \in {PingMsg, Text("auth-ready")} : Append(up[c], m) \in Seq(UpMsg)
    BY <2>2, WritesTyped, AppendTyped
  <2>. QED
    BY Zenon, <2>1, <2>2, <2>3
<1>3. CASE PageCloses
  BY <1>1, <1>2, <1>3, PageClosesStep
<1>4. CASE Delivered(c)
  <2>1. request' \in [Requests -> Asked]
    BY <1>1 DEF OkInv, Typed
  <2>. QED
    BY <1>1, <1>2, <1>4, <2>1, DeliveredTyped, QueueStep
<1>. QED
  BY <1>3, <1>4 DEF Awaited
\* The close event of a channel.
LEMMA CloseEventStep ==
  ASSUME OkInv, NEW c \in Channels, CloseEvent(c)
  PROVE  OkInv'
<1>1. UNCHANGED <<target, work, up>> /\ up' \in [Channels -> Seq(UpMsg)]
  BY DEF CloseEvent, OkInv, Typed
<1>2. CASE PageCloses /\ UNCHANGED request
  BY <1>1, <1>2, PageClosesStep
<1>3. CASE ~(PageCloses /\ UNCHANGED request)
  <2>1. /\ down' = [down EXCEPT ![c] = <<>>]
        /\ request' = request \/ request' = [r \in Requests |-> FailAll(request[r])]
    BY <1>3 DEF CloseEvent
  <2>2. down' \in [Channels -> Seq(DownMsg)]
    BY <2>1 DEF OkInv, Typed
  <2>3. down'[CONTROL] = down[CONTROL] \/ down'[CONTROL] = <<>>
    BY <2>1, ControlChannel DEF OkInv, Typed
  <2>4. \A i \in 1..Len(down'[CONTROL]) : Honest(down'[CONTROL][i])
    BY <2>3 DEF OkInv
  <2>5. \A r \in Requests : FailAll(request[r]) \in Asked
          /\ (FailAll(request[r]) = request[r] \/ FailAll(request[r]).state # "resolved")
    BY WritesTyped DEF FailAll, OkInv, Typed
  <2>6. request' \in [Requests -> Asked]
        /\ \A r \in Requests : request'[r] = request[r] \/ request'[r].state # "resolved"
    BY <2>1, <2>5 DEF OkInv, Typed
  <2>. QED
    BY <1>1, <2>2, <2>4, <2>6, QueueStep
<1>. QED
  BY <1>2, <1>3

\* A request that is made or refused by ControlClient, or times out.
LEMMA AskStep ==
  ASSUME OkInv, NEW r \in Requests,
         Timeout(r) \/ \E kind \in Kinds, form \in Sent : Asks(r, kind, form)
  PROVE  OkInv'
<1>1. UNCHANGED <<target, work, down>>
  BY Zenon DEF Timeout, Asks
<1>2. \E q \in Asked : request' = [request EXCEPT ![r] = q] /\ q.state # "resolved"
  <2>1. CASE request' = [request EXCEPT ![r] = Rejected]
    BY Zenon, <2>1, WritesTyped
  <2>2. CASE request' # [request EXCEPT ![r] = Rejected]
    <3>1. PICK kind \in Kinds, form \in Sent : Asks(r, kind, form)
      BY <2>2 DEF Timeout
    <3>. DEFINE q == [state |-> "pending", timer |-> TRUE, type |-> ResultType(kind), code |-> None]
    <3>2. request' = [request EXCEPT ![r] = q]
      BY <2>2, <3>1 DEF Asks
    <3>3. ResultType(kind) \in Results
      BY DEF ResultType, Results
    <3>4. q \in Asked /\ q.state = "pending"
      BY <3>3, WritesTyped
    <3>. HIDE DEF q
    <3>. QED
      BY Zenon, <3>2, <3>4
  <2>. QED
    BY <2>1, <2>2
<1>3. request' \in [Requests -> Asked]
      /\ \A x \in Requests : request'[x] = request[x] \/ request'[x].state # "resolved"
  BY <1>2 DEF OkInv, Typed
<1>4. up' \in [Channels -> Seq(UpMsg)]
  <2>1. up' = up \/ \E kind \in Kinds, form \in Sent :
                      up' = [up EXCEPT ![CONTROL] = Append(@, [type |-> kind, id |-> r, form |-> form])]
    BY Zenon DEF Timeout, Asks
  <2>2. up \in [Channels -> Seq(UpMsg)]
    BY DEF OkInv, Typed
  <2>3. \A kind \in Kinds, form \in Sent :
          Append(up[CONTROL], [type |-> kind, id |-> r, form |-> form]) \in Seq(UpMsg)
    BY <2>2, WritesTyped, AppendTyped, ControlChannel
  <2>. QED
    BY Zenon, <2>1, <2>2, <2>3
<1>5. down' \in [Channels -> Seq(DownMsg)]
      /\ \A i \in 1..Len(down'[CONTROL]) : Honest(down'[CONTROL][i])
  BY <1>1 DEF OkInv, Typed
<1>. QED
  BY <1>1, <1>3, <1>4, <1>5, QueueStep

\* receive: the ok a caller hears was honest on its way.
LEMMA ReceiveStep ==
  ASSUME OkInv, Receive
  PROVE  OkInv'
<1>. DEFINE m == Head(down[CONTROL])
<1>1. UNCHANGED <<target, work, up>> /\ Delivered(CONTROL)
  BY Zenon DEF Receive
<1>2. /\ down' \in [Channels -> Seq(DownMsg)]
      /\ \A i \in 1..Len(down'[CONTROL]) : Honest(down'[CONTROL][i])
      /\ m \in DownMsg /\ Honest(m)
  BY <1>1, ControlChannel, DeliveredTyped
<1>3. up' \in [Channels -> Seq(UpMsg)]
  BY <1>1 DEF OkInv, Typed
<1>4. CASE request' = request
  <2>1. request' \in [Requests -> Asked]
    BY <1>4 DEF OkInv, Typed
  <2>. QED
    BY <1>1, <1>2, <1>3, <1>4, <2>1, QueueStep
<1>5. CASE request' # request
  <2>1. /\ m.type \in Results
        /\ request' = [request EXCEPT ![m.id].state = "resolved", ![m.id].timer = FALSE,
                                      ![m.id].code = m.code]
    BY ZenonT(30), <1>5 DEF Receive, Unreadable
  <2>2. m.id \in Requests /\ m.code \in Codes \cup {None}
    BY <1>2, <2>1 DEF DownMsg, Results, Said, Codes
  <2>3. PICK q \in Asked : q = request[m.id]
    BY <2>2 DEF OkInv, Typed
  <2>. DEFINE n == [q EXCEPT !.state = "resolved", !.timer = FALSE, !.code = m.code]
  <2>4. n \in Asked /\ n.code = m.code
    BY Zenon, <2>2 DEF Asked
  <2>5. request' = [request EXCEPT ![m.id] = n]
    BY ZenonT(30), <2>1, <2>3
  <2>6. m.code = "ok" => target = m.id
    BY <1>2, <2>1 DEF Honest
  <2>. HIDE DEF m, n
  <2>7. request' \in [Requests -> Asked]
        /\ \A r \in Requests : request'[r] = request[r] \/ (request'[r].code = "ok" => target = r)
    BY <2>2, <2>4, <2>5, <2>6 DEF OkInv, Typed
  <2>. QED
    BY <1>1, <1>2, <1>3, <2>7, QueueStep
<1>. QED
  BY Zenon, <1>4, <1>5

\* What handleControl can do: close the channel, answer at once, or start a goroutine.
LEMMA HandleCases ==
  ASSUME Handle, NEW m, m = Head(up[CONTROL])
  PROVE  /\ \/ Answers(<<>>, "closed") /\ UNCHANGED <<work, slots>>
            \/ m.type = "ping" /\ Answers(<<Text("pong")>>, "serving") /\ UNCHANGED <<work, slots>>
            \/ /\ m.type \in Kinds /\ UNCHANGED <<work, slots>>
               /\ \E code \in {"invalid_request", "busy"} :
                    Answers(<<Result(m.id, ResultType(m.type), Told(ResultType(m.type), code, 0))>>,
                            "serving")
            \/ /\ m.type \in Kinds /\ SlotFree /\ Answers(<<>>, "serving") /\ slots' = slots + 1
               /\ work' = [work EXCEPT ![m.id] =
                             [at |-> IF m.type = "temporary_target" THEN "check" ELSE m.type,
                              type |-> ResultType(m.type), code |-> None]]
         /\ (m.form # "long" /\ Unexpected(m)) \/ UNCHANGED clash
<1>1. m.form = "long" \/ ~Unexpected(m) \/ (Answers(<<>>, "closed") /\ UNCHANGED <<work, slots>>)
  BY Zenon DEF Handle
<1>2. (m.form # "long" /\ Unexpected(m)) \/ UNCHANGED clash
  BY Zenon DEF Handle
<1>3. m.form = "long" /\ ~(Answers(<<>>, "closed") /\ UNCHANGED <<work, slots>>) => FALSE
  BY Zenon DEF Handle
<1>4. ASSUME m.form # "long", ~Unexpected(m)
      PROVE  \/ m.type = "ping" /\ Sends(Text("pong")) /\ UNCHANGED <<work, slots>>
             \/ m.type \in Kinds /\ HandleRequest(m)
  BY Zenon, <1>4 DEF Handle, Unexpected
<1>5. ASSUME HandleRequest(m), m.type \in Kinds
      PROVE  \/ Answers(<<>>, "closed") /\ UNCHANGED <<work, slots>>
             \/ /\ UNCHANGED <<work, slots>>
                /\ \E code \in {"invalid_request", "busy"} :
                     Answers(<<Result(m.id, ResultType(m.type), Told(ResultType(m.type), code, 0))>>,
                             "serving")
             \/ /\ SlotFree /\ Answers(<<>>, "serving") /\ slots' = slots + 1
                /\ work' = [work EXCEPT ![m.id] =
                              [at |-> IF m.type = "temporary_target" THEN "check" ELSE m.type,
                               type |-> ResultType(m.type), code |-> None]]
  BY Zenon, <1>5 DEF HandleRequest, Sends
<1>. QED
  BY Zenon, <1>1, <1>2, <1>3, <1>4, <1>5 DEF Sends

\* handleControl: a refusal is not an ok, and a new goroutine has none yet.
LEMMA HandleStep ==
  ASSUME OkInv, Handle
  PROVE  OkInv'
<1>. DEFINE m == Head(up[CONTROL])
            refusal(code) == Result(m.id, ResultType(m.type), Told(ResultType(m.type), code, 0))
            n == [at |-> IF m.type = "temporary_target" THEN "check" ELSE m.type,
                  type |-> ResultType(m.type), code |-> None]
<1>1. up[CONTROL] # <<>> /\ UNCHANGED <<target, request>>
  BY DEF Handle, Arrives
<1>2. m \in UpMsg
  BY <1>1, ControlChannel, TailTyped DEF OkInv, Typed
<1>3. m.type \in Kinds => m.id \in Requests
  BY <1>2, PingMade DEF UpMsg, Kinds
<1>4. ResultType(m.type) \in Results
  BY DEF ResultType, Results
<1>5. ASSUME m.type \in Kinds, NEW code \in {"invalid_request", "busy"}
      PROVE  refusal(code) \in DownMsg /\ Honest(refusal(code))
  <2>1. PICK told \in Said : told = Told(ResultType(m.type), code, 0) /\ told # "ok"
    BY Zenon, RefusalSaid
  <2>2. refusal(code) = Result(m.id, ResultType(m.type), told)
    BY Zenon, <2>1
  <2>. HIDE DEF m, refusal
  <2>. QED
    BY <1>3, <1>4, <1>5, <2>1, <2>2 DEF Result, DownMsg, Honest
<1>6. PICK ms, next : /\ AgentAnswers(CONTROL, ms, next)
                      /\ \/ ms = <<>>
                         \/ \E x \in DownMsg : ms = <<x>> /\ Honest(x)
  <2>1. Text("pong") \in DownMsg /\ Honest(Text("pong"))
    BY WritesTyped, TextHonest
  <2>. QED
    BY Zenon, <1>5, <2>1, HandleCases DEF Answers
<1>7. UNCHANGED work \/ (m.type \in Kinds /\ work' = [work EXCEPT ![m.id] = n])
  BY Zenon, HandleCases
<1>8. m.type \in Kinds => n \in Work /\ n.at # "send"
  BY <1>4 DEF Work, Kinds
<1>. HIDE DEF m, refusal, n
<1>9. /\ ms \in {<<>>} \cup {<<x>> : x \in DownMsg}
      /\ \A i \in 1..Len(ms) : Honest(ms[i])
  <2>1. CASE ms = <<>>
    BY <2>1
  <2>2. ASSUME NEW x \in DownMsg, ms = <<x>>, Honest(x)
        PROVE  ms \in {<<y>> : y \in DownMsg} /\ \A i \in 1..Len(ms) : Honest(ms[i])
    <3>1. \A i \in 1..Len(<<x>>) : <<x>>[i] = x
      OBVIOUS
    <3>. QED
      BY Zenon, <2>2, <3>1
  <2>. QED
    BY Zenon, <1>6, <2>1, <2>2
<1>10. /\ up' \in [Channels -> Seq(UpMsg)] /\ down' \in [Channels -> Seq(DownMsg)]
       /\ \A i \in 1..Len(down'[CONTROL]) : Honest(down'[CONTROL][i])
  BY <1>1, <1>6, <1>9, ControlChannel, AnswerTyped
<1>11. work' \in [Requests -> Work]
       /\ \A r \in Requests : work'[r] = work[r] \/ work'[r].at # "send"
  BY Zenon, <1>3, <1>7, <1>8 DEF OkInv, Typed
<1>12. Typed'
  BY <1>1, <1>10, <1>11 DEF OkInv, Typed
<1>13. \A i \in 1..Len(down'[CONTROL]) : Honest(down[CONTROL][i])'
  BY <1>1, <1>10 DEF Honest
<1>. QED
  BY <1>1, <1>11, <1>12, <1>13 DEF OkInv
\* A goroutine: the second look at temporaryTarget decides who says ok.
LEMMA GoroutineStep ==
  ASSUME OkInv, NEW r \in Requests, Goroutine(r)
  PROVE  OkInv' /\ (target # None => target' = target)
<1>1. UNCHANGED request /\ up' \in [Channels -> Seq(UpMsg)]
  <2>1. UNCHANGED request /\ (up' = up \/ up' = [up EXCEPT ![CONTROL] = <<>>])
    <3>1. CASE Check(r) \/ Prepare(r) \/ Commit(r) \/ RunDiagnostic(r) \/ Release(r)
      BY Zenon, <3>1 DEF Check, Prepare, Commit, RunDiagnostic, Release
    <3>2. CASE SendControl(r)
      BY Zenon, <3>2 DEF SendControl
    <3>. QED
      BY Zenon, <3>1, <3>2 DEF Goroutine
  <2>2. <<>> \in Seq(UpMsg)
    OBVIOUS
  <2>. QED
    BY Zenon, <2>1, <2>2 DEF OkInv, Typed
<1>2. PICK q \in Work : q = work[r]
  BY DEF OkInv, Typed
<1>3. ASSUME NEW n \in Work, work' = [work EXCEPT ![r] = n],
             target' = target \/ (target = None /\ target' = r),
             n.at = "send" => n.code \in Said /\ (n.code = "ok" => target' = r),
             down' \in [Channels -> Seq(DownMsg)],
             \A i \in 1..Len(down'[CONTROL]) : Honest(down'[CONTROL][i])
      PROVE  OkInv' /\ (target # None => target' = target)
  <2>1. work' \in [Requests -> Work] /\ work'[r] = n
        /\ \A x \in Requests \ {r} : work'[x] = work[x]
    BY <1>3 DEF OkInv, Typed
  <2>2. Typed'
    BY <1>1, <1>3, <2>1 DEF OkInv, Typed
  <2>3. \A x \in Requests : target = x => target' = x
    BY <1>3, ControlAssumption
  <2>4. \A i \in 1..Len(down'[CONTROL]) : Honest(down[CONTROL][i])'
    <3>1. ASSUME NEW i \in 1..Len(down'[CONTROL]) PROVE Honest(down[CONTROL][i])'
      <4>1. Honest(down'[CONTROL][i])
        BY <1>3, <3>1
      <4>2. down'[CONTROL][i] \in DownMsg
        BY <1>3, <3>1, ControlChannel
      <4>3. down'[CONTROL][i].type \in Results => down'[CONTROL][i].id \in Requests
        BY <4>2 DEF DownMsg, Results
      <4>. QED
        BY <2>3, <4>1, <4>3 DEF Honest
    <3>. QED
      BY <3>1
  <2>5. \A x \in Requests :
          work'[x].at = "send" => work'[x].code \in Said /\ (work'[x].code = "ok" => target' = x)
    BY Zenon, <1>3, <2>1, <2>3 DEF OkInv
  <2>6. \A x \in Requests : request'[x].state = "resolved" /\ request'[x].code = "ok" => target' = x
    BY <1>1, <2>3 DEF OkInv
  <2>. QED
    BY Zenon, <1>3, <2>2, <2>4, <2>5, <2>6 DEF OkInv
<1>4. ASSUME NEW step \in {"check", "prepare", "commit", "send", "release"},
             NEW code \in Codes \cup {None}, Goes(r, step, code)
      PROVE  \E n \in Work : work' = [work EXCEPT ![r] = n] /\ n.at = step /\ n.code = code
  <2>. DEFINE n == [q EXCEPT !.at = step, !.code = code]
  <2>1. n \in Work /\ n.at = step /\ n.code = code
    BY Zenon DEF Work
  <2>2. work' = [work EXCEPT ![r] = n]
    BY Zenon, <1>2, <1>4 DEF Goes
  <2>. HIDE DEF n
  <2>. QED
    BY Zenon, <2>1, <2>2
<1>5. down \in [Channels -> Seq(DownMsg)]
      /\ \A i \in 1..Len(down[CONTROL]) : Honest(down[CONTROL][i])
  BY DEF OkInv, Typed
<1>6. ASSUME NEW type, NEW code \in Listed, NEW k \in 0..8, Replies(r, type, code, k)
      PROVE  \E n \in Work : /\ work' = [work EXCEPT ![r] = n] /\ n.code \in Said
                             /\ n.code = "ok" => type = "temporary_result" /\ code = "ok"
  <2>. DEFINE told == Told(type, code, k)
  <2>1. told \in Said /\ (told = "ok" => type = "temporary_result" /\ code = "ok")
    BY ToldSaid
  <2>2. Goes(r, "send", told) /\ told \in Codes \cup {None}
    BY Zenon, <1>6, <2>1 DEF Replies, Said, Codes
  <2>. HIDE DEF told
  <2>3. \E n \in Work : work' = [work EXCEPT ![r] = n] /\ n.code = told
    BY <1>4, <2>2
  <2>. QED
    BY Zenon, <2>1, <2>3
<1>7. 0 \in 0..8 /\ \A k \in Found : Shown(k) \in 0..8
  BY ControlAssumption DEF Shown
<1>8. CASE Check(r) \/ Prepare(r) \/ RunDiagnostic(r)
  <2>1. /\ UNCHANGED <<target, down>>
        /\ \/ Goes(r, "prepare", None) \/ Goes(r, "commit", None)
           \/ \E type \in Results, code \in Listed, k \in 0..8 :
                Replies(r, type, code, k) /\ ~(type = "temporary_result" /\ code = "ok")
    <3>1. CASE Check(r)
      BY Zenon, <1>7, <3>1 DEF Check, Results, Listed
    <3>2. CASE Prepare(r)
      BY Zenon, <1>7, <3>2 DEF Prepare, Results, Listed, DiagnosticCodes
    <3>3. CASE RunDiagnostic(r)
      BY Zenon, <1>7, <3>3 DEF RunDiagnostic, Results, Listed, DiagnosticCodes
    <3>. QED
      BY Zenon, <1>8, <3>1, <3>2, <3>3
  <2>2. \E n \in Work : /\ work' = [work EXCEPT ![r] = n]
                        /\ n.at = "send" => n.code \in Said /\ n.code # "ok"
    <3>1. CASE Goes(r, "prepare", None) \/ Goes(r, "commit", None)
      BY <1>4, <3>1
    <3>. QED
      BY Zenon, <1>6, <2>1, <3>1
  <2>. QED
    BY Zenon, <1>3, <1>5, <2>1, <2>2
<1>9. CASE Commit(r)
  <2>1. /\ Replies(r, "temporary_result", Verdict, 0) /\ UNCHANGED down
        /\ target' = IF target = None THEN r ELSE target
    BY <1>9 DEF Commit, Vacant
  <2>2. Verdict \in Listed /\ (Verdict = "ok" => target = None)
    BY DEF Verdict, Vacant, Listed
  <2>3. \E n \in Work : /\ work' = [work EXCEPT ![r] = n] /\ n.code \in Said
                        /\ n.code = "ok" => Verdict = "ok"
    BY <1>6, <1>7, <2>1, <2>2
  <2>. QED
    BY Zenon, <1>3, <1>5, <2>1, <2>2, <2>3
<1>10. CASE SendControl(r)
  <2>1. UNCHANGED target /\ Goes(r, "release", None) /\ q.at = "send"
    BY Zenon, <1>2, <1>10 DEF SendControl
  <2>2. q.code \in Said /\ q.type \in Results \cup {None}
    BY Zenon, <1>2, <2>1 DEF Work, OkInv
  <2>3. \E n \in Work : work' = [work EXCEPT ![r] = n] /\ n.at = "release"
    BY <1>4, <2>1
  <2>. DEFINE m == Result(r, q.type, q.code)
  <2>4. m \in DownMsg
    BY <2>2 DEF Result, DownMsg
  <2>5. Honest(m)
    BY <1>2, <2>1 DEF Result, Honest, OkInv
  <2>6. down' = down \/ down' = [down EXCEPT ![CONTROL] = Append(@, m)]
    BY Zenon, <1>2, <1>10 DEF SendControl
  <2>. HIDE DEF m
  <2>7. PICK s \in Seq(DownMsg) : s = down[CONTROL]
    BY <1>5, ControlChannel
  <2>8. /\ Append(s, m) \in Seq(DownMsg)
        /\ \A i \in 1..Len(Append(s, m)) : Honest(Append(s, m)[i])
    <3>1. Append(s, m) \in Seq(DownMsg)
      BY <2>4, AppendTyped
    <3>2. ASSUME NEW i \in 1..Len(Append(s, m)) PROVE Honest(Append(s, m)[i])
      <4>1. Append(s, m)[i] = m \/ (i \in 1..Len(s) /\ Append(s, m)[i] = s[i])
        BY <2>4, <3>2
      <4>. QED
        BY <1>5, <2>5, <2>7, <4>1
    <3>. QED
      BY <3>1, <3>2
  <2>9. /\ down' \in [Channels -> Seq(DownMsg)]
        /\ \A i \in 1..Len(down'[CONTROL]) : Honest(down'[CONTROL][i])
    <3>1. CASE down' = down
      BY <1>5, <3>1
    <3>2. CASE down' = [down EXCEPT ![CONTROL] = Append(@, m)]
      <4>1. down' = [down EXCEPT ![CONTROL] = Append(s, m)]
        BY <2>7, <3>2
      <4>2. down'[CONTROL] = Append(s, m)
        BY <1>5, <4>1, ControlChannel
      <4>. QED
        BY Zenon, <1>5, <2>8, <4>1, <4>2
    <3>. QED
      BY <2>6, <3>1, <3>2
  <2>. QED
    BY Zenon, <1>3, <2>1, <2>3, <2>9
<1>11. CASE Release(r)
  <2>1. UNCHANGED <<target, down>>
        /\ work' = [work EXCEPT ![r] = [at |-> "idle", type |-> None, code |-> None]]
    BY <1>11 DEF Release
  <2>2. [at |-> "idle", type |-> None, code |-> None] \in Work
    BY DEF Work
  <2>. QED
    BY Zenon, <1>3, <1>5, <2>1, <2>2
<1>. QED
  BY <1>8, <1>9, <1>10, <1>11 DEF Goroutine
-----------------------------------------------------------------------------
\* At first nothing is said.
LEMMA OkInit == Init => OkInv
<1>. SUFFICES ASSUME Init PROVE OkInv
  OBVIOUS
<1>1. up \in [Channels -> Seq(UpMsg)]
  <2>1. <<Text("auth")>> \in Seq(UpMsg)
    BY DEF Text, UpMsg
  <2>. QED
    BY <2>1 DEF Init
<1>2. down \in [Channels -> Seq(DownMsg)] /\ Len(down[CONTROL]) = 0
  <2>1. <<>> \in Seq(DownMsg) /\ Len(<<>>) = 0
    OBVIOUS
  <2>2. down = [c \in Channels |-> <<>>]
    BY DEF Init
  <2>. QED
    BY <2>1, <2>2, ControlChannel
<1>3. work \in [Requests -> Work] /\ request \in [Requests -> Asked]
      /\ \A r \in Requests : work[r].at = "idle" /\ request[r].state = "idle"
  BY DEF Init, Work, Asked
<1>4. target \in Requests \cup {None}
  BY DEF Init
<1>. QED
  BY <1>1, <1>2, <1>3, <1>4 DEF OkInv, Typed

\* Every step keeps the invariant and a target that is set.
LEMMA OkStep == OkInv /\ [Next]_vars => OkInv' /\ (target # None => target' = target)
<1>. SUFFICES ASSUME OkInv, [Next]_vars PROVE OkInv' /\ (target # None => target' = target)
  OBVIOUS
<1>1. CASE UNCHANGED vars
  BY <1>1 DEF vars, OkInv, Typed, Honest
<1>2. CASE PeerClosedByPage
  <2>1. up' \in [Channels -> Seq(UpMsg)]
    BY <1>2 DEF PeerClosedByPage, OkInv, Typed
  <2>. QED
    BY <1>2, <2>1, PageClosesStep DEF PeerClosedByPage
<1>3. CASE PeerClosedByAgent
  <2>1. up' \in [Channels -> Seq(UpMsg)] /\ UNCHANGED <<target, work, down, request>>
    BY <1>3 DEF PeerClosedByAgent
  <2>2. /\ down' \in [Channels -> Seq(DownMsg)] /\ request' \in [Requests -> Asked]
        /\ \A i \in 1..Len(down'[CONTROL]) : Honest(down'[CONTROL][i])
    BY <2>1 DEF OkInv, Typed
  <2>. QED
    BY <2>1, <2>2, QueueStep
<1>4. CASE \E c \in Channels : CloseEvent(c)
  BY <1>4, CloseEventStep DEF CloseEvent
<1>5. CASE \E c \in Channels : Authenticate(c) \/ Ready(c)
  BY Zenon, <1>5, AgentStep DEF Authenticate, Ready
<1>7. CASE \E c \in Channels : Awaited(c)
  BY ZenonT(30), <1>7, AwaitedStep DEF Awaited
<1>8. ASSUME NEW r \in Requests,
             \/ \E values \in {"valid", "invalid", "long"} : Dns(r, values)
             \/ PingTarget(r)
             \/ \E values \in {"valid", "long"} : ConfigureTemporary(r, values)
      PROVE  OkInv' /\ (target # None => target' = target)
  <2>1. PICK kind \in Kinds, form \in Sent : Asks(r, kind, form)
    BY Zenon, <1>8, ButtonsAsk
  <2>. QED
    BY Zenon, <2>1, AskStep DEF Asks
<1>9. ASSUME NEW r \in Requests, Timeout(r) PROVE OkInv' /\ (target # None => target' = target)
  BY Zenon, <1>9, AskStep DEF Timeout
<1>10. ASSUME NEW r \in Requests, Goroutine(r) PROVE OkInv' /\ (target # None => target' = target)
  BY <1>10, GoroutineStep
<1>11. CASE Receive
  BY Zenon, <1>11, ReceiveStep DEF Receive
<1>12. CASE Handle
  BY Zenon, <1>12, HandleStep DEF Handle
<1>. QED
  BY <1>1, <1>2, <1>3, <1>4, <1>5, <1>7, <1>8, <1>9, <1>10, <1>11, <1>12 DEF Next

\* The inductive invariant holds in every reachable state.
THEOREM ControlInvariant == Spec => []OkInv
BY OkInit, OkStep, PTL DEF Spec

\* For any number of concurrent requests: a caller that was told ok has its
\* own temporary target in use.
THEOREM OkMeansTargetAlways == Spec => []OkMeansTarget
<1>1. OkInv => OkMeansTarget
  BY DEF OkInv, OkMeansTarget
<1>. QED
  BY <1>1, ControlInvariant, PTL

\* Once set, the temporary target of a peer never changes.
THEOREM TargetSetOnceAlways == Spec => TargetSetOnce
<1>1. OkInv /\ [Next]_vars => [target # None => target' = target]_target
  BY OkStep
<1>. QED
  BY <1>1, ControlInvariant, PTL DEF Spec, TargetSetOnce
-----------------------------------------------------------------------------
(***************************************************************************)
(* The protocol.  One channel: what is on its way, given how far either    *)
(* side is.                                                                *)
(***************************************************************************)
ChannelOK(c) ==
  /\ agent[c] = "auth" =>
       /\ browser[c] = "auth-ok" /\ up[c] = <<Text("auth")>> /\ down[c] = <<>> /\ c \notin labels
  /\ agent[c] = "closed" => up[c] = <<>>
  /\ agent[c] \in {"ready", "serving"} /\ browser[c] = "auth-ok" => up[c] = <<>>
  /\ browser[c] = "auth-ok" => down[c] \in {<<>>, <<Text("auth-ok")>>}

StreamOK(c) ==
  /\ browser[c] # "pong"
  /\ browser[c] = "done" => down[c] = <<>>
  /\ agent[c] = "ready" => up[c] \in {<<>>, <<Text("auth-ready")>>}
  /\ agent[c] = "serving" => browser[c] = "done" /\ up[c] = <<>>

\* The messages of the control channel, once it is authenticated, are requests and results.
ServedOK ==
  /\ agent[CONTROL] # "ready"
  /\ browser[CONTROL] = "pong" =>
       /\ up[CONTROL] \in {<<>>, <<PingMsg>>} /\ down[CONTROL] \in {<<>>, <<Text("pong")>>}
       /\ up[CONTROL] # <<>> => down[CONTROL] = <<>>
  /\ browser[CONTROL] = "done" =>
       /\ \A i \in 1..Len(up[CONTROL]) : up[CONTROL][i].type \in Kinds
       /\ \A i \in 1..Len(down[CONTROL]) : down[CONTROL][i].type \in Results

(***************************************************************************)
(* The requests.  A request was made if something is there for it, and     *)
(* while its caller waits, the type is the one the caller expects.  It is  *)
(* on its way once, and has no goroutine yet.                              *)
(***************************************************************************)
Fits(q, type) == q.state # "idle" /\ (q.state = "pending" => q.type = type)

UpOK(s, req, wk) ==
  /\ \A i \in 1..Len(s) :
       s[i].type \in Kinds => Fits(req[s[i].id], ResultType(s[i].type)) /\ wk[s[i].id].at = "idle"
  /\ \A i, j \in 1..Len(s) : s[i].type \in Kinds /\ s[j].type \in Kinds /\ s[i].id = s[j].id => i = j

DownOK(s, req) == \A i \in 1..Len(s) : s[i].type \in Results => Fits(req[s[i].id], s[i].type)

WorkOK(req, wk) ==
  \A r \in Requests : wk[r].at # "idle" => wk[r].type \in Results /\ Fits(req[r], wk[r].type)

\* The goroutines, each of which holds a slot; there are none before the page can ask.
Working(wk) == {r \in Requests : wk[r].at # "idle"}

SlotsOK ==
  /\ IsFiniteSet(Working(work)) /\ slots = Cardinality(Working(work)) /\ slots \in 0..Slots
  /\ browser[CONTROL] # "done" => Working(work) = {}

Sides ==
  /\ temporary \in BOOLEAN /\ labels \subseteq Channels /\ clash = FALSE
  /\ agent \in [Channels -> {"auth", "ready", "serving", "closed"}]
  /\ browser \in [Channels -> {"auth-ok", "pong", "done"}]
  /\ ready \in [Channels -> {"open", "closing", "closed"}]

QueuesOK ==
  /\ \A c \in Channels : ChannelOK(c)
  /\ \A c \in Streams : StreamOK(c)
  /\ ServedOK

RequestsOK == UpOK(up[CONTROL], request, work) /\ DownOK(down[CONTROL], request) /\ WorkOK(request, work)

AgreeInv == Sides /\ QueuesOK /\ RequestsOK /\ SlotsOK
-----------------------------------------------------------------------------
\* Queues with at most one message.
LEMMA ShortQueues ==
  /\ \A m : Head(<<m>>) = m /\ Tail(<<m>>) = <<>> /\ Append(<<>>, m) = <<m>> /\ <<m>> # <<>>
  /\ \A m : <<>> \o <<m>> = <<m>> /\ <<>> \o <<>> = <<>> /\ <<m>> \o <<>> = <<m>>
  /\ Len(<<>>) = 0
OBVIOUS

\* The texts differ from each other and from requests and results.
LEMMA TextsDiffer ==
  /\ \A s, t : Text(s) = Text(t) => s = t
  /\ \A t : Text(t).type = t
BY DEF Text

\* Texts are neither requests nor results.
LEMMA TextQueues ==
  ASSUME NEW req, NEW wk
  PROVE  /\ UpOK(<<>>, req, wk) /\ UpOK(<<Text("auth")>>, req, wk) /\ UpOK(<<PingMsg>>, req, wk)
         /\ DownOK(<<>>, req) /\ DownOK(<<Text("pong")>>, req)
<1>1. \A m : \A i \in 1..Len(<<m>>) : <<m>>[i] = m
  OBVIOUS
<1>2. \A i \in 1..Len(<<>>) : FALSE
  OBVIOUS
<1>3. /\ Text("auth").type \notin Kinds /\ PingMsg.type \notin Kinds
      /\ Text("pong").type \notin Results
  BY PingMade DEF Text, Kinds, Results
<1>4. UpOK(<<>>, req, wk) /\ DownOK(<<>>, req)
  BY Zenon, <1>2 DEF UpOK, DownOK
<1>5. UpOK(<<Text("auth")>>, req, wk) /\ UpOK(<<PingMsg>>, req, wk)
  BY Zenon, <1>1, <1>3 DEF UpOK
<1>6. DownOK(<<Text("pong")>>, req)
  BY Zenon, <1>1, <1>3 DEF DownOK
<1>. QED
  BY Zenon, <1>4, <1>5, <1>6

\* Taking a request off the queue, and adding one that is new there.
LEMMA UpTail ==
  ASSUME NEW s \in Seq(UpMsg), s # <<>>, NEW req, NEW wk, UpOK(s, req, wk)
  PROVE  UpOK(Tail(s), req, wk)
<1>1. \A i \in 1..Len(Tail(s)) : i + 1 \in 1..Len(s) /\ Tail(s)[i] = s[i + 1]
  BY TailTyped
<1>2. \A i \in 1..Len(Tail(s)) : i \in Int
  OBVIOUS
<1>3. \A i, j \in 1..Len(Tail(s)) : i + 1 = j + 1 => i = j
  BY <1>2
<1>. QED
  BY <1>1, <1>3 DEF UpOK

\* A new request joins the queue.
LEMMA UpAppend ==
  ASSUME NEW s \in Seq(UpMsg), NEW m \in UpMsg, NEW req, NEW wk, UpOK(s, req, wk),
         m.type \in Kinds =>
           /\ Fits(req[m.id], ResultType(m.type)) /\ wk[m.id].at = "idle"
           /\ \A i \in 1..Len(s) : s[i].type \in Kinds => s[i].id # m.id
  PROVE  UpOK(Append(s, m), req, wk)
<1>. DEFINE q == Append(s, m)
<1>1. \A i \in 1..Len(q) : (i \in 1..Len(s) /\ q[i] = s[i]) \/ (i = Len(s) + 1 /\ q[i] = m)
  OBVIOUS
<1>. HIDE DEF q
<1>2. \A i \in 1..Len(q) :
        q[i].type \in Kinds => Fits(req[q[i].id], ResultType(q[i].type)) /\ wk[q[i].id].at = "idle"
  BY <1>1 DEF UpOK
<1>3. \A i, k \in 1..Len(q) : q[i].type \in Kinds /\ q[k].type \in Kinds /\ q[i].id = q[k].id => i = k
  BY <1>1 DEF UpOK
<1>4. UpOK(q, req, wk)
  BY <1>2, <1>3 DEF UpOK
<1>. QED
  BY <1>4 DEF q

\* The same for results.
LEMMA DownTail ==
  ASSUME NEW s \in Seq(DownMsg), s # <<>>, NEW req, DownOK(s, req)
  PROVE  DownOK(Tail(s), req) /\ (Head(s).type \in Results => Fits(req[Head(s).id], Head(s).type))
<1>1. /\ \A i \in 1..Len(Tail(s)) : i + 1 \in 1..Len(s) /\ Tail(s)[i] = s[i + 1]
      /\ Head(s) = s[1] /\ 1 \in 1..Len(s)
  BY TailTyped
<1>. QED
  BY <1>1 DEF DownOK

\* A result of the type its caller expects joins the queue.
LEMMA DownConcat ==
  ASSUME NEW s \in Seq(DownMsg), NEW req, DownOK(s, req),
         NEW m \in DownMsg, m.type \in Results => Fits(req[m.id], m.type)
  PROVE  DownOK(Append(s, m), req) /\ DownOK(s \o <<m>>, req) /\ DownOK(s \o <<>>, req)
<1>1. DownOK(Append(s, m), req)
  <2>1. \A i \in 1..Len(Append(s, m)) :
          (i \in 1..Len(s) /\ Append(s, m)[i] = s[i]) \/ Append(s, m)[i] = m
    OBVIOUS
  <2>. QED
    BY <2>1 DEF DownOK
<1>2. s \o <<m>> = Append(s, m) /\ s \o <<>> = s
  OBVIOUS
<1>. QED
  BY Zenon, <1>1, <1>2

\* Requests are made once, then settled: what was fitting stays fitting.
Settles(p, q) == q = p \/ p.state = "idle" \/ q.state \in {"resolved", "rejected"}

\* Settling requests keeps queues and goroutines fitting.
LEMMA FittingStays ==
  ASSUME NEW req \in [Requests -> Asked], NEW new \in [Requests -> Asked],
         \A r \in Requests : Settles(req[r], new[r])
  PROVE  /\ \A r \in Requests : \A type : Fits(req[r], type) => Fits(new[r], type)
         /\ \A s \in Seq(UpMsg) : \A wk : UpOK(s, req, wk) => UpOK(s, new, wk)
         /\ \A s \in Seq(DownMsg) : DownOK(s, req) => DownOK(s, new)
         /\ \A wk : WorkOK(req, wk) => WorkOK(new, wk)
<1>1. \A r \in Requests : \A type : Fits(req[r], type) => Fits(new[r], type)
  BY DEF Settles, Fits
<1>2. ASSUME NEW s \in Seq(UpMsg), NEW wk, UpOK(s, req, wk) PROVE UpOK(s, new, wk)
  <2>1. \A i \in 1..Len(s) : s[i] \in UpMsg
    OBVIOUS
  <2>2. \A i \in 1..Len(s) : s[i].type \in Kinds => s[i].id \in Requests
    BY <2>1, PingMade DEF UpMsg, Kinds
  <2>. QED
    BY <1>1, <1>2, <2>2 DEF UpOK
<1>3. ASSUME NEW s \in Seq(DownMsg), DownOK(s, req) PROVE DownOK(s, new)
  <2>1. \A i \in 1..Len(s) : s[i] \in DownMsg
    OBVIOUS
  <2>2. \A i \in 1..Len(s) : s[i].type \in Results => s[i].id \in Requests
    BY <2>1 DEF DownMsg, Results
  <2>. QED
    BY <1>1, <1>3, <2>2 DEF DownOK
<1>4. ASSUME NEW wk, WorkOK(req, wk) PROVE WorkOK(new, wk)
  BY <1>1, <1>4 DEF WorkOK
<1>. QED
  BY <1>1, <1>2, <1>3, <1>4

\* A step of one channel leaves the others alone.
LEMMA OneChannel ==
  ASSUME QueuesOK, NEW c \in Channels, labels' \subseteq labels \cup {c},
         \A o \in Channels \ {c} : /\ agent'[o] = agent[o] /\ browser'[o] = browser[o]
                                   /\ up'[o] = up[o] /\ down'[o] = down[o],
         ChannelOK(c)', c \in Streams => StreamOK(c)', c = CONTROL => ServedOK'
  PROVE  QueuesOK'
<1>1. ASSUME NEW o \in Channels PROVE ChannelOK(o)'
  BY <1>1 DEF QueuesOK, ChannelOK
<1>2. ASSUME NEW o \in Streams PROVE StreamOK(o)'
  BY Zenon, <1>2 DEF QueuesOK, StreamOK, Channels
<1>3. ServedOK'
  BY ControlChannel DEF QueuesOK, ServedOK
<1>. QED
  BY Zenon, <1>1, <1>2, <1>3 DEF QueuesOK

\* Messages that are lost with a channel surprise nobody.
LEMMA Dropped ==
  ASSUME QueuesOK, UNCHANGED <<labels, agent, browser, up>>,
         \A c \in Channels : down'[c] \in {down[c], <<>>}
  PROVE  QueuesOK'
<1>1. ASSUME NEW c \in Channels PROVE ChannelOK(c)'
  BY <1>1 DEF QueuesOK, ChannelOK
<1>2. ASSUME NEW c \in Streams PROVE StreamOK(c)'
  BY <1>2 DEF QueuesOK, StreamOK, Channels
<1>3. ServedOK'
  BY ControlChannel, ShortQueues DEF QueuesOK, ServedOK
<1>. QED
  BY <1>1, <1>2, <1>3 DEF QueuesOK
-----------------------------------------------------------------------------
\* What the invariants say of the types.
LEMMA Contents ==
  ASSUME OkInv
  PROVE  /\ up \in [Channels -> Seq(UpMsg)] /\ down \in [Channels -> Seq(DownMsg)]
         /\ work \in [Requests -> Work] /\ request \in [Requests -> Asked]
         /\ up[CONTROL] \in Seq(UpMsg) /\ down[CONTROL] \in Seq(DownMsg)
BY ControlChannel DEF OkInv, Typed

\* The Agent closes one channel.
LEMMA ChannelCloses ==
  ASSUME OkInv, AgreeInv, NEW c \in Channels, labels' \in {labels, labels \cup {c}},
         agent' = [agent EXCEPT ![c] = "closed"], up' = [up EXCEPT ![c] = <<>>],
         UNCHANGED <<temporary, browser, ready, down, clash>>
  PROVE  Sides' /\ QueuesOK' /\ up'[CONTROL] \in {up[CONTROL], <<>>}
<1>1. up \in [Channels -> Seq(UpMsg)] /\ agent \in [Channels -> {"auth", "ready", "serving", "closed"}]
  BY Zenon, Contents DEF AgreeInv, Sides
<1>2. /\ agent'[c] = "closed" /\ up'[c] = <<>>
      /\ \A o \in Channels \ {c} : agent'[o] = agent[o] /\ up'[o] = up[o]
  BY Zenon, <1>1
<1>3. Sides'
  <2>1. agent' \in [Channels -> {"auth", "ready", "serving", "closed"}] /\ labels' \subseteq Channels
    BY <1>1 DEF AgreeInv, Sides
  <2>. QED
    BY Zenon, <2>1 DEF AgreeInv, Sides
<1>4. ChannelOK(c) /\ ServedOK /\ (c \in Streams => StreamOK(c))
  BY Zenon DEF AgreeInv, QueuesOK
<1>5. ChannelOK(c)'
  BY Zenon, <1>2, <1>4 DEF ChannelOK
<1>6. c \in Streams => StreamOK(c)'
  BY Zenon, <1>2, <1>4 DEF StreamOK
<1>7. c = CONTROL => ServedOK'
  <2>1. 1..Len(<<>>) = {}
    BY ShortQueues
  <2>. QED
    BY Zenon, <1>2, <1>4, <2>1 DEF ServedOK
<1>8. QueuesOK'
  <2>1. labels' \subseteq labels \cup {c}
    OBVIOUS
  <2>. QED
    BY Zenon, <1>2, <1>5, <1>6, <1>7, <2>1, OneChannel DEF AgreeInv
<1>. QED
  BY Zenon, <1>2, <1>3, <1>8, ControlChannel

\* The same when a handler does it and says nothing.
LEMMA HandlerCloses ==
  ASSUME OkInv, AgreeInv, NEW c \in Channels, labels' \in {labels, labels \cup {c}},
         AgentAnswers(c, <<>>, "closed"),
         UNCHANGED <<temporary, browser, ready, request, work, slots, clash>>
  PROVE  AgreeInv'
<1>1. down \in [Channels -> Seq(DownMsg)]
  BY Zenon, Contents
<1>2. PICK s \in Seq(DownMsg) : s = down[c]
  BY Zenon, <1>1
<1>3. s \o <<>> = s
  OBVIOUS
<1>4. /\ agent' = [agent EXCEPT ![c] = "closed"] /\ up' = [up EXCEPT ![c] = <<>>]
      /\ down' = [down EXCEPT ![c] = s]
  BY Zenon, <1>2, <1>3 DEF AgentAnswers
<1>5. UNCHANGED down
  BY Zenon, <1>1, <1>2, <1>4
<1>6. Sides' /\ QueuesOK' /\ up'[CONTROL] \in {up[CONTROL], <<>>}
  BY Zenon, <1>4, <1>5, ChannelCloses
<1>7. UpOK(<<>>, request, work)
  BY Zenon, TextQueues
<1>8. RequestsOK'
  BY Zenon, <1>5, <1>6, <1>7 DEF AgreeInv, RequestsOK
<1>9. SlotsOK'
  BY Zenon DEF AgreeInv, SlotsOK
<1>. QED
  BY Zenon, <1>6, <1>8, <1>9 DEF AgreeInv

\* The page closes the connection, or a close event is seen.
LEMMA PageClosesAgrees ==
  ASSUME OkInv, AgreeInv, PeerClosedByPage \/ \E c \in Channels : CloseEvent(c), OkInv'
  PROVE  AgreeInv'
<1>1. UNCHANGED <<temporary, target, labels, agent, browser, up, work, slots, clash>>
  BY DEF PeerClosedByPage, CloseEvent
<1>2. \/ PageCloses /\ UNCHANGED request
      \/ \E c \in Channels : /\ ready' = [ready EXCEPT ![c] = "closed"]
                             /\ down' = [down EXCEPT ![c] = <<>>]
                             /\ \/ request' = request
                                \/ request' = [r \in Requests |-> FailAll(request[r])]
  BY DEF PeerClosedByPage, CloseEvent
<1>3. ready' \in [Channels -> {"open", "closing", "closed"}]
  BY <1>2 DEF PageCloses, AgreeInv, Sides
<1>4. \A c \in Channels : down'[c] \in {down[c], <<>>}
  BY <1>2, Contents DEF PageCloses
<1>5. \A r \in Requests : Settles(request[r], request'[r])
  BY <1>2 DEF FailAll, Rejected, Settles
<1>6. Sides' /\ SlotsOK'
  BY <1>1, <1>3 DEF AgreeInv, Sides, SlotsOK
<1>7. QueuesOK'
  BY Zenon, <1>1, <1>4, Dropped DEF AgreeInv
<1>8. RequestsOK'
  <2>1. /\ request \in [Requests -> Asked] /\ request' \in [Requests -> Asked]
        /\ up[CONTROL] \in Seq(UpMsg) /\ down[CONTROL] \in Seq(DownMsg)
    BY Zenon, Contents DEF OkInv, Typed
  <2>2. /\ UpOK(up[CONTROL], request', work) /\ DownOK(down[CONTROL], request')
        /\ WorkOK(request', work)
    BY <1>5, <2>1, FittingStays DEF AgreeInv, RequestsOK
  <2>3. DownOK(<<>>, request')
    BY Zenon, TextQueues
  <2>. QED
    BY Zenon, <1>1, <1>4, <2>2, <2>3, ControlChannel DEF RequestsOK
<1>. QED
  BY <1>6, <1>7, <1>8 DEF AgreeInv

\* The Agent's peer is closed.
LEMMA PeerClosesAgrees ==
  ASSUME OkInv, AgreeInv, PeerClosedByAgent
  PROVE  AgreeInv'
<1>1. /\ agent' = [c \in Channels |-> "closed"] /\ up' = [c \in Channels |-> <<>>]
      /\ UNCHANGED <<temporary, target, labels, browser, ready, down, request, work, slots, clash>>
  BY DEF PeerClosedByAgent
<1>2. Sides' /\ SlotsOK'
  BY <1>1 DEF AgreeInv, Sides, SlotsOK
<1>3. \A c \in Channels : agent'[c] = "closed" /\ up'[c] = <<>>
  BY <1>1
<1>4. ASSUME NEW c \in Channels PROVE ChannelOK(c)'
  BY <1>1, <1>3 DEF AgreeInv, QueuesOK, ChannelOK
<1>5. ASSUME NEW c \in Streams PROVE StreamOK(c)'
  BY Zenon, <1>1, <1>3 DEF AgreeInv, QueuesOK, StreamOK, Channels
<1>6. ServedOK'
  BY <1>1, <1>3, ControlChannel, ShortQueues DEF AgreeInv, QueuesOK, ServedOK
<1>7. RequestsOK'
  <2>1. UpOK(<<>>, request, work)
    BY Zenon, TextQueues
  <2>. QED
    BY <1>1, <1>3, <2>1, ControlChannel DEF AgreeInv, RequestsOK
<1>. QED
  BY <1>2, <1>4, <1>5, <1>6, <1>7 DEF AgreeInv, QueuesOK

\* A label can be reserved for every channel, since there are enough of them.
LEMMA LabelFree ==
  ASSUME Sides, NEW c \in Channels, c \notin labels
  PROVE  Reservable(c)
<1>1. IsFiniteSet(Channels)
  BY FS_AddElement, ControlAssumption DEF Channels
<1>2. labels \subseteq Channels \ {c}
  BY DEF Sides
<1>3. IsFiniteSet(Channels \ {c}) /\ Cardinality(Channels \ {c}) = Cardinality(Channels) - 1
  BY <1>1, FS_RemoveElement
<1>4. Cardinality(labels) <= Cardinality(Channels \ {c}) /\ Cardinality(labels) \in Nat
  BY <1>2, <1>3, FS_Subset, FS_CardinalityType
<1>5. Cardinality(Channels) \in Nat
  BY <1>1, FS_CardinalityType
<1>. QED
  BY <1>3, <1>4, <1>5, ControlAssumption DEF Reservable

\* The capability is read off a channel.
LEMMA AuthenticateAgrees ==
  ASSUME OkInv, AgreeInv, NEW c \in Channels, Authenticate(c)
  PROVE  AgreeInv'
<1>0. CASE labels' = labels \cup {c} /\ AgentAnswers(c, <<>>, "closed") /\ UNCHANGED clash
  <2>1. UNCHANGED <<temporary, browser, ready, request, work, slots>>
    BY Zenon DEF Authenticate
  <2>. QED
    BY Zenon, <1>0, <2>1, HandlerCloses
<1>. SUFFICES ASSUME ~(labels' = labels \cup {c} /\ AgentAnswers(c, <<>>, "closed") /\ UNCHANGED clash)
              PROVE  AgreeInv'
  BY Zenon, <1>0
<1>1. agent[c] = "auth" /\ Sides /\ ChannelOK(c)
  BY Zenon DEF Authenticate, Arrives, AgreeInv, QueuesOK
<1>2. browser[c] = "auth-ok" /\ up[c] = <<Text("auth")>> /\ down[c] = <<>> /\ c \notin labels
  BY <1>1 DEF ChannelOK
<1>3. Head(up[c]) = Text("auth") /\ Reservable(c)
  BY <1>1, <1>2, ShortQueues, LabelFree
<1>4. PICK next \in {"serving", "ready"} :
        /\ AgentAnswers(c, <<Text("auth-ok")>>, next) /\ next = IF c = CONTROL THEN "serving" ELSE "ready"
        /\ labels' = labels \cup {c} /\ UNCHANGED clash
  BY Zenon, <1>3 DEF Authenticate
<1>5. UNCHANGED <<temporary, target, browser, ready, request, work, slots>>
  BY DEF Authenticate
<1>6. /\ up \in [Channels -> Seq(UpMsg)] /\ down \in [Channels -> Seq(DownMsg)]
      /\ agent \in [Channels -> {"auth", "ready", "serving", "closed"}]
  BY Contents, <1>1 DEF Sides
<1>7. /\ agent' = [agent EXCEPT ![c] = next] /\ up' = [up EXCEPT ![c] = <<>>]
      /\ down' = [down EXCEPT ![c] = <<Text("auth-ok")>>]
  <2>1. Tail(up[c]) = <<>> /\ down[c] \o <<Text("auth-ok")>> = <<Text("auth-ok")>>
    BY <1>2, ShortQueues
  <2>. QED
    BY Zenon, <1>4, <2>1 DEF AgentAnswers
<1>8. /\ agent'[c] = next /\ up'[c] = <<>> /\ down'[c] = <<Text("auth-ok")>>
      /\ \A o \in Channels \ {c} : agent'[o] = agent[o] /\ up'[o] = up[o] /\ down'[o] = down[o]
  BY <1>6, <1>7
<1>9. Sides'
  BY Zenon, <1>1, <1>4, <1>5, <1>7 DEF Sides
<1>10. QueuesOK'
  <2>1. ChannelOK(c)'
    BY Zenon, <1>2, <1>5, <1>8 DEF ChannelOK
  <2>2. c \in Streams => StreamOK(c)'
    BY Zenon, <1>2, <1>4, <1>5, <1>8, ControlAssumption DEF StreamOK
  <2>3. c = CONTROL => ServedOK'
    BY Zenon, <1>2, <1>4, <1>5, <1>8 DEF ServedOK
  <2>. QED
    BY Zenon, <1>4, <1>5, <1>8, <2>1, <2>2, <2>3, OneChannel DEF AgreeInv
<1>11. RequestsOK'
  <2>1. UpOK(<<>>, request, work)
    BY Zenon, TextQueues
  <2>2. DownOK(<<Text("auth-ok")>>, request)
    BY TextsDiffer DEF DownOK, Results
  <2>3. up'[CONTROL] \in {up[CONTROL], <<>>} /\ down'[CONTROL] \in {down[CONTROL], <<Text("auth-ok")>>}
    BY Zenon, <1>8, ControlChannel
  <2>. QED
    BY <1>5, <2>1, <2>2, <2>3 DEF AgreeInv, RequestsOK
<1>12. SlotsOK'
  BY <1>5 DEF AgreeInv, SlotsOK
<1>. QED
  BY Zenon, <1>9, <1>10, <1>11, <1>12 DEF AgreeInv

\* A Wisp channel starts its server.
LEMMA ReadyAgrees ==
  ASSUME OkInv, AgreeInv, NEW c \in Channels, Ready(c)
  PROVE  AgreeInv'
<1>1. agent[c] = "ready" /\ up[c] # <<>> /\ Sides /\ ChannelOK(c)
  BY DEF Ready, Arrives, AgreeInv, QueuesOK
<1>2. c # CONTROL /\ c \in Streams
  BY <1>1 DEF AgreeInv, QueuesOK, ServedOK, Channels
<1>3. StreamOK(c) /\ browser[c] \in {"auth-ok", "pong", "done"}
  BY <1>2 DEF AgreeInv, QueuesOK, Sides
<1>4. up[c] = <<Text("auth-ready")>> /\ browser[c] = "done" /\ down[c] = <<>>
  BY <1>1, <1>3 DEF StreamOK, ChannelOK
<1>5. Head(up[c]) = Text("auth-ready")
  BY <1>4, ShortQueues
<1>0. CASE AgentAnswers(c, <<>>, "closed")
  <2>1. UNCHANGED <<temporary, labels, browser, ready, request, work, slots, clash>>
    BY Zenon, <1>5 DEF Ready
  <2>. QED
    BY Zenon, <1>0, <2>1, HandlerCloses
<1>. SUFFICES ASSUME ~AgentAnswers(c, <<>>, "closed") PROVE AgreeInv'
  BY Zenon, <1>0
<1>6. /\ AgentAnswers(c, <<>>, "serving")
      /\ UNCHANGED <<temporary, target, labels, browser, ready, request, work, slots, clash>>
  BY Zenon, <1>5 DEF Ready
<1>7. /\ up \in [Channels -> Seq(UpMsg)] /\ down \in [Channels -> Seq(DownMsg)]
      /\ agent \in [Channels -> {"auth", "ready", "serving", "closed"}]
  BY Contents, <1>1 DEF Sides
<1>8. /\ agent' = [agent EXCEPT ![c] = "serving"] /\ up' = [up EXCEPT ![c] = <<>>]
      /\ down' = [down EXCEPT ![c] = <<>>]
  <2>1. Tail(up[c]) = <<>> /\ down[c] \o <<>> = <<>>
    BY <1>4, ShortQueues
  <2>. QED
    BY Zenon, <1>6, <2>1 DEF AgentAnswers
<1>9. /\ agent'[c] = "serving" /\ up'[c] = <<>> /\ down'[c] = <<>>
      /\ \A o \in Channels \ {c} : agent'[o] = agent[o] /\ up'[o] = up[o] /\ down'[o] = down[o]
  BY <1>7, <1>8
<1>10. Sides' /\ SlotsOK'
  BY Zenon, <1>1, <1>6, <1>8 DEF AgreeInv, Sides, SlotsOK
<1>11. ChannelOK(c)' /\ StreamOK(c)'
  BY Zenon, <1>4, <1>6, <1>9 DEF ChannelOK, StreamOK
<1>12. QueuesOK'
  BY <1>2, <1>6, <1>9, <1>11, OneChannel DEF AgreeInv
<1>13. up'[CONTROL] = up[CONTROL] /\ down'[CONTROL] = down[CONTROL]
  BY Zenon, <1>2, <1>9, ControlChannel
<1>14. RequestsOK'
  BY Zenon, <1>6, <1>13 DEF AgreeInv, RequestsOK
<1>. QED
  BY <1>10, <1>12, <1>14 DEF AgreeInv

\* textMessage gets what it waits for.
LEMMA AwaitedAgrees ==
  ASSUME OkInv, AgreeInv, NEW c \in Channels, Awaited(c)
  PROVE  AgreeInv'
<1>1. /\ browser[c] # "done" /\ down[c] # <<>> /\ Sides /\ ChannelOK(c)
      /\ browser[c] \in {"auth-ok", "pong", "done"} /\ agent[c] \in {"auth", "ready", "serving", "closed"}
  BY DEF Awaited, AgreeInv, QueuesOK, Sides
<1>2. /\ up \in [Channels -> Seq(UpMsg)] /\ down \in [Channels -> Seq(DownMsg)]
      /\ browser \in [Channels -> {"auth-ok", "pong", "done"}]
  BY Contents, <1>1 DEF Sides
<1>3. browser[c] = "pong" => c = CONTROL
  BY DEF AgreeInv, QueuesOK, StreamOK, Channels
<1>4. down[c] = <<Text(browser[c])>>
  <2>1. CASE browser[c] = "auth-ok"
    BY Zenon, <1>1, <2>1 DEF ChannelOK
  <2>2. CASE browser[c] = "pong"
    BY <1>1, <1>3, <2>2 DEF AgreeInv, QueuesOK, ServedOK
  <2>. QED
    BY <1>1, <2>1, <2>2
<1>5. Head(down[c]) = Text(browser[c])
  BY <1>4, ShortQueues
<1>6. /\ down' = [down EXCEPT ![c] = <<>>]
      /\ UNCHANGED <<temporary, target, labels, agent, ready, request, work, slots, clash>>
      /\ \/ browser[c] = "auth-ok" /\ Authenticated(c)
         \/ browser[c] = "pong" /\ browser' = [browser EXCEPT ![c] = "done"] /\ UNCHANGED up
  <2>1. Tail(down[c]) = <<>>
    BY <1>4, ShortQueues
  <2>. QED
    BY Zenon, <1>5, <2>1 DEF Awaited, Delivered
<1>7. down'[c] = <<>> /\ \A o \in Channels \ {c} : down'[o] = down[o]
  BY <1>2, <1>6
<1>8. DownOK(<<>>, request) /\ UpOK(<<>>, request, work) /\ UpOK(<<PingMsg>>, request, work)
  BY Zenon, TextQueues
<1>9. down'[CONTROL] \in {down[CONTROL], <<>>}
  BY <1>7, ControlChannel
<1>10. CASE browser[c] = "auth-ok" /\ Authenticated(c)
  <2>. DEFINE b == IF c = CONTROL THEN "pong" ELSE "done"
              m == IF c = CONTROL THEN PingMsg ELSE Text("auth-ready")
  <2>1. agent[c] # "auth" /\ up[c] = <<>>
    BY <1>1, <1>10 DEF ChannelOK
  <2>2. browser' = [browser EXCEPT ![c] = b] /\ (c = CONTROL => b = "pong") /\ (c # CONTROL => b = "done")
    BY <1>10 DEF Authenticated
  <2>3. \/ agent[c] = "closed" /\ up' = up
        \/ agent[c] # "closed" /\ up' = [up EXCEPT ![c] = <<m>>]
    <3>1. Append(up[c], m) = <<m>>
      BY <2>1, ShortQueues
    <3>. QED
      BY Zenon, <1>10, <3>1 DEF Authenticated, PingMsg
  <2>4. (c = CONTROL => m = PingMsg) /\ (c # CONTROL => m = Text("auth-ready"))
    OBVIOUS
  <2>. HIDE DEF b, m
  <2>5. /\ browser'[c] = b /\ b \in {"pong", "done"}
        /\ (agent[c] = "closed" => up'[c] = <<>>) /\ (agent[c] # "closed" => up'[c] = <<m>>)
        /\ \A o \in Channels \ {c} : browser'[o] = browser[o] /\ up'[o] = up[o]
    BY <1>2, <2>1, <2>2, <2>3
  <2>6. Sides'
    BY Zenon, <1>1, <1>6, <2>2, <2>5 DEF Sides
  <2>7. ChannelOK(c)'
    BY <1>6, <2>1, <2>5 DEF ChannelOK
  <2>8. c \in Streams => StreamOK(c)'
    <3>1. c \in Streams => c # CONTROL /\ agent[c] # "serving"
      BY <1>10, ControlAssumption DEF AgreeInv, QueuesOK, StreamOK
    <3>. QED
      BY Zenon, <1>6, <1>7, <2>2, <2>4, <2>5, <3>1 DEF StreamOK
  <2>9. c = CONTROL => ServedOK'
    <3>1. agent[CONTROL] # "ready"
      BY Zenon DEF AgreeInv, QueuesOK, ServedOK
    <3>. QED
      BY Zenon, <1>6, <1>7, <2>2, <2>4, <2>5, <3>1 DEF ServedOK
  <2>10. QueuesOK'
    BY <1>6, <1>7, <2>5, <2>7, <2>8, <2>9, OneChannel DEF AgreeInv
  <2>11. up'[CONTROL] \in {up[CONTROL], <<>>, <<PingMsg>>}
    BY ZenonT(30), <2>4, <2>5, ControlChannel
  <2>12. RequestsOK'
    BY Zenon, <1>6, <1>8, <1>9, <2>11 DEF AgreeInv, RequestsOK
  <2>13. browser'[CONTROL] # "done" => browser[CONTROL] # "done"
    BY <1>1, <2>5, ControlChannel
  <2>14. SlotsOK'
    BY Zenon, <1>6, <2>13 DEF AgreeInv, SlotsOK
  <2>. QED
    BY Zenon, <2>6, <2>10, <2>12, <2>14 DEF AgreeInv
<1>11. CASE browser[c] = "pong" /\ browser' = [browser EXCEPT ![c] = "done"] /\ UNCHANGED up
  <2>1. c = CONTROL /\ up[c] = <<>>
    BY <1>1, <1>3, <1>11 DEF AgreeInv, QueuesOK, ServedOK
  <2>2. browser'[c] = "done" /\ \A o \in Channels \ {c} : browser'[o] = browser[o]
    BY <1>2, <1>11
  <2>3. Sides'
    BY <1>1, <1>6, <1>11 DEF Sides
  <2>4. ChannelOK(c)' /\ ServedOK' /\ c \notin Streams
    <3>1. agent[CONTROL] # "ready" /\ agent[c] # "auth"
      BY Zenon, <1>1, <1>11 DEF AgreeInv, QueuesOK, ServedOK, ChannelOK
    <3>2. ChannelOK(c)'
      BY Zenon, <1>6, <1>7, <1>11, <2>1, <2>2, <3>1 DEF ChannelOK
    <3>3. ServedOK'
      <4>1. up'[CONTROL] = <<>> /\ down'[CONTROL] = <<>> /\ agent' = agent
        BY Zenon, <1>6, <1>7, <1>11, <2>1
      <4>2. 1..Len(<<>>) = {} /\ "done" # "pong"
        BY ShortQueues
      <4>. QED
        BY Zenon, <2>1, <2>2, <3>1, <4>1, <4>2 DEF ServedOK
    <3>. QED
      BY Zenon, <2>1, <3>2, <3>3, ControlAssumption
  <2>5. QueuesOK'
    BY <1>6, <1>7, <1>11, <2>2, <2>4, OneChannel DEF AgreeInv
  <2>6. RequestsOK'
    BY Zenon, <1>6, <1>8, <1>9, <1>11 DEF AgreeInv, RequestsOK
  <2>7. SlotsOK'
    BY Zenon, <1>6, <2>1, <2>2 DEF AgreeInv, SlotsOK
  <2>. QED
    BY Zenon, <2>3, <2>5, <2>6, <2>7 DEF AgreeInv
<1>. QED
  BY Zenon, <1>6, <1>10, <1>11

\* ping is answered.
LEMMA PingAgrees ==
  ASSUME OkInv, AgreeInv, browser[CONTROL] = "pong", up[CONTROL] = <<PingMsg>>, down[CONTROL] = <<>>,
         agent[CONTROL] = "serving", Answers(<<Text("pong")>>, "serving"),
         UNCHANGED <<temporary, target, labels, browser, ready, request, work, slots, clash>>
  PROVE  AgreeInv'
<1>1. AgentAnswers(CONTROL, <<Text("pong")>>, "serving")
  BY Zenon DEF Answers
<1>2. /\ up \in [Channels -> Seq(UpMsg)] /\ down \in [Channels -> Seq(DownMsg)]
      /\ agent \in [Channels -> {"auth", "ready", "serving", "closed"}]
      /\ browser[CONTROL] \in {"auth-ok", "pong", "done"} /\ up[CONTROL] \in Seq(UpMsg)
  BY Contents, ControlChannel DEF AgreeInv, Sides
<1>3. ServedOK
  BY Zenon DEF AgreeInv, QueuesOK
<1>6. /\ agent' = [agent EXCEPT ![CONTROL] = "serving"] /\ up' = [up EXCEPT ![CONTROL] = <<>>]
      /\ down' = [down EXCEPT ![CONTROL] = <<Text("pong")>>]
  <2>1. Tail(up[CONTROL]) = <<>> /\ down[CONTROL] \o <<Text("pong")>> = <<Text("pong")>>
    BY Zenon, ShortQueues
  <2>. QED
    BY Zenon, <1>1, <2>1 DEF AgentAnswers
<1>7. /\ agent'[CONTROL] = "serving" /\ up'[CONTROL] = <<>> /\ down'[CONTROL] = <<Text("pong")>>
      /\ \A o \in Channels \ {CONTROL} : agent'[o] = agent[o] /\ up'[o] = up[o] /\ down'[o] = down[o]
  BY <1>2, <1>6, ControlChannel
<1>8. Sides' /\ SlotsOK'
  BY Zenon, <1>1, <1>6 DEF AgreeInv, Sides, SlotsOK
<1>9. ChannelOK(CONTROL)' /\ ServedOK'
  BY <1>7 DEF ChannelOK, ServedOK
<1>10. QueuesOK'
  BY Zenon, <1>1, <1>7, <1>9, ControlChannel, ControlAssumption, OneChannel DEF AgreeInv
<1>11. UpOK(<<>>, request, work) /\ DownOK(<<Text("pong")>>, request)
  BY ZenonT(30), TextQueues
<1>12. RequestsOK'
  BY Zenon, <1>1, <1>7, <1>11 DEF AgreeInv, RequestsOK
<1>. QED
  BY Zenon, <1>8, <1>10, <1>12 DEF AgreeInv
-----------------------------------------------------------------------------
\* A request is made: its id is new to both queues and to the goroutines.
LEMMA AskAgrees ==
  ASSUME OkInv, AgreeInv, NEW r \in Requests, NEW kind \in Kinds, NEW form \in Sent,
         Asks(r, kind, form), OkInv'
  PROVE  AgreeInv'
<1>1. /\ UNCHANGED <<temporary, target, labels, agent, browser, ready, down, work, slots, clash>>
      /\ request[r].state = "idle" /\ browser[CONTROL] = "done"
  BY Zenon, ControlChannel DEF Asks
<1>2. /\ request \in [Requests -> Asked] /\ request' \in [Requests -> Asked]
      /\ up \in [Channels -> Seq(UpMsg)] /\ up[CONTROL] \in Seq(UpMsg)
      /\ down[CONTROL] \in Seq(DownMsg)
  BY Zenon, Contents DEF OkInv, Typed
<1>3. \A q \in Requests : Settles(request[q], request'[q])
  <2>1. \A q \in Requests \ {r} : request'[q] = request[q]
    BY Zenon, <1>2 DEF Asks
  <2>. QED
    BY Zenon, <1>1, <2>1 DEF Settles
<1>4. Sides' /\ SlotsOK'
  BY Zenon, <1>1 DEF AgreeInv, Sides, SlotsOK
<1>5. /\ UpOK(up[CONTROL], request', work) /\ DownOK(down[CONTROL], request') /\ WorkOK(request', work)
  BY Zenon, <1>2, <1>3, FittingStays DEF AgreeInv, RequestsOK
<1>6. ChannelOK(CONTROL) /\ ServedOK
  BY ControlChannel DEF AgreeInv, QueuesOK
<1>7. CASE up' = up
  <2>1. QueuesOK'
    BY Zenon, <1>1, <1>7 DEF AgreeInv, QueuesOK, ChannelOK, StreamOK, ServedOK
  <2>2. RequestsOK'
    BY Zenon, <1>1, <1>5, <1>7 DEF RequestsOK
  <2>. QED
    BY <1>4, <2>1, <2>2 DEF AgreeInv
<1>8. CASE up' # up
  <2>. DEFINE m == [type |-> kind, id |-> r, form |-> form]
  <2>1. /\ agent[CONTROL] # "closed" /\ up' = [up EXCEPT ![CONTROL] = Append(up[CONTROL], m)]
        /\ request' = [request EXCEPT ![r] = [state |-> "pending", timer |-> TRUE,
                                              type |-> ResultType(kind), code |-> None]]
    BY <1>8 DEF Asks
  <2>2. m \in UpMsg /\ m.type = kind /\ m.id = r
    BY Zenon, WritesTyped
  <2>. HIDE DEF m
  <2>3. agent[CONTROL] = "serving"
    BY Zenon, <1>1, <1>6, <2>1, ControlChannel DEF AgreeInv, Sides, ChannelOK, ServedOK
  <2>4. up'[CONTROL] = Append(up[CONTROL], m) /\ \A o \in Channels \ {CONTROL} : up'[o] = up[o]
    BY <1>2, <2>1, ControlChannel
  <2>5. Fits(request'[r], ResultType(kind))
    <3>1. request'[r].state = "pending" /\ request'[r].type = ResultType(kind)
      BY Zenon, <1>2, <2>1
    <3>. QED
      BY Zenon, <3>1 DEF Fits
  <2>6. work[r].at = "idle"
    BY Zenon, <1>1 DEF AgreeInv, RequestsOK, WorkOK, Fits
  <2>7. \A i \in 1..Len(up[CONTROL]) : up[CONTROL][i].type \in Kinds => up[CONTROL][i].id # r
    BY Zenon, <1>1 DEF AgreeInv, RequestsOK, UpOK, Fits
  <2>8. UpOK(up'[CONTROL], request', work)
    BY Zenon, <1>2, <1>5, <2>2, <2>4, <2>5, <2>6, <2>7, UpAppend
  <2>9. RequestsOK'
    BY Zenon, <1>1, <1>5, <2>8 DEF RequestsOK
  <2>10. ChannelOK(CONTROL)'
    BY Zenon, <1>1, <2>3 DEF ChannelOK
  <2>11. \A i \in 1..Len(Append(up[CONTROL], m)) : Append(up[CONTROL], m)[i].type \in Kinds
    <3>1. \A i \in 1..Len(up[CONTROL]) : up[CONTROL][i].type \in Kinds
      BY <1>1, <1>6 DEF ServedOK
    <3>2. PICK s \in Seq(UpMsg) : s = up[CONTROL]
      BY <1>2
    <3>3. \A i \in 1..Len(Append(s, m)) :
            (i \in 1..Len(s) /\ Append(s, m)[i] = s[i]) \/ Append(s, m)[i] = m
      BY SMTT(30), <2>2
    <3>. QED
      BY Zenon, <2>2, <3>1, <3>2, <3>3
  <2>12. ServedOK'
    BY Zenon, <1>1, <1>6, <2>4, <2>11 DEF ServedOK
  <2>13. QueuesOK'
    BY Zenon, <1>1, <2>4, <2>10, <2>12, ControlChannel, ControlAssumption, OneChannel DEF AgreeInv
  <2>. QED
    BY Zenon, <1>4, <2>9, <2>13 DEF AgreeInv
<1>. QED
  BY <1>7, <1>8

\* The timer of a request fires.
LEMMA TimeoutAgrees ==
  ASSUME OkInv, AgreeInv, NEW r \in Requests, Timeout(r), OkInv'
  PROVE  AgreeInv'
<1>1. /\ UNCHANGED <<temporary, target, labels, agent, browser, ready, up, down, work, slots, clash>>
      /\ request' = [request EXCEPT ![r] = Rejected]
  BY DEF Timeout
<1>2. /\ request \in [Requests -> Asked] /\ request' \in [Requests -> Asked]
      /\ up[CONTROL] \in Seq(UpMsg) /\ down[CONTROL] \in Seq(DownMsg)
  BY Zenon, Contents DEF OkInv, Typed
<1>3. \A q \in Requests : Settles(request[q], request'[q])
  BY Zenon, <1>1, <1>2 DEF Settles, Rejected
<1>4. /\ UpOK(up[CONTROL], request', work) /\ DownOK(down[CONTROL], request') /\ WorkOK(request', work)
  BY Zenon, <1>2, <1>3, FittingStays DEF AgreeInv, RequestsOK
<1>5. Sides' /\ SlotsOK' /\ RequestsOK'
  BY Zenon, <1>1, <1>4 DEF AgreeInv, Sides, SlotsOK, RequestsOK
<1>6. QueuesOK'
  BY Zenon, <1>1 DEF AgreeInv, QueuesOK, ChannelOK, StreamOK, ServedOK
<1>. QED
  BY <1>5, <1>6 DEF AgreeInv

\* receive finds a result of the type its caller expects, if there still is a caller.
LEMMA ReceiveAgrees == ASSUME OkInv, AgreeInv, Receive, OkInv' PROVE AgreeInv'
<1>. DEFINE m == Head(down[CONTROL])
<1>1. /\ UNCHANGED <<temporary, target, labels, agent, browser, up, work, slots>>
      /\ browser[CONTROL] = "done" /\ down[CONTROL] # <<>>
      /\ down' = [down EXCEPT ![CONTROL] = Tail(down[CONTROL])]
  BY Zenon DEF Receive, Delivered
<1>2. /\ request \in [Requests -> Asked] /\ request' \in [Requests -> Asked]
      /\ up[CONTROL] \in Seq(UpMsg) /\ down[CONTROL] \in Seq(DownMsg)
      /\ down \in [Channels -> Seq(DownMsg)]
  BY Contents DEF OkInv, Typed
<1>3. ChannelOK(CONTROL) /\ ServedOK
  BY Zenon, ControlChannel DEF AgreeInv, QueuesOK
<1>4. /\ m \in DownMsg /\ m = down[CONTROL][1] /\ 1 \in 1..Len(down[CONTROL])
      /\ Tail(down[CONTROL]) \in Seq(DownMsg)
      /\ \A i \in 1..Len(Tail(down[CONTROL])) :
           i + 1 \in 1..Len(down[CONTROL]) /\ Tail(down[CONTROL])[i] = down[CONTROL][i + 1]
  BY Zenon, <1>1, <1>2, TailTyped
<1>5. m.type \in Results
  BY Zenon, <1>1, <1>3, <1>4 DEF ServedOK
<1>6. m.id \in Requests
  BY Zenon, <1>4, <1>5 DEF DownMsg, Results
<1>7. Fits(request[m.id], m.type) /\ DownOK(Tail(down[CONTROL]), request)
  BY Zenon, <1>1, <1>2, <1>5, DownTail DEF AgreeInv, RequestsOK
<1>8. UNCHANGED <<ready, clash>>
  <2>1. m.code \in Said
    BY Zenon, <1>4, <1>5 DEF DownMsg, Results
  <2>2. ~Unreadable(m)
    BY <1>5, <2>1 DEF Unreadable, Said
  <2>. QED
    BY Zenon, <1>7, <2>2 DEF Receive, Fits
<1>9. \/ request' = request
      \/ request' = [request EXCEPT ![m.id].state = "resolved", ![m.id].timer = FALSE,
                                    ![m.id].code = m.code]
  BY Zenon DEF Receive
<1>. HIDE DEF m
<1>10. \A q \in Requests : Settles(request[q], request'[q])
  <2>1. \A q \in Requests : request'[q] = request[q] \/ request'[q].state = "resolved"
    <3>1. request[m.id] \in Asked
      BY Zenon, <1>2, <1>6
    <3>. QED
      BY <1>2, <1>6, <1>9, <3>1 DEF Asked
  <2>. QED
    BY <2>1 DEF Settles
<1>11. /\ UpOK(up[CONTROL], request', work) /\ DownOK(Tail(down[CONTROL]), request')
       /\ WorkOK(request', work)
  BY Zenon, <1>2, <1>4, <1>7, <1>10, FittingStays DEF AgreeInv, RequestsOK
<1>12. down'[CONTROL] = Tail(down[CONTROL]) /\ \A o \in Channels \ {CONTROL} : down'[o] = down[o]
  BY Zenon, <1>1, <1>2, ControlChannel
<1>13. Sides' /\ SlotsOK' /\ RequestsOK'
  BY Zenon, <1>1, <1>8, <1>11, <1>12 DEF AgreeInv, Sides, SlotsOK, RequestsOK
<1>14. ChannelOK(CONTROL)'
  BY <1>1, <1>3 DEF ChannelOK
<1>15. ServedOK'
  <2>1. \A i \in 1..Len(down[CONTROL]) : down[CONTROL][i].type \in Results
    BY Zenon, <1>1, <1>3 DEF ServedOK
  <2>2. \A i \in 1..Len(Tail(down[CONTROL])) : Tail(down[CONTROL])[i].type \in Results
    BY Zenon, <1>4, <2>1
  <2>3. agent[CONTROL] # "ready" /\ \A i \in 1..Len(up[CONTROL]) : up[CONTROL][i].type \in Kinds
    BY Zenon, <1>1, <1>3 DEF ServedOK
  <2>4. agent' = agent /\ browser'[CONTROL] = "done" /\ up' = up
    BY Zenon, <1>1
  <2>5. "done" # "pong"
    OBVIOUS
  <2>. QED
    BY Zenon, <1>12, <2>2, <2>3, <2>4, <2>5 DEF ServedOK
<1>16. QueuesOK'
  BY Zenon, <1>1, <1>12, <1>14, <1>15, ControlChannel, ControlAssumption, OneChannel DEF AgreeInv
<1>. QED
  BY Zenon, <1>13, <1>16 DEF AgreeInv
-----------------------------------------------------------------------------
\* What handleControl does to the queues: it takes a request, and at most one result is sent.
LEMMA ServedQueues ==
  ASSUME OkInv, AgreeInv, agent[CONTROL] = "serving", browser[CONTROL] = "done",
         up[CONTROL] # <<>>, NEW next \in {"serving", "closed"}, NEW ms,
         ms = <<>> \/ \E x \in DownMsg : ms = <<x>> /\ x.type \in Results,
         Answers(ms, next), UNCHANGED <<temporary, labels, browser, ready, clash>>
  PROVE  /\ Sides' /\ QueuesOK'
         /\ down'[CONTROL] = down[CONTROL] \o ms
         /\ up'[CONTROL] = IF next = "closed" THEN <<>> ELSE Tail(up[CONTROL])
<1>1. /\ up \in [Channels -> Seq(UpMsg)] /\ down \in [Channels -> Seq(DownMsg)]
      /\ up[CONTROL] \in Seq(UpMsg) /\ down[CONTROL] \in Seq(DownMsg)
      /\ agent \in [Channels -> {"auth", "ready", "serving", "closed"}]
  BY Contents DEF AgreeInv, Sides
<1>2. /\ agent' = [agent EXCEPT ![CONTROL] = next]
      /\ up' = [up EXCEPT ![CONTROL] = IF next = "closed" THEN <<>> ELSE Tail(up[CONTROL])]
      /\ down' = [down EXCEPT ![CONTROL] = down[CONTROL] \o ms]
  BY DEF Answers, AgentAnswers
<1>3. /\ agent'[CONTROL] = next /\ down'[CONTROL] = down[CONTROL] \o ms
      /\ up'[CONTROL] = IF next = "closed" THEN <<>> ELSE Tail(up[CONTROL])
      /\ \A o \in Channels \ {CONTROL} : agent'[o] = agent[o] /\ up'[o] = up[o] /\ down'[o] = down[o]
  BY Zenon, <1>1, <1>2, ControlChannel
<1>4. Sides'
  BY Zenon, <1>2 DEF AgreeInv, Sides
<1>5. ServedOK
  BY Zenon DEF AgreeInv, QueuesOK
<1>6. \A i \in 1..Len(up'[CONTROL]) : up'[CONTROL][i].type \in Kinds
  <2>1. CASE next = "closed"
    BY <1>3, <2>1, ShortQueues
  <2>2. CASE next # "closed"
    <3>1. \A i \in 1..Len(Tail(up[CONTROL])) :
            i + 1 \in 1..Len(up[CONTROL]) /\ Tail(up[CONTROL])[i] = up[CONTROL][i + 1]
      BY <1>1, TailTyped
    <3>2. \A i \in 1..Len(up[CONTROL]) : up[CONTROL][i].type \in Kinds
      BY Zenon, <1>5 DEF ServedOK
    <3>. QED
      BY ZenonT(30), <1>3, <2>2, <3>1, <3>2
  <2>. QED
    BY <2>1, <2>2
<1>7. \A i \in 1..Len(down'[CONTROL]) : down'[CONTROL][i].type \in Results
  <2>1. \A i \in 1..Len(down[CONTROL]) : down[CONTROL][i].type \in Results
    BY <1>5 DEF ServedOK
  <2>2. PICK s \in Seq(DownMsg) : s = down[CONTROL]
    BY <1>1
  <2>3. CASE ms = <<>>
    <3>1. s \o <<>> = s
      OBVIOUS
    <3>. QED
      BY Zenon, <1>3, <2>1, <2>2, <2>3, <3>1
  <2>4. ASSUME NEW x \in DownMsg, ms = <<x>>, x.type \in Results
        PROVE  \A i \in 1..Len(down'[CONTROL]) : down'[CONTROL][i].type \in Results
    <3>1. \A i \in 1..Len(s \o <<x>>) : (i \in 1..Len(s) /\ (s \o <<x>>)[i] = s[i]) \/ (s \o <<x>>)[i] = x
      OBVIOUS
    <3>. QED
      BY Zenon, <1>3, <2>1, <2>2, <2>4, <3>1
  <2>. QED
    BY Zenon, <2>3, <2>4
<1>8. ChannelOK(CONTROL)'
  BY <1>3 DEF ChannelOK
<1>9. ServedOK'
  BY Zenon, <1>3, <1>6, <1>7 DEF ServedOK
<1>10. QueuesOK'
  BY Zenon, <1>3, <1>8, <1>9, ControlChannel, ControlAssumption, OneChannel DEF AgreeInv
<1>. QED
  BY Zenon, <1>3, <1>4, <1>10

\* A goroutine is started for a request: it takes a slot.
LEMMA StartAgrees ==
  ASSUME NEW s \in Seq(UpMsg), s # <<>>, Head(s).type \in Kinds, work \in [Requests -> Work],
         UpOK(s, request, work), WorkOK(request, work), SlotsOK, SlotFree,
         NEW w \in Work, w.at # "idle", w.type = ResultType(Head(s).type),
         work' = [work EXCEPT ![Head(s).id] = w], slots' = slots + 1,
         browser[CONTROL] = "done", UNCHANGED <<browser, request>>
  PROVE  UpOK(Tail(s), request, work') /\ WorkOK(request, work') /\ SlotsOK'
<1>. DEFINE r == Head(s).id
<1>1. /\ Head(s) \in UpMsg /\ Head(s) = s[1] /\ 1 \in 1..Len(s)
      /\ \A i \in 1..Len(Tail(s)) : i + 1 \in 1..Len(s) /\ Tail(s)[i] = s[i + 1]
  BY Zenon, TailTyped
<1>2. r \in Requests
  BY <1>1, PingMade DEF UpMsg, Kinds
<1>3. Fits(request[r], ResultType(Head(s).type)) /\ work[r].at = "idle"
  BY <1>1 DEF UpOK
<1>4. /\ work'[r] = w /\ \A q \in Requests \ {r} : work'[q] = work[q]
  BY Zenon, <1>2
<1>5. UpOK(Tail(s), request, work')
  <2>1. UpOK(Tail(s), request, work)
    BY Zenon, UpTail
  <2>2. ASSUME NEW i \in 1..Len(Tail(s)), Tail(s)[i].type \in Kinds
        PROVE  Tail(s)[i].id # r /\ Tail(s)[i].id \in Requests
    <3>1. i + 1 \in 1..Len(s) /\ Tail(s)[i] = s[i + 1] /\ i + 1 # 1
      BY <1>1
    <3>2. s[i + 1].id # s[1].id
      BY <1>1, <2>2, <3>1 DEF UpOK
    <3>3. s[i + 1] \in UpMsg
      BY <3>1
    <3>4. s[i + 1].id \in Requests
      BY <2>2, <3>1, <3>3, PingMade DEF UpMsg, Kinds
    <3>. QED
      BY <1>1, <3>1, <3>2, <3>4
  <2>. HIDE DEF r
  <2>. QED
    BY <1>4, <2>1, <2>2 DEF UpOK
<1>6. WorkOK(request, work')
  <2>1. ResultType(Head(s).type) \in Results
    BY Zenon DEF ResultType, Results
  <2>. HIDE DEF r
  <2>. QED
    BY <1>3, <1>4, <2>1 DEF WorkOK
<1>7. Working(work') = Working(work) \cup {r} /\ r \notin Working(work)
  <2>. HIDE DEF r
  <2>. QED
    BY Zenon, <1>2, <1>3, <1>4 DEF Working
<1>8. /\ IsFiniteSet(Working(work')) /\ Cardinality(Working(work')) = Cardinality(Working(work)) + 1
  <2>1. IsFiniteSet(Working(work))
    BY DEF SlotsOK
  <2>. QED
    BY Zenon, <1>7, <2>1, FS_AddElement
<1>9. slots' = Cardinality(Working(work'))
  BY <1>8 DEF SlotsOK
<1>10. slots' \in 0..Slots
  BY ControlAssumption DEF SlotsOK, SlotFree
<1>11. SlotsOK'
  BY Zenon, <1>8, <1>9, <1>10 DEF SlotsOK
<1>. QED
  BY <1>5, <1>6, <1>11

\* handleControl reads a request or the ping: one of the page's, so it does not close the
\* channel over it, unless it is too long.
LEMMA HandleAgrees == ASSUME OkInv, AgreeInv, Handle PROVE AgreeInv'
<1>. DEFINE m == Head(up[CONTROL])
            refusal(code) == Result(m.id, ResultType(m.type), Told(ResultType(m.type), code, 0))
<1>1. /\ agent[CONTROL] = "serving" /\ up[CONTROL] # <<>>
      /\ UNCHANGED <<temporary, target, labels, browser, ready, request>>
  BY Zenon DEF Handle, Arrives
<1>2. /\ up[CONTROL] \in Seq(UpMsg) /\ down[CONTROL] \in Seq(DownMsg) /\ work \in [Requests -> Work]
      /\ browser[CONTROL] \in {"auth-ok", "pong", "done"}
  BY Contents, ControlChannel DEF AgreeInv, Sides
<1>3. ChannelOK(CONTROL) /\ ServedOK /\ browser[CONTROL] # "auth-ok"
  <2>1. ChannelOK(CONTROL) /\ ServedOK
    BY Zenon, ControlChannel DEF AgreeInv, QueuesOK
  <2>. QED
    BY Zenon, <1>1, <2>1 DEF ChannelOK
<1>4. m \in UpMsg /\ m = up[CONTROL][1] /\ 1 \in 1..Len(up[CONTROL])
  BY Zenon, <1>1, <1>2, TailTyped
<1>5. CASE browser[CONTROL] = "pong"
  <2>1. up[CONTROL] = <<PingMsg>> /\ down[CONTROL] = <<>>
    BY Zenon, <1>1, <1>3, <1>5 DEF ServedOK
  <2>2. m = PingMsg
    BY Zenon, <2>1, ShortQueues
  <2>3. m.type = "ping" /\ m.form = "valid"
    BY <2>2, PingMade
  <2>4. ~Unexpected(m) /\ m.type \notin Kinds
    BY <2>3 DEF Unexpected, Kinds
  <2>5. /\ UNCHANGED <<work, slots, clash>>
        /\ Answers(<<>>, "closed") \/ Answers(<<Text("pong")>>, "serving")
    BY Zenon, <2>4, HandleCases
  <2>6. CASE Answers(<<>>, "closed")
    BY Zenon, <1>1, <2>5, <2>6, ControlChannel, HandlerCloses DEF Answers
  <2>7. CASE Answers(<<Text("pong")>>, "serving")
    BY Zenon, <1>1, <1>5, <2>1, <2>5, <2>7, PingAgrees
  <2>. QED
    BY Zenon, <2>5, <2>6, <2>7
<1>. SUFFICES ASSUME browser[CONTROL] = "done" PROVE AgreeInv'
  BY Zenon, <1>2, <1>3, <1>5
<1>6. m.type \in Kinds
  BY Zenon, <1>3, <1>4 DEF ServedOK
<1>7. m.id \in Requests /\ m.form \in Sent
  BY <1>4, <1>6, PingMade DEF UpMsg, Kinds
<1>8. m.type # "ping" /\ ~Unexpected(m)
  BY <1>6, <1>7 DEF Unexpected, Sent, Kinds
<1>9. Fits(request[m.id], ResultType(m.type))
  BY Zenon, <1>4, <1>6 DEF AgreeInv, RequestsOK, UpOK
<1>10. /\ UpOK(<<>>, request, work) /\ UpOK(Tail(up[CONTROL]), request, work) /\ WorkOK(request, work)
       /\ \A x \in DownMsg : x.type \in Results /\ Fits(request[x.id], x.type) =>
            DownOK(down[CONTROL] \o <<x>>, request)
       /\ DownOK(down[CONTROL] \o <<>>, request)
  <2>1. UpOK(<<>>, request, work)
    BY Zenon, TextQueues
  <2>2. UpOK(Tail(up[CONTROL]), request, work)
    BY Zenon, <1>1, <1>2, UpTail DEF AgreeInv, RequestsOK
  <2>3. PICK s \in Seq(DownMsg) : s = down[CONTROL]
    BY Zenon, <1>2
  <2>4. s \o <<>> = s
    OBVIOUS
  <2>. HIDE DEF m
  <2>. QED
    BY Zenon, <1>2, <2>1, <2>2, <2>3, <2>4, DownConcat DEF AgreeInv, RequestsOK
<1>11. UNCHANGED clash
  BY Zenon, <1>8, HandleCases
<1>12. CASE Answers(<<>>, "closed") /\ UNCHANGED <<work, slots>>
  BY Zenon, <1>1, <1>11, <1>12, ControlChannel, HandlerCloses DEF Answers
<1>13. ASSUME NEW code \in {"invalid_request", "busy"}, Answers(<<refusal(code)>>, "serving"),
              UNCHANGED <<work, slots>>
       PROVE  AgreeInv'
  <2>1. PICK told \in Said : told = Told(ResultType(m.type), code, 0)
    BY Zenon, RefusalSaid
  <2>2. PICK x \in DownMsg : x = refusal(code) /\ x.type = ResultType(m.type) /\ x.id = m.id
    <3>1. refusal(code) = [type |-> ResultType(m.type), id |-> m.id, code |-> told]
      BY Zenon, <2>1 DEF Result
    <3>2. ResultType(m.type) \in Results
      BY Zenon DEF ResultType, Results
    <3>3. [type |-> ResultType(m.type), id |-> m.id, code |-> told] \in DownMsg
      BY Zenon, <1>7, <3>2 DEF DownMsg
    <3>. QED
      BY Zenon, <3>1, <3>3
  <2>. HIDE DEF refusal, m
  <2>3. x.type \in Results
    BY Zenon, <2>2 DEF ResultType, Results
  <2>4. /\ Sides' /\ QueuesOK' /\ down'[CONTROL] = down[CONTROL] \o <<x>>
        /\ up'[CONTROL] = Tail(up[CONTROL])
    BY Zenon, <1>1, <1>11, <1>13, <2>2, <2>3, ServedQueues
  <2>5. RequestsOK' /\ SlotsOK'
    BY Zenon, <1>1, <1>9, <1>10, <1>13, <2>2, <2>3, <2>4 DEF RequestsOK, AgreeInv, SlotsOK
  <2>. QED
    BY Zenon, <2>4, <2>5 DEF AgreeInv
<1>14. CASE /\ SlotFree /\ Answers(<<>>, "serving") /\ slots' = slots + 1
            /\ work' = [work EXCEPT ![m.id] =
                          [at |-> IF m.type = "temporary_target" THEN "check" ELSE m.type,
                           type |-> ResultType(m.type), code |-> None]]
  <2>1. /\ Sides' /\ QueuesOK' /\ down'[CONTROL] = down[CONTROL] \o <<>>
        /\ up'[CONTROL] = Tail(up[CONTROL])
    BY Zenon, <1>1, <1>11, <1>14, ServedQueues
  <2>2. PICK w \in Work : w.at # "idle" /\ w.type = ResultType(m.type) /\ work' = [work EXCEPT ![m.id] = w]
    <3>. DEFINE w == [at |-> IF m.type = "temporary_target" THEN "check" ELSE m.type,
                      type |-> ResultType(m.type), code |-> None]
    <3>1. w \in Work /\ w.at # "idle" /\ w.type = ResultType(m.type)
      BY <1>6 DEF Work, Kinds, ResultType, Results
    <3>. QED
      BY Zenon, <1>14, <3>1
  <2>3. UpOK(Tail(up[CONTROL]), request, work') /\ WorkOK(request, work') /\ SlotsOK'
    <3>1. UpOK(up[CONTROL], request, work) /\ WorkOK(request, work) /\ SlotsOK
      BY Zenon DEF AgreeInv, RequestsOK
    <3>. QED
      BY Zenon, <1>1, <1>2, <1>6, <1>14, <2>2, <3>1, StartAgrees
  <2>4. RequestsOK'
    BY Zenon, <1>1, <1>10, <2>1, <2>3 DEF RequestsOK
  <2>. QED
    BY Zenon, <2>1, <2>3, <2>4 DEF AgreeInv
<1>. QED
  BY Zenon, <1>8, <1>12, <1>13, <1>14, HandleCases
-----------------------------------------------------------------------------
\* A goroutine that goes on keeps its slot and the type of its result.
LEMMA GoesOn ==
  ASSUME OkInv, AgreeInv, NEW r \in Requests, work[r].at # "idle", NEW at, at # "idle", NEW code,
         Goes(r, at, code), UNCHANGED <<browser, request, slots>>
  PROVE  /\ SlotsOK'
         /\ UpOK(up[CONTROL], request, work') /\ WorkOK(request, work')
<1>1. up[CONTROL] \in Seq(UpMsg) /\ work \in [Requests -> Work] /\ work[r] \in Work
  BY Contents
<1>2. /\ work'[r].at = at /\ work'[r].type = work[r].type
      /\ \A q \in Requests \ {r} : work'[q] = work[q]
  BY <1>1 DEF Goes, Work
<1>3. Working(work') = Working(work)
  BY Zenon, <1>2 DEF Working
<1>4. SlotsOK'
  BY Zenon, <1>3 DEF AgreeInv, SlotsOK
<1>5. UpOK(up[CONTROL], request, work')
  <2>1. UpOK(up[CONTROL], request, work)
    BY Zenon DEF AgreeInv, RequestsOK
  <2>2. \A i \in 1..Len(up[CONTROL]) : up[CONTROL][i] \in UpMsg
    BY <1>1
  <2>3. \A i \in 1..Len(up[CONTROL]) : up[CONTROL][i].type \in Kinds => up[CONTROL][i].id \in Requests
    BY <2>2, PingMade DEF UpMsg, Kinds
  <2>4. \A i \in 1..Len(up[CONTROL]) : up[CONTROL][i].type \in Kinds => up[CONTROL][i].id # r
    BY Zenon, <2>1 DEF UpOK
  <2>. QED
    BY Zenon, <1>2, <2>1, <2>3, <2>4 DEF UpOK
<1>6. WorkOK(request, work')
  BY Zenon, <1>2 DEF AgreeInv, RequestsOK, WorkOK
<1>. QED
  BY Zenon, <1>4, <1>5, <1>6

\* A goroutine sends its result, of the type its caller expects.
LEMMA SendAgrees ==
  ASSUME OkInv, AgreeInv, NEW r \in Requests, SendControl(r)
  PROVE  AgreeInv'
<1>. DEFINE m == Result(r, work[r].type, work[r].code)
<1>0. work[r].code \in Said /\ work[r].code # "long"
  <2>1. work[r].code \in Said
    BY Zenon DEF SendControl, OkInv
  <2>. QED
    BY <2>1 DEF Said
<1>1. /\ work[r].at = "send" /\ Goes(r, "release", None)
      /\ UNCHANGED <<temporary, target, labels, browser, ready, request, slots, clash>>
      /\ \/ UNCHANGED <<agent, up, down>>
         \/ UNCHANGED <<agent, up>> /\ down' = [down EXCEPT ![CONTROL] = Append(down[CONTROL], m)]
         \/ /\ agent' = [agent EXCEPT ![CONTROL] = "closed"] /\ up' = [up EXCEPT ![CONTROL] = <<>>]
            /\ UNCHANGED down
  BY Zenon, <1>0 DEF SendControl
<1>2. /\ SlotsOK' /\ UpOK(up[CONTROL], request, work') /\ WorkOK(request, work')
      /\ UNCHANGED agent => Sides'
  <2>1. SlotsOK' /\ UpOK(up[CONTROL], request, work') /\ WorkOK(request, work')
    BY <1>1, GoesOn
  <2>. QED
    BY Zenon, <1>1, <2>1 DEF AgreeInv, Sides
<1>3. /\ down \in [Channels -> Seq(DownMsg)] /\ down[CONTROL] \in Seq(DownMsg)
      /\ work[r] \in Work
  BY Zenon, Contents
<1>4. work[r].type \in Results /\ Fits(request[r], work[r].type)
  BY Zenon, <1>1 DEF AgreeInv, RequestsOK, WorkOK
<1>5. m \in DownMsg /\ m.type = work[r].type /\ m.id = r
  BY Zenon, <1>0, <1>4 DEF Result, DownMsg
<1>6. browser[CONTROL] = "done"
  BY Zenon, <1>1 DEF AgreeInv, SlotsOK, Working
<1>. HIDE DEF m
<1>7. CASE UNCHANGED <<agent, up, down>>
  <2>1. QueuesOK'
    BY Zenon, <1>1, <1>7 DEF AgreeInv, QueuesOK, ChannelOK, StreamOK, ServedOK
  <2>2. RequestsOK'
    BY Zenon, <1>1, <1>2, <1>7 DEF AgreeInv, RequestsOK
  <2>. QED
    BY Zenon, <1>2, <1>7, <2>1, <2>2 DEF AgreeInv
<1>8. CASE UNCHANGED <<agent, up>> /\ down' = [down EXCEPT ![CONTROL] = Append(down[CONTROL], m)]
  <2>1. /\ down'[CONTROL] = Append(down[CONTROL], m)
        /\ \A o \in Channels \ {CONTROL} : down'[o] = down[o]
    BY Zenon, <1>3, <1>8, ControlChannel
  <2>2. DownOK(Append(down[CONTROL], m), request)
    BY Zenon, <1>3, <1>4, <1>5, DownConcat DEF AgreeInv, RequestsOK
  <2>3. RequestsOK'
    BY Zenon, <1>1, <1>2, <1>8, <2>1, <2>2 DEF RequestsOK
  <2>4. ChannelOK(CONTROL) /\ ServedOK
    BY Zenon, ControlChannel DEF AgreeInv, QueuesOK
  <2>5. ChannelOK(CONTROL)'
    BY Zenon, <1>1, <1>6, <1>8, <2>4 DEF ChannelOK
  <2>6. \A i \in 1..Len(Append(down[CONTROL], m)) : Append(down[CONTROL], m)[i].type \in Results
    <3>1. \A i \in 1..Len(down[CONTROL]) : down[CONTROL][i].type \in Results
      BY Zenon, <1>6, <2>4 DEF ServedOK
    <3>2. PICK s \in Seq(DownMsg) : s = down[CONTROL]
      BY <1>3
    <3>3. \A i \in 1..Len(Append(s, m)) :
            (i \in 1..Len(s) /\ Append(s, m)[i] = s[i]) \/ Append(s, m)[i] = m
      BY <1>5, <3>2, Appended
    <3>. QED
      BY Zenon, <1>4, <1>5, <3>1, <3>2, <3>3
  <2>7. ServedOK'
    BY Zenon, <1>1, <1>6, <1>8, <2>1, <2>4, <2>6 DEF ServedOK
  <2>8. QueuesOK'
    BY Zenon, <1>1, <1>8, <2>1, <2>5, <2>7, ControlChannel, ControlAssumption, OneChannel DEF AgreeInv
  <2>. QED
    BY Zenon, <1>2, <1>8, <2>3, <2>8 DEF AgreeInv
<1>9. CASE /\ agent' = [agent EXCEPT ![CONTROL] = "closed"] /\ up' = [up EXCEPT ![CONTROL] = <<>>]
           /\ UNCHANGED down
  <2>1. Sides' /\ QueuesOK' /\ up'[CONTROL] \in {up[CONTROL], <<>>}
    BY Zenon, <1>1, <1>9, ControlChannel, ChannelCloses
  <2>2. UpOK(<<>>, request, work')
    BY Zenon, TextQueues
  <2>3. RequestsOK'
    BY Zenon, <1>1, <1>2, <1>9, <2>1, <2>2 DEF AgreeInv, RequestsOK
  <2>. QED
    BY Zenon, <1>2, <2>1, <2>3 DEF AgreeInv
<1>. QED
  BY Zenon, <1>1, <1>7, <1>8, <1>9

\* A goroutine ends: its slot is free again.
LEMMA ReleaseAgrees ==
  ASSUME OkInv, AgreeInv, NEW r \in Requests, Release(r)
  PROVE  AgreeInv'
<1>1. /\ work[r].at = "release" /\ slots' = slots - 1
      /\ work' = [work EXCEPT ![r] = [at |-> "idle", type |-> None, code |-> None]]
      /\ UNCHANGED <<temporary, target, labels, agent, browser, ready, up, down, request, clash>>
  BY DEF Release, Returned
<1>2. work \in [Requests -> Work] /\ up[CONTROL] \in Seq(UpMsg)
  BY Zenon, Contents
<1>3. work'[r].at = "idle" /\ \A q \in Requests \ {r} : work'[q] = work[q]
  BY Zenon, <1>1, <1>2
<1>4. Working(work') = Working(work) \ {r} /\ r \in Working(work)
  BY Zenon, <1>1, <1>3 DEF Working
<1>5. IsFiniteSet(Working(work')) /\ Cardinality(Working(work')) = Cardinality(Working(work)) - 1
  BY Zenon, <1>4, FS_RemoveElement DEF AgreeInv, SlotsOK
<1>6. slots' = Cardinality(Working(work'))
  BY <1>1, <1>5 DEF AgreeInv, SlotsOK
<1>7. Cardinality(Working(work')) \in Nat
  BY Zenon, <1>5, FS_CardinalityType
<1>8. slots' \in 0..Slots
  <2>1. slots \in 0..Slots /\ slots' = slots - 1 /\ slots' \in Nat
    BY Zenon, <1>1, <1>6, <1>7 DEF AgreeInv, SlotsOK
  <2>. QED
    BY <2>1, ControlAssumption
<1>9. SlotsOK'
  BY Zenon, <1>1, <1>4, <1>5, <1>6, <1>8 DEF AgreeInv, SlotsOK
<1>10. UpOK(up[CONTROL], request, work')
  <2>1. \A i \in 1..Len(up[CONTROL]) : up[CONTROL][i] \in UpMsg
    BY <1>2
  <2>2. \A i \in 1..Len(up[CONTROL]) : up[CONTROL][i].type \in Kinds => up[CONTROL][i].id \in Requests
    BY <2>1, PingMade DEF UpMsg, Kinds
  <2>. QED
    BY Zenon, <1>3, <2>2 DEF AgreeInv, RequestsOK, UpOK
<1>11. WorkOK(request, work')
  BY Zenon, <1>3 DEF AgreeInv, RequestsOK, WorkOK
<1>12. Sides' /\ RequestsOK'
  BY Zenon, <1>1, <1>10, <1>11 DEF AgreeInv, Sides, RequestsOK
<1>13. QueuesOK'
  BY Zenon, <1>1 DEF AgreeInv, QueuesOK, ChannelOK, StreamOK, ServedOK
<1>. QED
  BY Zenon, <1>9, <1>12, <1>13 DEF AgreeInv

\* A step of a goroutine.
LEMMA GoroutineAgrees ==
  ASSUME OkInv, AgreeInv, NEW r \in Requests, Goroutine(r)
  PROVE  AgreeInv'
<1>1. CASE Check(r) \/ Prepare(r) \/ Commit(r) \/ RunDiagnostic(r)
  <2>1. /\ work[r].at # "idle"
        /\ UNCHANGED <<temporary, labels, agent, browser, ready, up, down, request, slots, clash>>
    BY Zenon, <1>1 DEF Check, Prepare, Commit, RunDiagnostic
  <2>2. \E at, code : at # "idle" /\ Goes(r, at, code)
    <3>1. CASE Check(r)
      <4>1. (\E code : Goes(r, "send", code)) \/ Goes(r, "prepare", None)
        BY Zenon, <3>1 DEF Check, Replies
      <4>. QED
        BY Zenon, <4>1
    <3>2. CASE Prepare(r)
      <4>1. Goes(r, "commit", None) \/ \E code : Goes(r, "send", code)
        BY Zenon, <3>2 DEF Prepare, Replies
      <4>. QED
        BY Zenon, <4>1
    <3>3. CASE Commit(r)
      BY Zenon, <3>3 DEF Commit, Replies
    <3>4. CASE RunDiagnostic(r)
      BY Zenon, <3>4 DEF RunDiagnostic, Replies
    <3>. QED
      BY Zenon, <1>1, <3>1, <3>2, <3>3, <3>4
  <2>3. Sides' /\ SlotsOK' /\ UpOK(up[CONTROL], request, work') /\ WorkOK(request, work')
    BY Zenon, <2>1, <2>2, GoesOn DEF AgreeInv, Sides
  <2>4. RequestsOK'
    <3>1. DownOK(down[CONTROL], request)
      BY Zenon DEF AgreeInv, RequestsOK
    <3>. QED
      BY Zenon, <2>1, <2>3, <3>1 DEF RequestsOK
  <2>5. QueuesOK'
    BY Zenon, <2>1 DEF AgreeInv, QueuesOK, ChannelOK, StreamOK, ServedOK
  <2>. QED
    BY Zenon, <2>3, <2>4, <2>5 DEF AgreeInv
<1>. QED
  BY <1>1, SendAgrees, ReleaseAgrees DEF Goroutine
-----------------------------------------------------------------------------
\* Initially nothing but the capabilities is on its way.
LEMMA AgreeInit == Init => AgreeInv
<1>. SUFFICES ASSUME Init PROVE AgreeInv
  OBVIOUS
<1>1. /\ \A c \in Channels : /\ agent[c] = "auth" /\ browser[c] = "auth-ok"
                             /\ up[c] = <<Text("auth")>> /\ down[c] = <<>>
      /\ labels = {} /\ \A r \in Requests : work[r].at = "idle"
  BY Zenon DEF Init
<1>2. Sides
  BY DEF Init, Sides
<1>3. QueuesOK
  <2>1. \A c \in Channels : ChannelOK(c)
    BY Zenon, <1>1 DEF ChannelOK
  <2>2. \A c \in Streams : StreamOK(c)
    BY Zenon, <1>1 DEF StreamOK, Channels
  <2>3. ServedOK
    BY <1>1, ControlChannel DEF ServedOK
  <2>. QED
    BY Zenon, <2>1, <2>2, <2>3 DEF QueuesOK
<1>4. UpOK(<<Text("auth")>>, request, work) /\ DownOK(<<>>, request)
  BY Zenon, TextQueues
<1>5. RequestsOK
  BY Zenon, <1>1, <1>4, ControlChannel DEF RequestsOK, WorkOK
<1>6. Working(work) = {} /\ slots = 0
  BY <1>1 DEF Working, Init
<1>7. SlotsOK
  BY <1>6, FS_EmptySet, ControlAssumption DEF SlotsOK
<1>. QED
  BY Zenon, <1>2, <1>3, <1>5, <1>7 DEF AgreeInv

\* Every step keeps the agreement.
LEMMA AgreeStep == OkInv /\ AgreeInv /\ OkInv' /\ [Next]_vars => AgreeInv'
<1>. SUFFICES ASSUME OkInv, AgreeInv, OkInv', [Next]_vars PROVE AgreeInv'
  BY Zenon
<1>1. CASE UNCHANGED vars
  BY Zenon, <1>1 DEF vars, AgreeInv, Sides, QueuesOK, ChannelOK, StreamOK, ServedOK, RequestsOK, SlotsOK
<1>2. CASE PeerClosedByPage \/ PeerClosedByAgent
  BY <1>2, PageClosesAgrees, PeerClosesAgrees
<1>3. ASSUME NEW c \in Channels, CloseEvent(c) \/ Authenticate(c) \/ Ready(c) \/ Awaited(c)
      PROVE  AgreeInv'
  BY Zenon, <1>3, PageClosesAgrees, AuthenticateAgrees, ReadyAgrees, AwaitedAgrees
<1>4. ASSUME NEW r \in Requests,
             \/ \E values \in {"valid", "invalid", "long"} : Dns(r, values)
             \/ PingTarget(r)
             \/ \E values \in {"valid", "long"} : ConfigureTemporary(r, values)
      PROVE  AgreeInv'
  <2>1. PICK kind \in Kinds, form \in Sent : Asks(r, kind, form)
    BY Zenon, <1>4, ButtonsAsk
  <2>. QED
    BY <2>1, AskAgrees
<1>5. ASSUME NEW r \in Requests, Timeout(r) \/ Goroutine(r) PROVE AgreeInv'
  BY <1>5, TimeoutAgrees, GoroutineAgrees
<1>6. CASE Receive \/ Handle
  BY <1>6, ReceiveAgrees, HandleAgrees
<1>. QED
  BY Zenon, <1>1, <1>2, <1>3, <1>4, <1>5, <1>6 DEF Next

\* For any number of requests, Wisp channels and slots, and however many addresses a lookup
\* finds: no side ever closes a channel over the type, fields, code or length of a message,
\* except the Agent over a request of more than 512 bytes.
THEOREM ProtocolAgreedAlways == Spec => []ProtocolAgreed
<1>1. OkInv /\ AgreeInv => ProtocolAgreed
  BY Zenon DEF AgreeInv, Sides, SlotsOK, OkInv, Typed, ProtocolAgreed, TypeOK, Work, Asked
<1>2. Spec => []OkInv
  BY ControlInvariant
<1>3. Init => AgreeInv
  BY AgreeInit
<1>4. OkInv /\ AgreeInv /\ OkInv' /\ [Next]_vars => AgreeInv'
  BY AgreeStep
<1>. QED
  BY <1>1, <1>2, <1>3, <1>4, PTL DEF Spec
=============================================================================

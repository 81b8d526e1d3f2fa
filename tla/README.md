# A TLA+ model of SCWebVPN

SCWebVPN connects a browser (Edge) to services of a home network. A public
**Controller** authenticates users, keeps a catalogue of services and relays
signaling; an **Agent** on an OpenWrt router polls the Controller for offers,
answers them, and serves the browser over a WebRTC peer connection. Service
traffic is carried by the **Wisp** protocol on data channels and never passes
the Controller.

This directory models the parts of that system whose correctness depends on
the order of concurrent steps, on the Controller, the Agent and the browser's
side. TLC checks the modules on small instances; TLAPS proves what matters most
for all values of the constants. `PROJECT.json` gives, for every definition,
the source lines it models.

## 1. The system and the modules

| Part | Source | Module | State |
| --- | --- | --- | --- |
| Signaling broker | `internal/signaling/broker.go` | `Broker`, abstract `OfferLifecycle`, proofs `BrokerProofs` | modelled |
| Browser sessions, temporary services, logout | `internal/session`, `internal/catalog`, `internal/storage/sqlite_store.go`, handlers of `internal/controller/server.go` | `Leases`, proofs `LeasesProofs` | modelled |
| Agent enrolment, key file | `internal/binding`, `internal/agent/key.go`, `cmd/agent/main.go` (bind) | `Enrolment`, proofs `EnrolmentProofs` | modelled |
| Signed requests, nonces, presence | `internal/identity`, `internal/presence`, `internal/agent/controller_client.go` | `Identity`, proofs `IdentityProofs` | modelled |
| Agent offer loop, peers | `internal/agent/runtime.go` | `Agent`, proofs `AgentProofs` | modelled |
| Data channels, control protocol | `internal/agent/runtime.go`, `web/src/connection.ts` | `Control`, proofs `ControlProofs` | modelled, both sides |
| Wisp server | `internal/wisp/server.go` | `WispStreams`; `WispFlow` and `WispSend`, composed in `Wisp`; proofs `WispProofs` | modelled |
| Browser connections | `web/src/connection.ts`, `web/src/app.ts` | `Browser`, proofs `PageProofs` | modelled; `app.ts` partly |
| Proxy transport | `web/src/compat.ts`, `rtc-stream.ts`, `scramjet.ts`, `controller-sw.js` | `Transport`, proofs `PageProofs` | modelled |
| Remote desktop page | `integrations/lan-remote-access/rustdesk-web-build/classic-ui.js` | `Viewer`, proofs `PageProofs` | partly |

What is left out is listed in section 5. The modules named `MC...` only give
constants that a `.cfg` cannot express.

How they interact. A browser's `connect` (Browser) posts an offer; the handler
`createConnection` (Leases) authorises it, inserts a session and deposits the
offer (Broker, `Create`). The Agent's long poll (Broker, `Next`) takes it; its
loop (Agent) negotiates a peer and posts the answer (Broker, `Finish`), which
the browser fetches (Broker, `Status`). The Agent signs both of its calls
(Identity). When the peers are connected, the browser authenticates each data
channel (Control); Wisp servers then run on those for streams (WispStreams,
Wisp), and the control channel takes diagnostics and the address of a temporary
service. The page that is shown makes its requests through a service worker and
the transport of the connection (Transport). A lost connection is restarted
from the browser with an offer that names an earlier one (`restart_of`), which
goes the same way.

### State and actions

**Broker.** `sessions` is the set of keys of the broker's map, `entries` every
entry ever allocated (so that properties can speak of pruned ones), `token`
the one-slot notification channels. Every method works under the mutex and is
one step, with two exceptions: `Create` reads the clock before it locks
(`CreateCall`, `CreateLocked`), and `Next` releases the lock before it waits
(`NextCall`, `NextLocked`, `NextWake`, `NextCancel`). `Finish` and `Status`
are single steps. Pruning is part of each locked step. Descriptions are
abstracted to well-formed or not. `deliveries`, `shown` and the field `alone`
are history.

**OfferLifecycle** says what the broker promises of one offer: it is posted,
taken, settled with one outcome, and at any stage gone, in this order and once.

**Leases.** Rows of `services` and `browser_sessions`, and the requests being
handled. SQLite makes a statement atomic and the handlers use no transaction
across statements, so each statement is a step; a handler carries the clock
value it read at the start. A request can fail or be abandoned after any
statement (`Return`).

**Enrolment.** The tables `binding_codes` and `agents`, each machine's key
file (absent, empty, full; synced or not), the runs of the `bind` subcommand and
their requests. Several runs can share a machine: each call on the key file is a
step, so a run can find the file another run has just created (`Reload`), or
lose to it between looking and creating. `hasty` records the keys that were
loaded from a file its creator had not finished. `ConsumeBindingCode` is one
step because the code runs it in a transaction. `PowerLoss` and `End` come at any step; a request may be handled
long after its sender gave up, or never.

**Agent.** `loop` is the position of `Runtime.Run` with the offer in hand,
`peers` the peers and the parts of `close()` they have gone through, `routes`
the runtime's map. Handlers of connection states run in goroutines of their
own, hence in any order (`pending`).

**Identity.** A client (an Agent's process) asks for a challenge, signs and
sends; a request is delivered up to twice and late, and each delivery is a
handler: `Verify`, `ReadClock`, `ConsumeNonce`, `Touch`, `Apply` are its steps,
since SQLite makes one statement atomic. A signature is the name of the key
that made it. Clocks of Agents are off by a fixed `skew`.

**Control.** `agent[c]` is the handler the Agent has on channel c, `browser[c]`
the message the browser awaits there, `up` and `down` what is on its way.
`request[r]` is a promise of `ControlClient` with its timer, `work[r]` the
goroutine that serves it, with one place for each stretch between two locks.
A message carries what its reader tests. `Request` turns the type, the fields
and their values, which the caller gives as the code does, into the case of
`handleControl`, and into *long*, *malformed*, *invalid* or *valid*; `Told` turns
a code and a number of addresses into *long*, *unlisted*, *ok* or *other*. `clash` is set
whenever a side closes the channel over a message, except over a request of
more than 512 bytes; a failed `SendText` or `Start` closes it without that.

**WispStreams** models the table of streams and each stream's goroutines
(`connect`, `writeLoop`, `readLoop`, and whoever runs `close`). **WispFlow** is
the FIFO and the CONTINUE credit of one stream as if a CONTINUE were sent at
once. **WispSend** is `sendFrame`: senders, the mutex, the buffer and the token
of the low-buffer callback. **Wisp** composes them: `report` is the capacity
`writeLoop` has read and is trying to send, `held` says which CONTINUE packets
are still in the buffer. Composed, the stream implements WispFlow if a CONTINUE
counts as under way from the moment its capacity was read.

**Browser.** JavaScript runs one task at a time, so a step is the code between
two awaits. `call[c]` is the await at which `app.connect` stands, `conn[c]`
the `DirectConnection` it made, `frame` the calls of `restart`. The end of the
page (unload) is not modelled, nor are status texts.

**Transport.** `load` is the await of each call of `loadRemote`, `controller`
and `via` the Scramjet controller and the transport it was given last, `iframe`
what is shown; `request[r]` goes from the worker's loop through the page to the
chain `fetchQueue` and to the write side of the channel. Scramjet and Epoxy are
external: they appear as the answer to a request, or its rejection when the
reading side of the transport ends. `rejected` says whether the promise
`fetchQueue` is a rejected one, on which a chained fetch would fail at once. Closing an `RTCPeerConnection` need not
fire `close` on its channels, so a channel the page closes is `closed` (the
event is due) or `silent` (it never comes).

**Viewer.** The panel shown, the first-frame timer, and the pointer, whose
moves wait for the next animation frame while a press is sent at once, with a
place of its own, as a touch has it. Each callback is a step.

## 2. Runs

Each run finishes in about three minutes or less on two cores. Types are part of the
first invariant of a run (`NoOrphanPeer`, `LeaseBounded`, `OneRestart`,
`ProtocolAgreed`, `CodeBindsOne`, `LiveIsListed`, `FetchesInTurn`,
`TimeoutIsGenuine`) or proved (Broker, WispFlow, WispSend, Identity).

| Run | Instance | Checked | Shows |
| --- | --- | --- | --- |
| `Broker` (fair) | 2 ids, 2 users, 2 polls of one Agent, TTL 1, time to 1 | `RestartKeepsGrant`, `NoLostWakeup`, `ImplementsLifecycle`, `OfferTaken` | restarts, rival polls, expiry, late results; refinement |
| `Leases` | 2 users, 1 service row, 1 session row, 2 requests, idle 2, absolute 3, time to 3 | `LeaseBounded`, `TemporaryNeverPublic`, `LogoutEndsTemporary`, `RevocationFinal` | statements of two requests interleave with stale clocks |
| `Enrolment` | 2 machines, runs, codes, keys, ids, requests; TTL 1 | `CodeBindsOne`, `BoundKeyOnDisk` | races for a code and for a key file, kills, power failures, late requests |
| `Identity` | 3 processes: an Agent whose clock may be off, one with its id and another key, one never bound; 2 nonces, 2 copies, TTL 2, time to 3 | `NonceSpentOnce`, `AcceptedFresh`, `OnlyOverlapRewinds` | repeated and late deliveries, clients that gave up |
| `Agent` (fair) | 2 offers, 2 peers, 1 restart, handlers pending | `NoOrphanPeer`, `StoppedClosesAll`, `OnlyRaceLeaks`, `LoopReturns`, `LossClosesPeer` | failed negotiations, lost answers, callbacks racing the loop, shutdown |
| `Control` (fair) | 3 requests, 1 Wisp channel, 2 slots, lookups that find 1 or 20 addresses | `ProtocolAgreed`, `OkMeansTarget`, `TargetSetOnce`, `RequestsSettle`, `BusyEnds` | late answers, goroutines racing for the target, refused and overlong messages, failing sends, channels closed by either side |
| `Wisp` (fair) | allowance 3, threshold 2, 2 senders, limit 1 | `ImplementsFlow`, `CreditReturns`, `SendReturns` | a CONTINUE that waits behind others, a channel that closes meanwhile |
| `WispStreams` (fair) | 2 ids, 2 stream objects, limit 1 | `LiveIsListed`, `NoLeakedConnection`, `GoroutinesEnd`, `ChannelCloseEndsAll` | dial racing close, ids used again, closing channel |
| `WispStreamsPanic` | 1 stream | `CancelledStreamsEnd`, violated | the finding below |
| `Browser` (fair) | 2 connect calls, 2 restart frames, 2 restarts, 1 loss | `OneRestart`, `OnlyOverlapLeaks`, `DisconnectMissesOnlyPending`, `LossResolved` | clicks, timers and peer events between awaits |
| `Transport` (fair) | 2 loads, 2 requests, 2 attempts, limit 1 packet | `FetchesInTurn`, `OnlyOverlapMixes`, `RequestsAnswered` | restarted worker, full buffer, failed fetches, silent closing |
| `Viewer` (fair) | 3 places of the pointer | `TimeoutIsGenuine`, `WaitEnds`, `PointerArrives` | messages, frames, timer, moves and presses in any order |

Deadlock is checked except where the system really stops: the Agent after
`Run` returned, a Wisp stream or channel after it was closed, a page or a
control channel whose bounded inputs are used up.

### Why the bounds are enough

* Two ids, two polls and one creator are what a race on an offer needs: a
  rival poll, and a second offer whose notification finds the channel full. The
  clock runs to the end of an entry's lifetime. The proofs remove the bounds.
* In `Leases` a lookup and a logout, or two lookups with different clocks, are
  the interacting pairs; every table row is touched by at most two of them. The
  times let a session be renewed, reach the absolute limit and expire.
* Two machines, runs, codes and keys give races for one code, for one key and,
  with both runs on one machine, for one key file.
* One restart is enough to tell an alias from the offer it follows. Peers share
  the loop and the map only, so two are enough.
* In `Control` two requests can race for the target, and a third finds no slot;
  each can be answered after its timer. One address fits a result, and 20 would
  not if `runDiagnostic` named them all.
* With an allowance of 3 and a threshold of 2 the FIFO fills and overflows
  (`throttled` is reached), and CONTINUE is sent at more than one filling while
  another sender fills the buffer.
* One stream more than the limit and one id used twice are the edge cases of
  the stream table.
* Two connect calls, and two loads, are needed for an overlap. One loss is
  enough for both windows and retries, as a single loss can use up both
  restarts.
* Two requests are a fetch and the one behind it; two attempts, a failed and a
  last one.

Named bounds: `MaxTime`, `MaxPending`, `MaxWire`, `MaxContinues`, `MaxLosses`,
and the sizes of the id sets (ids are random in the code and never repeat).
`Transport` lets other users of a channel write only while a request could meet
the full buffer, which changes no request's behaviour.

### Fairness

* Broker: a call of `Next` that can take its lock or a token does, its context
  expires after 25 s, and `Run` polls again. Creators, browsers and the clock
  owe nothing.
* Agent: goroutines run; gathering ends while the peer is open. Nothing is
  assumed of the network or of offers.
* Control: timers fire, and goroutines run to their end, since lookups and
  pings have timeouts. No message need be delivered.
* Wisp: goroutines run; the target reads; the mutex does not starve a waiter,
  which Go's starvation mode guarantees, hence the strong fairness of `Lock`;
  the channel drains and the browser reads until it is closed; `Server.Close`
  closes the streams of a closed channel. In `WispStreams` a dial times out and
  a read on a closed connection returns.
* Browser: timers fire, and each await of `restart` is answered, rejected or
  times out. Nothing is assumed of the awaits of `connect`: by the WebRTC
  standard a local `close()` need not fire events on the data channels.
* Transport: the event loops of page and worker run, an open channel drains,
  and the target answers a request or the Agent ends its stream. A target that
  does neither blocks all requests of its page; the code sets no timeout, and
  `RequestsAnswered` says nothing of it. Nothing is assumed of the loads.
* Viewer: the timer and the animation frame. The RustDesk client owes nothing.

## 3. Findings

*Code bug* (`WispStreamsPanic`). In `stream.connect` a connection that arrives
after the context was cancelled is closed and set to nil, but `readLoop` is
started with it and panics. `WISP_WEBRTC_BINDING.md:51` says that closing the
peer connection cancels its streams.

Behaviours the passing properties make explicit as exceptions:

* A rival poll can consume the only token: `NoLostWakeup` speaks of lone polls,
  and `OfferTaken` shows that the poll's deadline makes up for it.
* `addAlias` overlapping `close` leaves a map entry (`OnlyRaceLeaks`).
* A key file whose creator was killed before `Sync`, or is not done with it yet,
  is used as it is; the file can be lost after its key was bound
  (`BoundKeyOnDisk`, `hasty`).
* A DNS name or a host that makes a request longer than 512 bytes, which the
  page does not prevent, closes the control channel (`ProtocolAgreed`).
* `last_seen_at` can go back when a client gave up on a call or a request was
  delivered twice (`OnlyOverlapRewinds`).
* Two overlapping connect calls leave one connection nobody can close
  (`OnlyOverlapLeaks`). Disconnect while `connect` waits for `agentOnline` does
  not stop it: the connection is made afterwards (`DisconnectMissesOnlyPending`).
* A window that ends during `selectedPair` of a restart is lost
  (`LossResolved`, `missed`).
* Two overlapping calls of `loadRemote` show the first call's address through
  the second's transport (`OnlyOverlapMixes`).
* A request on a connection the page closed waits for good if the browser
  leaves out the close event (`RequestsAnswered`).
* A press at another place than a move that still waits for its animation frame
  is sent before that move, and the remote pointer rests at the older place
  until the next move (`PointerArrives`, `overtaken`).

Seen while modelling, and covered by no property: a late failure of a replaced
connection reaches `failP2P`, which closes the current one; after a failed
connect the button of a temporary service stays disabled; a *connecting*
message after the first-frame timeout hides the button that offers to retry; when
`start` fails after *success* its error is shown and the timer goes on, so that
the timeout can replace it.

## 4. Proofs

`BrokerProofs` proves for all sets, any TTL and any number of calls:

* `TypeCorrect`: `TypeOK`, which is inductive.
* `DeliveredOnceAlways`, `OneOutcomeAlways`: from `HistoryInv`. The properties
  say nothing of ids not drawn yet, and a result must be known to follow a
  claim; `HistoryInv` adds both.
* `RestartKeepsGrantAlways`, `RestartWithinTTLAlways`: entries are never
  changed in what they were created with (`EntryFixed`), and are added by
  `Create` only, after its comparison with the parent (`EntryAdded`).
* `ExpiredInert`: an action property; each locked step works on the entries
  its own pruning left.
* `NoLostWakeupAlways`: strengthened with what is known of a lone poll from
  the moment it finds nothing under the lock to the moment it waits.
* `Refinement`: `Spec` implements `OfferLifecycle`; `Stage` and `Outcome` are
  the mapping.

`WispProofs` covers the four modules of the Wisp server.

* `WispFlow`: `FlowTypeCorrect` and `NoCreditDeadlockAlways`. The inductive
  invariant is `EnoughToCome`: the last grant, the packets on the way and
  `writeLoop`'s counter add up to the allowance; the counter alone is below the
  threshold, hence something else is not zero.
* `WispSend`: `SendTypeCorrect` (which contains the mutual exclusion of
  `sendMu`) and `BufferBoundedAlways`, from the fact that a sender about to
  send found at most `High` buffered and nobody has added to it since.
* The composition `Wisp` implements both of its parts. `WispImplementsSend` and
  with it `WispBufferBounded` follow step by step. `WispRefinement`
  (`ImplementsFlow`) needs `WispInv`: while `writeLoop` is inside `sendFrame`
  the packet it carries is the capacity it had computed, so that the last step
  of sending is the `CONTINUE` of `WispFlow`.
* `WispStreams`: `LiveIsListedAlways` and `NoLeakedConnectionAlways`, from
  `StreamsInv`. A stream that is cancelled and not yet removed is listed too,
  so no other stream can have got its id when `close` deletes the entry.

`AgentProofs`: `NoOrphanPeerAlways`, `StoppedClosesAllAlways` and
`OnlyRaceLeaksAlways`, from `AgentInv`. `NoOrphanPeer` speaks of the moments
between two offers; while an offer is handled the peer in hand may have no
alias, and its newest alias no route or no delivered answer, and `LoopInv` and
`PeerInv` say where the loop is then. A route to a closing peer is among the
aliases `close()` has collected and will delete, unless `addAlias` came after.

`PageProofs` covers the three modules of the pages.

* `Browser`: `OneRestartAlways`, `OnlyOverlapLeaksAlways` and
  `DisconnectMissesOnlyPendingAlways`, from `BrowserInv`. `RestartOK`: without
  the flag `restarting` no call of `restart` is in progress, with it exactly
  one; a call that pauses before its own retry has not used up the counter.
  `LeakInv`: a call of `app.connect` that waits for `agentOnline` has closed
  the current connection, so one that is open all the same overlapped it.
* `Transport`: `FetchesInTurnAlways`, `OwnFetchAlways` and
  `OnlyOverlapMixesAlways`, from `TransportInv` and `Unrejected`, which says that
  no failed fetch leaves its queue rejected. `RequestInv`: a fetch under way is the first of its
  transport's queue, one that is chained is somewhere in it. `LoadInv`: as long
  as no two calls of `loadRemote` overlapped, the one that waits made the
  current controller and the frame shows what its controller reaches.
* `Viewer`: `TimeoutIsGenuineAlways`; the property, which contains the types, is
  inductive as it stands.

`IdentityProofs`: `IdentityTypeCorrect`, `NonceSpentOnceAlways` and
`AcceptedFreshAlways`. `IdentityInv` adds the order of the clock readings of a
call (`CallOrdered`), and what a handler knows of the call it serves from its
arrival to `ConsumeNonce` (`HandlerOrdered`). `OnlyOverlapRewindsAlways` is
proved from `RewindInv` on top of it: a process none of whose calls was given
up or delivered twice has one request under way, the one its client awaits;
nobody else touches its row between reading the clock and `Touch`, so the time
about to be stored is not behind the row.

`LeasesProofs`: `LeasesBounded`, `TemporaryStaysPrivate`, `LogoutComplete` and
`RevocationIsFinal`, all from `LeaseInv`. None of the four is inductive:
`LeaseInv` adds what each handler knows at each of its statements (`CallOK`: a
restart past its lookup has a row, ids that were drawn and not inserted are
new), that no two calls are about to insert the same row (`Unique`), and that
whoever has a session on an enabled temporary service owns it (`Entitled`);
the last is why revoking the *services* at logout also ends the sessions that
were inserted after the *sessions* had been revoked. `Evolve` is what any step
may do to the rows, and contains `RevocationFinal`.

`EnrolmentProofs`: `CodeBindsOneAlways` and `BoundKeyOnDiskAlways`, from
`EnrolInv`. Because of `O_EXCL` a file has one creator (`OneCreator`); each step
of `bind` is related to the state of the file (`StageOK`); a key that is loaded is in
a file that is synced and closed (`Finished`), or it is recorded in `hasty`.
Hence every key that leaves a machine is safe (`Safe`), and only the creator of
a file, before it is finished, removes or changes it.

`ControlProofs`: `OkMeansTargetAlways` and `TargetSetOnceAlways`, from `OkInv`:
wherever an *ok* is, in a goroutine, in the queue of the channel or with the
caller, the target is that of its request. `ProtocolAgreedAlways` is proved from
`AgreeInv`: what may be on its way in each queue given how far the two sides of
the channel are (`QueuesOK`), where a request is never malformed (`Sent`) and a
result never too long or of an unknown code (`Said`, since eight addresses fit), that a request is on its way, with a goroutine or
answered exactly once and its result has the type its caller waits for
(`RequestsOK`), and that the slots taken are as many as there are goroutines
(`SlotsOK`).

The only assumptions are the named `ASSUME`s of the modules: sentinel values
differ from real ones, times and bounds are naturals, the TTLs, the threshold
and the number of attempts are positive, the threshold does not exceed the
allowance, nor a low-water mark its high-water mark, nor the idle TTL the
absolute one; the page can call `restart`; it opens finitely many channels, no
more than `onDataChannel` accepts; every Agent id has one process that holds
its key.

With this every safety property of the passing runs is a theorem. Only
model-checked are the liveness properties (`OfferTaken`, `LoopReturns`,
`LossClosesPeer`, `RequestsSettle`, `BusyEnds`, `CreditReturns`, `SendReturns`,
`GoroutinesEnd`, `ChannelCloseEndsAll`, `LossResolved`, the first part of `RequestsAnswered`,
`WaitEnds`, `PointerArrives`): they depend on fairness, which is out of the
prover's reach. `CancelledStreamsEnd` is violated (section 3).

## 5. Not modelled

* `internal/agent/policy.go`, `tls.go`, `config.go`: configuration parsing and
  pure predicates on addresses and certificates. Agent, Control and WispStreams
  see their verdict as a free choice. Of `diagnostics.go` only the codes are
  modelled; the rest is one ICMP probe.
* `internal/httpapi`: a check of headers set by the reverse proxy; its result
  is the user of the other modules.
* Start-up, configuration, audit and migrations of the Controller: one-shot or
  pure I/O.
* `web/src/virtual.ts`, `transport-policy.ts`, `responseHeaders` of `compat.ts`:
  pure rewriting of addresses and headers, text to text.
* In `app.ts`: rendering, the form for temporary services, and the panel of the
  binding code, which hold one request or one timer each and share no state with
  the connections. In `classic-ui.js`: keys, wheel, text and password are passed
  on to the client without state of their own.
* `libopus.js` (compiled Opus, seven tenths of the repository's JavaScript),
  `yuv-canvas` (WebGL shaders and their generated form) and `yuv.js`, a
  worker that belongs to the Flutter UI and is not loaded by this page: vendored
  or generated codecs whose content is arithmetic on samples. A model of them
  would be a transliteration.
* Installation and packaging scripts.

Not composed: Browser, Broker and Agent for one connection. Each is checked
against the others' interface (an offer is posted, taken and answered at most
once); together they exceed what TLC explores in a few minutes.

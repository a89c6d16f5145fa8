# Verification of the-tubes

the-tubes exposes a local service on the internet: a server accepts external HTTP and
WebSocket requests for `<tunnelId>.<domain>` and passes each of them, over a TCP connection
that the client opened, to a service next to the client. This directory holds TLA+ models of
its protocol code, the TLC configurations that check them, and TLAPS proofs about them.
Paths below are relative to the repository's `src/`.

## 1. The system

One server process and any number of client processes, each a single Node.js thread. A client
asks for a tunnel over HTTPS, keeps one *control channel* (a WebSocket that carries JSON frames)
and opens one TCP *data socket* per external request. A *pair* is a data socket spliced to an
external request. Everything that happens is a callback: an arriving request or frame, a socket
event, or a timer.

| Component | State it keeps | Operations | Talks to |
|---|---|---|---|
| Server tunnel: `server/tunnel.js`, `tunnel-agent.js`, `control-session.js` | current control session, reconnect timer, pairs, reservations, data sockets | attach session, hello, frames, open pair, data socket, replacement, relay, destroy | client cluster (frames, data sockets), registry (its `close`) |
| Tunnel registry: `server/tunnel-manager.js`, `control-upgrade.js` | tunnels by id, reservations by session token, ports, event logs, log timers | create or reclaim, upgrade, close, shutdown | tunnels, admin routes |
| Admission: `server/rate-limiter.js`, `blocklist.js`, dispatch in `server/index.js` | hit windows, temporary blocks, permanent list and its file | probe, collect, block, unblock, restart | admin routes |
| Event logs: `server/admin/event-log.js`, `client/admin/event-log.js` | ring buffer, SSE subscribers, forwarder to the global log | append, forward, clear, subscribe, destroy | registry, dashboards |
| Client control channel: `client/control-channel.js`, `reconnect-policy.js` | connection, previous control id, retry index | connect, hello, heartbeat, retry, close | server tunnel, client cluster |
| Client cluster: `client/tunnel-cluster.js`, `failure-tracker.js` | pairs (data socket and local socket), failure budget | pair.open, pair.close, resume with `REPLACES`, local dial | server tunnel, local service |
| Client lifecycle: `client/tunnel.js`, `client/index.js` | granted tunnel, exit state | request tunnel, wire the two above, dead tunnel, close | registry |
| Request signing: `common/hmac.js`, `nonce-cache.js`, `server/hmac-middleware.js` | nonces seen, and until when | sign, verify, clean up | every API call |
| Stream codecs: parts of `server/tunnel.js`, `common/ws-framing.js`, `client/header-host-transformer.js`, parts of `client/tunnel-cluster.js` | unparsed rest of a stream | push a segment | relays, control sessions |
| Replay: `replay/*`, `client/admin/server.js` | the lock, the position in the script | run a manifest, report its steps | client dashboard |
| Dashboard pages: `server/admin/pages.js`, `client/admin/page.js` | what the browser shows | apply snapshots, events and answers | event logs |
| Admin tokens, configuration, CLI, legacy servers | none that the protocol depends on | | |

### What is hard about it

* **Interleavings of callbacks.** Between any two callbacks of a pair every other event may
  occur: the external leaves while its reservation waits, a socket that was destroyed reports
  its `close` after it was replaced, a frame arrives for a pair that just left the table.
* **Loss and resumption of the control channel.** Sessions supersede one another, a reconnect
  window runs on a timer that may be stale, and a hello decides per pair whether to keep it.
* **Work that nothing waits for.** `close()` aborts no dial and no upgrade; an `open()` that
  awaits goes on after it; a timer that is unref'd does not keep the process that needs it.
* **Timers against late answers.** Reservation timeouts, reconnect windows, log timers and the
  limiter's collector all act on tables that changed since they were set.
* **Two ends that disagree for a while.** Either end notices the loss of the channel on its own;
  frames and data sockets travel on different connections and overtake one another.
* **Cuts.** TCP delivers any stream in segments of its own choosing, and every reader keeps a rest.
* **Clocks.** A signature is fresh by one clock and made by another, in different units.
* **Views.** A page joins a snapshot, a history, live events and the answers to its own requests.
* **Bounded resources.** `maxConnections`, the port range, hit windows, event rings.
* **Crash and restart** around the blocklist's file.

`PROJECT.json` lists these hazards line by line with the properties that cover them, or the
reason why none does.

### What makes each component correct

* *Server tunnel*: one control session at a time; connected means greeted; a lost tunnel is
  retaken or destroyed; the limit on pairs holds for everything that is served; sockets are not
  leaked beside the pair that owns them; a destroyed tunnel owns nothing.
* *Registry*: the three tables agree; an id or a port belongs to one client; a client is
  answered with its own tunnel; logs follow tunnels and are collected.
* *Admission*: an address cannot get more misses than the limit warrants; blocks hold until
  they end; the event log is not flooded; the file is what the process works with.
* *Client*: one connection, attempt or retry at a time; it reconnects or gives up visibly; it
  notices a silent server; every link that may carry bytes is known to the table; a resumed pair
  has one link; a closed client stays closed; the failure budget is enforced.
* *Both together*: each end keeps to what the other assumes of it; a pair that one end has given
  up costs the other no slot.
* *Signing*: a nonce is remembered as long as its signature is acceptable, and no longer than
  needed; a prompt request is honoured.
* *Codecs*: the output does not depend on how the stream is cut; a response ends where it ends.
* *Event logs and pages*: a stream has no gap and no repetition; a page that has caught up shows
  what the server has.
* *Replay*: the lock is held while a replay runs and given up afterwards; a run is reported from
  its start to its one end.

## 2. The modules

| Module | What it is |
|---|---|
| `ServerTunnel` | one tunnel on the server, its agent and its control sessions |
| `MCServerTunnel` | symmetry sets for TLC |
| `ServerTunnelProofs` | theorems about `ServerTunnel`, and that it implements `TunnelService` |
| `TunnelService` | abstract: what a tunnel promises to externals |
| `ServerTunnelRefinement` | the mapping under which `ServerTunnel` implements it |
| `TunnelManager` | the registry, its logs and the handlers that use it |
| `MCTunnelManager` | port ranges for TLC |
| `Admission` | dispatch, rate limiter, blocklist and file |
| `ServerTablesProofs` | theorems about `TunnelManager` and, independently, about `Admission` |
| `ControlChannel` | the client's end of the control channel |
| `TunnelCluster` | the client's pairs, their links and the failure tracker; extends the former |
| `ClientTunnel` | the client process, which wires the two; has the specification and properties |
| `MCClientTunnel` | sets of pairs for TLC |
| `ClientTunnelProofs` | theorems about `ClientTunnel` |
| `Tunnel` | `ServerTunnel` and `ClientTunnel` joined by frames and data sockets |
| `TunnelProofs` | theorems about `Tunnel` |
| `SignedRequests` | clients that sign and retry, the server's freshness and nonce checks |
| `MCSignedRequests` | symmetry set for TLC |
| `SignedRequestsProofs` | theorems about `SignedRequests` |
| `WsFraming` | WebSocket frames: the encoders and parsers, as operators |
| `HttpStreams` | preamble, chunked bodies, ends of responses, Host header: the readers, as operators |
| `StreamCodecs` | streams cut into segments and fed to the readers of the two former; has the properties |
| `MCStreamCodecs` | the streams that TLC sends |
| `StreamCodecsProofs` | theorems about `StreamCodecs` |
| `EventStreams` | event logs, their streams and the server's dashboard pages |
| `EventStreamsProofs` | theorems about `EventStreams` |
| `Replay` | replays of the client, their lock, their events and the page that starts them |
| `MCReplay` | a manifest for TLC |
| `ReplayProofs` | theorems about `Replay` |

Definitions whose name tells of a fault (`SlotFreeOffByOne`,
`SupersedeWithoutClose`, ...) are not used by any specification. Each stands before the
definition it is a faulty variant of, and is there to show that a property notices that fault.

### Grain

Node.js runs one callback at a time, so **one action is one callback**, with everything it
calls synchronously. A promise that a callback settles resumes its `await` on the microtask
queue, before any other event: what `_openPair` does after its reservation settles is part of
the action that settles it (`DataSocketArrives`, `ReservationTimeout`, `PairFailed`,
`Destroy`). Binding a port settles on the next-tick queue, which also runs before the next
request is read, so that `createTunnel` and its `listen` are one action. The `close` event of
a socket that was destroyed is *not* part of the action that destroyed it: the socket waits in
`closingSockets`, and `DataSocketClosed` may come at any later time. Several of the behaviours below live in
that gap.

### ServerTunnel

`Requests` are external requests; each may open one pair, named after it. Socket 0 of a pair
is the one `PAIR <id>` brought; socket k > 0 came with `PAIR <id> REPLACES <controlId>`.

| Variable | In the code |
|---|---|
| `control`, `connected`, `closed`, `reconnectTimer` | `_control`, `connected`, `_closed`, `_reconnectTimer` |
| `timers` | the timers that tick in Node.js, whether or not the tunnel still holds their handle |
| `session`, `greeted` | `ControlSession.closed`, its one-time `hello` listener |
| `pairs`, `dataSocket` | `_pairs` and the `dataSocket` of its entries |
| `pending`, `active` | `agent._pending`, `agent._active` |
| `requested`, `early`, `kept`, `notified` | frames sent: `pair.open` (and whether before the hello), `hello.ack keep`, `pair.close` |
| `liveSockets`, `closingSockets`, `seenSockets` | the data sockets themselves |
| `external`, `answer`, `headers` | `req`/`res` or the upgraded socket: its state, what was answered, whether headers went out |

The client is the environment: it sends any hello whose `inflightPairs` are pairs it may have
(`Listable`), any `pair.failed`, any data socket it was asked for, and replacements for the
WebSocket pairs a `hello.ack` kept. `Tunnel` shows that the client of this repository does no more than that (`ContractsKept`, which
is proved).
`Listable` follows `client/tunnel-cluster.js`: the client
keeps WebSocket pairs over a control loss, closes HTTP pairs when it resumes, and may list an
HTTP pair only if its `pair.open` was read before the hello was sent.

The bytes of a response are abstracted to *headers relayed* and *response complete*; which
bytes complete a response is the subject of `HttpStreams`.

### TunnelService

The abstraction sees a tunnel from outside: of each request, whether it is *new*, *waiting*,
*served*, *detached* (its external is there and no data socket serves it) or *over*, and
what it was answered. It promises: at most `maxConnections` requests wait or are served; each is
answered at most once, and never after it left; 503 goes only to those that were not served,
a response or 502 only to those that were; only a WebSocket is served again. One event may interrupt
any number of requests (`Interrupt`), which is how a hello, a `pair.failed`, a timeout and the end of
the tunnel look from outside. `ServerTunnelRefinement!StageOf` computes the stage of a request from
`external`, `pending` and `liveSockets`; sessions, timers, frames and sockets are hidden. That
detached is a stage of the abstraction, with no promise to leave it, is what finding 1 and the
unanswered external below are about.

### TunnelManager

One row per table of the code; `port` is the argument the tunnel was created with, `watched`
the SSE subscriptions, `cleanups` the 5 s timers. Logs under an id are numbered so that an
old log and its successor differ. `CreateTunnel` takes the first free port as
`_allocatePort` does. Signature and nonce checks precede these handlers (`SignedRequests`); token
checks are not modelled. `exiting` records that the shutdown ran: requests are still served for up to
500 ms, which the model allows.

### Admission

Time is a counter of ticks. Requests to existing tunnels do not touch this state, so only
probes of unknown tunnels are actions. `misses` and `reported` are history variables: they
record answers (the newest `2 * MaxHits` of each address, within the window) and events, and no
action reads them. A failing `writeFileSync` may leave the file untouched
or emptied; a crash inside it leaves it emptied; `Loaded` says what the next process makes of it.
One of the addresses is `Unknown`, what `normalizeIp` makes of an address that it cannot read: it is
counted, blocked and saved like any other, and passed over by the load.

### The client

`TunnelCluster` extends `ControlChannel`, and `ClientTunnel` extends both: the three files share a
process, and an event of the channel runs the cluster's listener in the same callback.

| Variable | In the code |
|---|---|
| `attempt` | the `connect()` that is under way, `"first"` from `open()` or `"retry"` from the timer |
| `socket`, `connected`, `controlClosed`, `reconnectTimer` | `_socket`, `_connected`, `_closed`, `_reconnectTimer` |
| `resuming` | `_previousControlId` is set: a `hello.ack` means `resumed` and not `connected` |
| `silence` | heartbeat intervals since `_lastPongAt` |
| `pairs`, `clusterClosed` | `this.pairs`, `_closed` |
| `generation`, `link` | which local connection and data socket `pair.local`, `pair.data` name; how far each such *link* has come |
| `traffic` | pairs whose `bytesIn` or `bytesOut` is not 0 |
| `recent`, `total` | `recentFailures`, `totalFailures`, up to the limit each is compared with |
| `stage`, `fetches`, `closed` | how far `open()` is, the retries of `_fetchTunnelInfo`, `closed` |
| `listed` | the `inflightPairs` of the hello that waits for its `hello.ack` |
| `adminServer` | whether the dashboard listens, chosen once |
| `exited` | the process has ended |

*Links.* Link 0 of a pair is what `_openPair` dials, link k what the k-th resumption dials. Each has
its own phase, because the listeners of an old link stay installed and act on the table by pair id.
The phases tell apart what those listeners tell apart: only a spliced first link listens to the
`close` of its local connection (`closing`, `failing`), and a link whose local connection failed
leaves its data socket dialed or open (`halfdial`, `half`).

*The end of the process.* `Exit` is `process.exit` after a signal. `Drain` is Node.js ending
a process that no open handle keeps running: the heartbeat and the reconnect timer are unref'd
(`client/control-channel.js`), so they do not count; the dashboard's server does. A `tunnel:dead` beyond the budget exits in the same callback.

*Time.* Delays are not modelled: a timer that is set may fire at any time, which includes the time
the code computes for it. `WindowMoves` lets failures leave the tracker's window at any
time, in any number.

*Left out.* The `pair.failed` and `pair.closed` frames that the client sends leave no state
in it; the server module takes them from any client (`PairFailed`). A `pair.close` for an unknown
pair and a `pair.open` repeated for an open one do not come from this server.

### Tunnel

The composition instantiates `ServerTunnel` and `ClientTunnel` side by side and adds only what is
between them: which session the client's connection belongs to (`channel`), the frames on their
way (`up`, `down`) and the data sockets whose preamble is on its way (`arriving`). Every step is a
step of one module; where that module takes an input from its environment, `Tunnel` feeds it the
frame or the socket that the other end sent, and appends the frames that the step sends.

A control connection delivers in order or is lost, and each end finds out on its own: a session
that the server closed may be alive for the client for any time, and the other way round. Data sockets overtake
frames and each other, and may never arrive. `ClientConnects(n)` lets the first n frames ride in the segment of
the 101 answer, before the hello is sent.

Of the two modules, `Tunnel` leaves out what the other end cannot notice: the client's heartbeat
counter, its retries for a tunnel, traffic that forgives failures, a refused request.

### SignedRequests

One header per client, `stamp`: nonce and timestamp are both a reading of the client's clock, the
one in milliseconds and the other in seconds. `wire` holds the attempts that the server has not
read; an attempt that raises (`FetchRaises`) may have been read or may be read later. `MsPerS` ticks
are a second, so that rounding to seconds is part of the model.

### WsFraming, HttpStreams, StreamCodecs

The readers are functions from a state and a segment to a state. A loop of the code (the parsers'
and the chunk decoder's) is one pass (`DrainPass`, `CapturePass`, `DecodePass`), and a function of the
number of passes that is asked for as many as there are bytes: every pass that changes anything takes
at least one byte or ends the loop. Bytes are tokens: frames keep every byte of their header and length, with a smaller base
(`Short`, `Base`) so that all three encodings of a length occur in short frames; HTTP
streams keep CR, LF, digits of chunk sizes and data that looks like them, and abstract a head to
what it says of the body (`switches` is status 101). `StreamCodecs` chooses a stream at the start and
then delivers it in segments of any length, an answer over two connections: from the local service to
the client, and behind the preamble to the server. The server's end is that of `handleRequest`; the
raw pipes of `handleUpgrade` parse nothing.

`ReadPreamble` keeps nothing of what follows the preamble in its segment. `_onSocket` puts it back
with `unshift`, but the socket flows and its only `data` listener was just removed: the bytes are
emitted on the next tick, ahead of the promise that lets `handleRequest` listen.

`request` is what the client knows of the request that is being answered, and how often it has logged
it: when the answer looks complete (`EmitRequest`), when the local socket is closed (`LocalClosed`), and
when the data socket ends (`DataEnded`). These come in any order. The pair says whether the request
asks for a WebSocket (`upgrade`), whether the client captures (`inspected`), and whether its service
answers before it is asked (`early`).

### EventStreams

One tunnel id, one blocked address and one page. An event keeps its number, its place in the log
that wrote it, and what a page reads from it (`Said`); the forwarder of a tunnel's log copies it to
the global log. `feed` is the logs and the page's stream. The page is one of four: overview,
tunnel, temporary list, permanent list; `latest` is the number of the event whose effect it shows.
Events that the page ignores are all alike, so the events of the tunnel stand for those of the lists and vice versa.
The permanent list may be edited in another spelling of the address (`edit.typed`): the server
normalises it, the page keeps a row of what was typed (`page.typed`) beside that of the server (`view`).

### Replay

Each trigger is one POST; `phase` and `position` follow it through the handler and the runner,
`reports` is a history of what it pushed to the log. A step is sent, skipped because its capture
cannot be read, or raises, and the runner may also raise before its first step or behind its last; an
HTTP target may fall silent (`silent`). `page` is the running flag of
the dashboard with its own request under way, which may be accepted, refused or fail on its way. `page.cleared`
is a history variable: the start or end that was the latest read when a refusal or a failure last cleared the flag.

## 3. The runs

| Run | Asks | Bounds |
|---|---|---|
| `tunnel_safety` | sessions, slots, sockets and destruction stay consistent in every interleaving; the tunnel implements `TunnelService` | 1 HTTP and 1 WebSocket request, 3 sessions, limit 1, 1 replacement |
| `tunnel_live` | lost sessions resolve, reservations settle, slots are freed | the same with 2 sessions |
| `tunnel_kept` | *violated*: is a kept WebSocket pair preserved? | 1 WebSocket request, 2 sessions |
| `manager_registry` | tables agree, no takeover, logs collected | 2 clients, 2 ids, 2 ports, 2 logs per id |
| `admission_limits` | misses bounded, blocks hold, events throttled, file current | an address and "unknown", window 1, limit 2, block 3, throttle 3, 5 ticks |
| `client` | one connection, tracked links, enforced budget; reconnects, notices silence, ends pairs | 1 HTTP and 1 WebSocket pair, 1 replacement, 2 failures in a window or in all, 2 requests for a tunnel, with and without a dashboard |
| `client_retry` | *violated*: does a running client always try to connect? | 1 HTTP pair |
| `tunnel` | do the two ends keep to each other's assumptions, and does a pair the client gave up free its slot? | 1 HTTP and 1 WebSocket request, of which 1 gets a pair, 2 control connections, 1 replacement, budget 1 |
| `signed_requests` | accepted once, forgotten in time, honoured when prompt | 2 clients, offset 1, 2 ticks a second, skew 1 s, sweeps every 2 ticks, 2 attempts, 11 ticks |
| `codecs` | do the readers give the same however a stream is cut? | 2 frames of 0 to 5 bytes by 3 encoders with 4 faults; answers of up to 2 chunks, 4 bodies, 4 foreign openings, to a WebSocket request, too early; 8 requests |
| `event_streams` | are streams contiguous, and do pages that caught up show what is? | rings of 2, 2 tunnels under the id, 6 events |
| `replay_dashboard` | do lock, runs, reports and page agree, and is the lock given up? | 2 requests, an HTTP and a WebSocket step, ring of 2 |

Named parts of the larger properties: `SessionsConsistent` is `OneControl`, `ConnectedAfterHello`,
`WindowTicking`; `SocketsConsistent` is `SlotsBounded`, `ServedHoldsSlot`, `PairSocketsKnown`,
`RefusedNeverServed`; `RegistryConsistent` is `ReservationsMatch`, `PortsExclusive`, `ControlOwned`,
`LogIsOwn`; `ConnectionsConsistent` is `OneConnection`, `ClosedStaysClosed`; `LinksConsistent` is
`FirstLinkTracked`, `OneLinkPerPair`; `AnswerRelayed` is `BodyRelayed`, `ResponseEnds`,
`ForeignSocketRefused`; `ContractsKept` is `HelloIsListable`, `FramesFit`, `ReplacementsAsked`.

Why these bounds are enough. *Requests*: the interactions of two pairs are the slot they
compete for and the lists of a hello; one of each kind with a limit of one makes them collide,
and a pair touches no entry of another one. *Sessions*: three are needed for a session to be
superseded, its successor to be lost before its hello, and a third to be greeted while the first
timer still ticks; two for a resumption with its replacement. *Replacements*: one replaced socket is enough for old and new to coexist.
*Clients, ids, ports*: two of each, so that an id and a port can pass from one client to the
other; *logs*: two under one id, the old and the new. *Ticks*: more than a block and a window, so that a
block can expire and the address start again; for signing, more than the lifetime of a nonce and a sweep. *Client*: the two kinds of pair are treated
differently by every event of the channel; one replacement makes an old and a new link coexist; a
limit of 2 lets the first failure leave the window, or be forgiven, before the second, and so
tells the two limits apart; the number of lost sessions is not bounded. *Composition*: only
requests with a pair concern the client, and one at a time shows what the ends think of it; the interplay of two is in
`tunnel_safety`. *Streams*: every cut of every stream, with each encoding of a length and each way
to end an answer. *Rings*: of two events, so that what a page needs is evicted under its eyes; in 6
events a tunnel is created, connected, destroyed and created again. Where a run uses symmetry, the set only holds names
(sessions, requests of one kind, clients) and the run has no liveness property.

`CHECK_DEADLOCK FALSE`: a destroyed tunnel whose requests are over, a registry that used up
its logs, a clock at its last tick, a stream that was delivered or a client that has exited has
nothing left to do, and that is no fault of the code.

### Fairness

* Node.js fires a timer that is not cleared, and emits `close` for a destroyed socket:
  `WindowExpires`, `ReservationTimeout`, `DataSocketClosed`, `CleanupLog` (the last one only
  while the process lives). Weak fairness is enough: nothing but its own cancellation disables one of them.
* A data socket ends at last (`DataSocketEnds`): the client ends it when the local service
  has answered or hung up (`client/tunnel-cluster.js` pipes the two). `SlotFreed` rests on
  it, and says nothing of a local service that holds a connection for ever.
* On the client: a set timer fires (`ControlReconnects`, `ControlHeartbeat`,
  `ControlTimesOut`), a TCP dial settles, a destroyed connection says `close`, the process exits
  half a second after a signal, an exchange that is spliced ends at last. All of these are weak:
  the operating system or Node.js brings the event unless it is cancelled.
* `Reconnects` also needs a server that is there: asked again and again it accepts a
  connection (`SF` of `ControlConnects({})`) and answers a hello (`SF` of
  `HelloAck({})`). Both must be strong, as every lost session disables them. The code sets
  no timeout on the upgrade or on `hello.ack`, so that without this assumption a client may
  wait for ever; that is an assumption about the server and not a property of the client.
* In `Tunnel`, what has been sent arrives or is lost, dials settle, and the timers and `close`
  events above come (`ClientSettles`, `ServerSettles`): one weak condition on each end, as each of
  these steps is taken a bounded number of times. In `SlotsReturned` an end of the data socket is assumed only for a link
  that is over on the client, or whose process has exited, so the property does not rest on the local service.
* In `Replay`, a promise that has settled is continued, and a target that answers does so at
  last; `wsSend` gives up a connection on which nothing comes for 10 s (a target that trickles bytes
  without ending its head is not modelled), `httpSend` never, hence the exception in `LockReleased`.
* Nothing is assumed of externals, of clients that reconnect to the modelled server, of failing
  sockets, of administrators or of browsers.

`Reconnects` is stated for a client with a dashboard, because without one the process may end
(below). `PairsEnd` leaves out replaced pairs: nothing removes those when their link ends.
`SlotsReturned` leaves out a pair whose data socket a hello took away: it waits for a replacement
that does not come if the client gave the pair up during the outage, and keeps its slot until its external leaves.

### What the violated runs show

1. *Kept pair lost* (`tunnel_kept`). `_onHello` destroys the old socket of a pair it keeps,
   and that socket's `close` listener removes the pair and ends the external. `docs/PROTOCOL.md`
   says such pairs are preserved.
2. *First connection never retried* (`client_retry`). `open()` swallows the error of the first
   `connect()`, with the comment that the reconnect loop will keep trying; but only the callback
   of the reconnect timer schedules another attempt after an error, and no timer was set.

### Seen while modelling

These are behaviours of the code that the models have and no run singles out.

*Server tunnel.*

* `_startReconnectWindow` overwrites `_reconnectTimer` (`server/tunnel.js:197`). Superseding a live
  session starts a window; if the new session is lost before its hello a second one starts, and the
  first can no longer be cleared: it expires the tunnel after a third session said hello, although
  `docs/PROTOCOL.md` promises the tunnel to a client that is back within the window.
* `pair.failed` after the data socket arrived destroys that socket (`:148`), and `handleRequest` does
  not listen to `close`: the external is not answered. `docs/PROTOCOL.md` says that it gets 502 or 503.
* `startListening` starts no timer (`:69`): a tunnel whose client never connects is kept.
* A WebSocket external that fails during the `await` of `_openPair` has no error listener (`:452`).
* `logClose` removes a pair before `_teardownPair` looks for it, so that `pair.close` is not sent
  when a WebSocket external leaves (`:505`).

*Registry and admission.*

* The 5 s log timer looks its log up by id when it fires (`server/tunnel-manager.js:108`), and removes the log
  of a new tunnel under the same id. A log that is overwritten keeps its streams (`:85`).
* The limiter's window is fixed, not rolling as its comment says (`server/rate-limiter.js`);
  `admission_limits` checks the bound that does hold, 2 * maxHits - 1.
* `config.js` compares neither the block with the window nor the block with the throttle: a block that
  is no longer than the window lets an address reach 2 * maxHits misses in one window.
* A save that fails, or a crash inside it, may leave the file empty; nothing reports it.
* An address that `normalizeIp` cannot read ("[]", "%eth0") is blocked and saved as `unknown`, which
  `_load` passes over (`server/blocklist.js:128`): it does not survive a restart.
* A malformed entry of the blocklist's file drops the entries after it (`server/blocklist.js:126`).

*Client.*

* The reconnect timer is unref'd (`client/control-channel.js:261`). After a lost session without open
  pairs and without a dashboard nothing keeps Node.js running, and the client ends with exit code 0
  while it waits to reconnect. Upgrade and `hello.ack` have no timeout (`:97`).
* A `close` of the local connection right after its `error` forgets the failure that was just recorded if the pair
  has had traffic (`LocalClosed`; `docs/EXPOSE.md` says that it is recorded); the late `close` of a
  replaced link removes the pair that has its replacement; the end of a replacement does not
  remove its pair; errors of a replacement are no failures; with `--no-reconnect-local` an error of the
  local service does not end the client; `ReconnectPolicy.nextDelay` is never called.

*Both ends.*

* A data socket may overtake the hello that lists its pair; the hello then destroys it, and an HTTP
  exchange is left in the table without a socket until its external leaves. A client that is told
  to keep an HTTP pair closes it without telling the server.
* `replacesControlId` is never compared, so that after two resumptions a late replacement of the
  first may take the place of the second.

*Signing.*

* `_fetchTunnelInfo` signs once, before its retry loop: when the answer was lost, or was a 5xx,
  the retry carries a nonce that is used up and gets 401, which ends the client.
* `docs/SECURITY.md` calls the nonce random and `docs/PROTOCOL.md` gives the timestamp in ms; the code
  uses `Date.now()` as the nonce and seconds for the timestamp. Two clients that sign in one millisecond collide.
* With a tolerance of 0 the lifetime of a nonce is 0, so that `SignedAssumption` asks for 1. A
  restart forgets all nonces.

*Codecs.*

* A `Host` header that a cut splits, or that comes in a later segment, is not rewritten
  (`client/header-host-transformer.js:18`).
* An empty `Host` value makes the transformer rewrite the line after it, as `\s*` crosses the line's end.
* `Content-Length: 0` ends a response only with its socket: no byte comes behind the head that would
  make `consumeBody` compare; an interim 1xx response is taken for the final
  one; a preamble that is too long is accepted if its line end comes in the same segment.
* The client takes data that looks like the last chunk for it, and sees the end of a response with
  trailers, or to a HEAD, only at the close. It logs no request whose head is longer than it
  collects, or that came after the local socket was closed and asks for no WebSocket.
* A WebSocket is logged twice if its local socket closes first: the `end` listener of the data socket
  (`client/tunnel-cluster.js:289`) does not read `requestEmitted`, and without an inspector neither
  listener sets it; one that is not answered by 101 is logged when the answer is complete and again at that end. The title of a test
  asks for one event per pair (`test/regression/http-request-event.test.js:292`).
* What a local service sends before it has the request, in one segment with the preamble, is lost, though
  the comment in `server/tunnel-agent.js:159` says that it is emitted again.

*Pages and replay.*

* A tunnel that was destroyed while the overview was disconnected stays listed if the event was
  evicted or cleared; a history that is read again adds its rows again; a tunnel page that is subscribed to an
  overwritten log stays at *destroyed*; a late answer to an edit of the blocklist may undo what a
  newer event showed; the history of a block that has ended lists it again.
* The blocklist page lists an address as it was typed (`server/admin/pages.js:1160`), the server's events
  name what `normalizeIp` made of it: a row such as "[::1]" or "::ffff:1.2.3.4" stays when the address
  is removed elsewhere, beside a second row from the event of its own addition.
* Two replay requests that are read at the same time both start (`client/admin/server.js:182`), and the
  first to end gives up the lock of the other. An HTTP target that never answers holds it for
  ever. Steps whose capture cannot be read are skipped without `onStep` if they are HTTP steps.
* A request of the page that is refused, or fails on its way, clears the page's flag although a replay
  runs, also when the page has read that replay's start (`client/admin/page.js:478`).

## 4. The proofs

TLC shows each property on the instances above; these theorems hold for all constants that
satisfy the module's assumption. The assumptions only say what the constants are (a subset, a natural number, a
null that is none of the other values); that of `Tunnel` also lets a pair be replaced as often as the
model has sessions for it (`MaxReplacements`, a bound of the model). Two of them also say how
settings relate: `AdmissionAssumption` that a block is no shorter than the
throttle, as with the defaults (a `TT_RATE_LIMIT_BLOCK_DURATION_MS` below the fixed 30 s of the
throttle would let the collector forget an event too early), and `SignedAssumption` that the
tolerance is at least a second. That a block is longer than the window is a premise of `HitsBounded`
itself. `StreamsAssumption` says what a stream is (see `StreamCodecsProofs`).

**`ServerTunnelProofs`**

* `TypeCorrect`: TypeOK is inductive; the step has one case per action.
* `ControlCorrect` (`SessionsConsistent`): OneControl, ConnectedAfterHello and WindowTicking are inductive together
  with TypeOK. `NextControl` first shows that every step is one of five control steps or leaves
  the control variables alone, so that the invariant is argued over five cases and not eighteen.
* `SlotsCorrect`: `NextPairs` shows that the table only grows by one pair behind `SlotFree`; with
  the finiteness of the table (`FiniteSlots`) the cardinality argument follows from the library.
* `SocketsCorrect` (`SocketsConsistent`): ServedHoldsSlot, PairSocketsKnown and RefusedNeverServed are not
  inductive. `SocketInv` adds `Traces` (a socket, a reservation or a pair exists only for a request that
  was opened; a pending one has no socket yet) and `Unanswered` (what is still open has
  no final answer), without which a late socket of a refused request could be adopted.
* `DestroyCorrect`: from the two invariants, the destroying step leaves nothing
  (`DestroyLeavesNothing`), no other step closes a tunnel (`ClosedByDestroy`) and nothing comes
  back afterwards (`DestroyedStaysEmpty`).
* `TunnelImplementsService`: `Spec => Service!Spec`, from the types and `SocketInv`.
  `StageIsKnown` gives every request one of the five stages. `InServiceHoldsSlot` shows
  that what the abstraction counts is a subset of the pairs, so that a free slot of the code is a free
  place of the abstraction (`RoomToAdmit`, `RoomToResume`). `MoveOf` says what one step may do to one
  request, `OneMoves` that the others keep their stage; a step about one request then is a
  step of the abstraction by `MoveIsStep`. A hello and the destruction concern many requests and
  map to `Interrupt` (`HelloImplements`, `DestroyImplements`). Everything about sessions is a stutter.

**`ClientTunnelProofs`**

* `TypeCorrect`, by lemmas on the three modules' parts.
* `ControlCorrect` (`ConnectionsConsistent`): OneConnection and ClosedStaysClosed, inductive with `NoChannelYet` (there is
  no channel to close before the tunnel is granted; without it `FetchSucceeds` could start a
  second attempt). It holds with an attempt that outlives `close()`: the late socket is adopted, and
  never becomes a session.
* `LinksCorrect` (`LinksConsistent`): FirstLinkTracked and OneLinkPerPair follow from `LinkInv`: a link that may carry
  bytes is the one the table names, links of a pair come one after another, and a pair that was not
  opened has never been replaced. For any number of replacements.
* `BudgetCorrect`: BudgetEnforced is inductive with the types; only the events that record a
  failure need an argument, and each of them exits at the limit.

**`TunnelProofs`**

* `ContractsCorrect` (`ContractsKept`), for any number of requests and sessions and any order of
  loss and overtaking. ContractsKept speaks of the moment at which a frame or a socket is about to
  arrive; that it holds then is decided when the frame is sent, by the other end, and `Inv` carries
  it from there:
  * `HelloInv`: a hello is the first frame of its session and lists only pairs the server allows for
    (`Listable`); that of the connection in use lists what the client awaits an answer for. The list
    stays right while the hello travels because the sets that it is drawn from only grow (`HelloKept`).
  * `DownInv`: a `hello.ack` is on its way to the client exactly from the server's reading of the hello
    to the client's reading of the answer, it is the only one, and it answers for the pairs that were
    listed; a `pair.open` is on its way once, for a pair never opened, and one ahead of the `hello.ack`
    is an early one. All that happens to the queue is that closes are appended, its head
    is read or it is dropped: `Later` says what such a queue may differ in, and `AckKept`,
    `OpenKept` and `DownKept` that the invariant survives it. The two steps that append something
    else have their own lemmas (`AnswerSent`, `PairOpenSent`).
  * `PairsInv` and `LinkInv`: the client's pairs, its dials and the sockets on their way are all for pairs
    that the server asked for or has kept. `Gains` says what a step of the client may add to them.
  * `NetworkInv`: the one connection in use lasts as long as the client's attempt or socket, and nothing is
    on its way to the client on any other.
  * `ServerInv` and `ClientInv`: what of the two modules' own invariants these need.
* `ServerEndCorrect`, `ClientEndCorrect`: Spec implies the specification of either end
  (`StepsOfEnds`: every step moves at most one end, by a step of its module). `EndsAssumptions` shows that the constants meet both modules'
  assumptions. So all that `ServerTunnelProofs` and `ClientTunnelProofs` prove with any
  environment, the refinement of `TunnelService` included, holds of the two ends together.

**`ServerTablesProofs`**, the registry

* `TypeCorrect`, and `RegistryCorrect` (`RegistryConsistent`): ReservationsMatch, PortsExclusive, ControlOwned and
  LogIsOwn are inductive together (`RegistryInv`): ports need the tables to agree, and the owner of a
  control session follows the table of tunnels.
* `TakeoverImpossible` and `GrantsKept`: action properties from `RegistryInv`.

**`SignedRequestsProofs`**

* `TypeCorrect`.
* `NonceCorrect`: AcceptedOnce is not inductive: it needs that an accepted header is *spent*
  (`NonceInv`): its nonce is remembered until a second in which its timestamp is out of tolerance, or
  that second has come. The arithmetic of seconds (`SecondsBounds`, `SecondsMonotonic`,
  `SecondsLater`) gives `TtlOutlivesTolerance`, that four times the tolerance outlives it from both ends; `SpentStays`
  covers the clock and the sweep, `AcceptSpends` the new header. It holds for any tolerance of at
  least one second, any offset of the clocks and any interval of the sweep.

* `NoncesCorrect`: what is in the cache had not expired when it was swept last, and that is at most
  one interval ago (`SweepInv`).
* `PromptCorrect`: a nonce in the cache is one whose client has had an answer to its first attempt,
  or has given it up (`CacheInv`), so that a first attempt meets it only if two clients signed
  alike; and what is out of tolerance in seconds is late in ticks (`OutOfToleranceLate`).

**`ServerTablesProofs`**, admission

* `AdmissionTypeCorrect`, with the history of misses as a function of their rank.
* `FileCorrect` and `BlocksCorrect` follow from the types, action by action. The file may hold
  "unknown", which `FileCurrent` says is what the list and the load differ in.
* `EventsCorrect` needs `EventsRemembered`: the limiter remembers the last event of an address, or
  has forgotten it after the throttle had passed; that is where the assumption that the throttle is
  no longer than a block is used.
* `HitsCorrect`: HitsBounded speaks of the last window's length, while the limiter counts in windows
  that begin with a miss. `HitsInv` ties them: in an open window the recent misses are
  at most what was counted in it and fewer than `maxHits` of the one before; when the limiter has
  forgotten a window, fewer than `maxHits` misses are recent; while a block stands no miss is
  counted. A block that is over leaves no miss recent, which is where it must be longer than the
  window: 300 s and 60 s by default, and for other settings the theorem says nothing of a shorter one.

**`ReplayProofs`**

* `ReplaysCorrect`: the lock's half is inductive with `LockInv`, which also counts the requests that have
  passed the lock and still read their body. The story's half needs `StoryOf`: what has been
  reported of a run determines its phase, and the number of its reports lies between the WebSocket
  steps and all the steps up to its position (`Tells`). How many steps were skipped unread is
  counted by sets of positions (`WsStepsCounted`), so that no induction over the reports is needed.
* `PageCorrect`: PageFollows is not inductive, as nothing in it speaks of what is still on its way.
  `PageInv` says that every event of the ring and of the stream is `Sound`: if it is the latest start
  or end of a replay, it tells whether one runs now. The ring is what a new stream begins with, hence
  history that is read again does no harm, however much the ring has lost. A start or an end
  is newer than all the page knows (`TurnKeepsPage`), other reports change nothing
  (`StepsKeepPage`), and an answer that refuses the page's own request, or its failure, is remembered with
  the event that was the latest then (`page.cleared`): only until the page reads a later one may its
  flag be down while a replay runs.

**`EventStreamsProofs`**

* `StreamCorrect`: StreamContiguous is inductive only with the places of the events in every ring, the
  subscribed log's or not (`RingInv`), and with a stream that says how much of its log it has
  delivered (`StreamInv`). What `Write` does to both is one lemma (`WriteKeepsFeed`); a push that is
  forwarded is two writes, and a destroyed tunnel up to six.
* `PagesCorrect` has one invariant for each kind of page. All rest on `FactsInv`: no event that
  concerns the page, in a ring or on its way, is newer than the last one its log recorded, so
  that an event with that number tells how things stand now. `Records` says what a push or a
  clearing adds to that, `Shortens` that everything else only drops events or takes a snapshot.
  * *Blocklist* (`ListInv`): the last event of the list, a page that shows its effect or a later state, and
    an answer on its way that is not older, agree with the server. It is about the row as the server
    writes it; a row of another spelling is left to the page.
  * *Tunnel's page* (`TunnelPageInv`): the last event of each tunnel tells how it stands, a later tunnel's
    last event is the later one, and the page is not ahead of the tunnel that it follows, nor of the one that it
    would follow next. The last part is why a page that comes from a former tunnel's log is right about the new one.
  * *Overview* (`OverviewInv`): the ring, the stream, and the page once it has read it, come to the
    status now (`Follows`), since the last of their entries that tells anything tells that; an
    overview that does not know the tunnel has an entry before it that adds it (`Waits`), for
    only `tunnel.created` and a snapshot do. After the tunnel's end nothing kept is later than it (`Past`).

**`StreamCodecsProofs`**

The streams are what `StreamsAssumption` says: any number of messages of any length below 2^32, any
fault of the kinds that the parser refuses, any answer whose body has the form that its head
announces, any request. The segments are any cut of them. Each theorem has an inductive invariant
that says what its reader's state is once the first n bytes have come, whatever segments brought
them; so the result cannot depend on the cut.

* *Loops.* The library's induction theorems take an operator, which the provers cannot instantiate.
  `Induction`, for a set of naturals, is derived from the well-foundedness of the finite
  sets of naturals (`LeastNat`); it gives that a function defined by recursion exists (`Iteration`),
  and that a loop whose every changing pass shrinks a measure stops at a fixed point (`Loop`, and
  `DrainLoop`, `CaptureLoop`, `DecodeLoop` for the three loops of the code). What remains to be shown of a
  loop is what one pass does in each of the states it meets.
* *Streams.* A stream is known by where its parts stand (`Holds`, `Placed`, `Joined`, `Laid`), and an
  unparsed rest is the `Window` of the stream from one place to another. `WindowsJoin` (a segment
  lengthens the window), `WindowOfWindow` (parsing shortens it) and `ShowsSame` are all that the
  readers' proofs use of sequences.
* `FramesAreIntact` (`FramesIntact`): the bytes of a length are read back as the number that was
  written (`Length16`, `Length64`, `LengthRead`), masking twice gives the data back (`MaskedTwice`), hence
  each encoder's frame is read back as its message (`EncodeWhole`); a buffer that starts
  with all of a frame has it (`Longer`), and one that holds only its beginning waits (`Shorter`). `FramesInv`: the
  parser's buffer is the window behind the last whole frame, the frames before it are delivered,
  and it has failed only at the fault.
* `RequestsAreIntact` (`RequestIntact`): `RequestInv` follows the transformer from the one segment it
  looks into; that segment may end before, inside or behind the header.
* `RequestsAreLoggedOnce` (`LoggedOnce`): `LoggedInv` says what has been collected and counted. The
  detector stops collecting at `MaxCollect`, so what it has is a prefix of the answer, and the end of a head is found at the same
  place in every prefix that has it (`HeadFound`). The places that log a request are taken one by one
  (`EmittedOnce`, `CountedComplete`, `CountedClosed`, `CountedEnded`): a plain one is logged where the
  flag is read and set; one that asks for a WebSocket once by each end, and by a complete answer other than 101
  in place of the close.
* `AnswersAreRelayed` (`AnswerRelayed`): `Waits` says where the chunk decoder stands after x bytes,
  at a size line that is not complete, in the data of a chunk, or before the CRLF behind it;
  `DecodeSettles` that push leads from one such place to the next with the data between them. `Relayed`
  says the same of the whole relay, from the pair's line (`PreambleRead`), with which a segment ends since the
  service waits for its request, through the head (`HeadRead`)
  to the end, and `Refused` of a socket that opens with another line; `RelayInv` joins them to
  the detector's side and to the ends of both sockets.

**Only model-checked.** `WindowResolves`, `ReservationSettles`, `SlotFreed`, `LogsCollected`,
`Reconnects`, `SilenceNoticed`, `PairsEnd`, `SlotsReturned` and `LockReleased`: liveness under fairness is beyond
the proof system. Every invariant and every action property that a passing run checks is stated
by a theorem.

## 5. What is not modelled

* Cryptography: a digest is never computed, and every signed request is one its client signed;
  admin tokens, secrets and their loading.
* Formatting, HTML, YAML, templates, logging, the text of a captured exchange
  (`client/http-inspector.js`), configuration and command line: no protocol state.
* JSON of the frames and random ids: messages and ids are model values, and ids are distinct.
* The debug log and its level (`debug.js`): a ring and streams like those of `EventStreams`.
* The TCP and HTTP libraries: only the events that the code listens to.
* Backpressure: `pipe` moves bytes, which the models do not count.
* `server/public-server.js`, which `runServe` does not use, and `server/api-server.js`, which only forwards.

## 6. Plan

Done: both ends of a tunnel and their composition, the registry, admission, signing, codecs,
event logs and pages, replay; the tunnel's abstraction; the proofs above. Every safety property
that a passing run checks is proved. What could follow:

1. `Tunnel`: an abstraction of both ends together, in the way of `TunnelService`, that follows an
   external through to the local service.
2. The debug log and the client's own dashboard server, in the way of `EventStreams`.

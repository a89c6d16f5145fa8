---------------------------- MODULE ServerTunnel ----------------------------
(***************************************************************************)
(* One tunnel on the server: ServerTunnel (server/tunnel.js) with the      *)
(* TunnelAgent that accepts its data sockets (server/tunnel-agent.js) and  *)
(* the ControlSessions attached to it (server/control-session.js).         *)
(*                                                                         *)
(* The server is one Node.js process, so every callback is one action.     *)
(* The `await`s of _openPair resume in a microtask of the callback that    *)
(* settles the promise, before any other event, and belong to that action. *)
(* The 'close' event of a socket that was destroyed is a later event:      *)
(* such a socket waits in closingSockets until DataSocketClosed.           *)
(***************************************************************************)
EXTENDS Naturals, FiniteSets

CONSTANTS
  Requests,         \* external requests; each asks for at most one pair and names it
  WsRequests,       \* those that are WebSocket upgrades (handleUpgrade)
  Sessions,         \* control sessions the client may establish
  MaxConnections,   \* maxConnections of the tunnel
  MaxReplacements,  \* bound: replacement data sockets of one pair
  None              \* null

ASSUME ServerTunnelAssumption ==
  /\ WsRequests \subseteq Requests
  /\ MaxConnections \in Nat
  /\ MaxReplacements \in Nat
  /\ None \notin Sessions
  /\ None \notin Nat
  /\ None \notin {"503", "502", "response"}

VARIABLES
  control,         \* _control
  session,         \* per session: not yet accepted, open, closed
  greeted,         \* sessions whose one 'hello' was consumed
  connected,       \* connected
  closed,          \* _closed (and agent._destroyed, set in the same call)
  timers,          \* reconnect timers still ticking, named by the session whose close set them
  reconnectTimer,  \* _reconnectTimer: the only timer the tunnel can still clear
  pairs,           \* keys of _pairs
  dataSocket,      \* dataSocket of each entry of _pairs
  pending,         \* keys of agent._pending
  active,          \* agent._active
  requested,       \* pairs for which a pair.open frame was sent
  early,           \* those whose frame was sent before the hello of the session
  kept,            \* pairs that a hello.ack has kept
  notified,        \* pairs for which a pair.close frame was sent
  liveSockets,     \* data sockets the server reads and writes
  closingSockets,  \* data sockets whose 'close' event is still to come
  seenSockets,     \* data sockets that ever arrived
  external,        \* the external side of each request
  answer,          \* what it was answered
  headers          \* HTTP requests whose response headers were relayed

controlVars  == <<control, session, greeted, connected, closed, timers, reconnectTimer>>
pairVars     == <<pairs, dataSocket, pending, active, requested, early, kept, notified>>
socketVars   == <<liveSockets, closingSockets, seenSockets>>
externalVars == <<external, answer, headers>>
vars == <<controlVars, pairVars, socketVars, externalVars>>

\* Socket 0 of a pair is the one its first preamble brought; the others carry REPLACES.
SocketIds == 0..MaxReplacements
Sockets   == Requests \X SocketIds

TypeOK ==
  /\ control \in Sessions \cup {None}
  /\ session \in [Sessions -> {"new", "open", "closed"}]
  /\ greeted \subseteq Sessions
  /\ connected \in BOOLEAN
  /\ closed \in BOOLEAN
  /\ timers \subseteq Sessions
  /\ reconnectTimer \in Sessions \cup {None}
  /\ pairs \subseteq Requests
  /\ dataSocket \in [Requests -> SocketIds \cup {None}]
  /\ pending \subseteq Requests
  /\ active \in [Requests -> SocketIds \cup {None}]
  /\ requested \subseteq Requests
  /\ early \subseteq Requests
  /\ kept \subseteq Requests
  /\ notified \subseteq Requests
  /\ liveSockets \subseteq Sockets
  /\ closingSockets \subseteq Sockets
  /\ seenSockets \subseteq Sockets
  /\ external \in [Requests -> {"idle", "open", "ended", "gone"}]
  /\ answer \in [Requests -> {None, "503", "502", "response"}]
  /\ headers \subseteq Requests

Init ==
  /\ control = None
  /\ session = [s \in Sessions |-> "new"]
  /\ greeted = {}
  /\ connected = FALSE
  /\ closed = FALSE
  /\ timers = {}
  /\ reconnectTimer = None
  /\ pairs = {}
  /\ dataSocket = [r \in Requests |-> None]
  /\ pending = {}
  /\ active = [r \in Requests |-> None]
  /\ requested = {}
  /\ early = {}
  /\ kept = {}
  /\ notified = {}
  /\ liveSockets = {}
  /\ closingSockets = {}
  /\ seenSockets = {}
  /\ external = [r \in Requests |-> "idle"]
  /\ answer = [r \in Requests |-> None]
  /\ headers = {}

-----------------------------------------------------------------------------
(* What the handlers are made of.                                          *)

HasControl == control # None /\ session[control] = "open"

SlotFreeOffByOne == Cardinality(pairs) <= MaxConnections

SlotFree == Cardinality(pairs) < MaxConnections

NoReconnectWindow(s) == UNCHANGED <<timers, reconnectTimer>>

\* _startReconnectWindow overwrites the handle and leaves an earlier timer ticking.
StartReconnectWindow(s) ==
  /\ timers' = timers \cup {s}
  /\ reconnectTimer' = s

ClearReconnectTimer ==
  /\ timers' = timers \ {reconnectTimer}
  /\ reconnectTimer' = None

LoseControlStillConnected(s) ==
  /\ UNCHANGED connected
  /\ StartReconnectWindow(s)

\* The session s, current until now, closes while the tunnel lives on.
LoseControl(s) ==
  /\ connected' = FALSE
  /\ StartReconnectWindow(s)

ForgetPairs(S) ==
  /\ pairs' = pairs \ S
  /\ dataSocket' = [r \in Requests |-> IF r \in S THEN None ELSE dataSocket[r]]

DestroySockets(D) ==
  /\ liveSockets' = liveSockets \ D
  /\ closingSockets' = closingSockets \cup (liveSockets \cap D)
  /\ UNCHANGED seenSockets

DataSocketsOf(S) == {<<r, dataSocket[r]>> : r \in S}
ActiveSocketsOf(S) == {<<r, active[r]>> : r \in S}

\* _teardownPair for each of S, with the active sockets of A destroyed as well.
TeardownPairs(S, A) ==
  /\ ForgetPairs(S)
  /\ DestroySockets(DataSocketsOf(S \cap pairs) \cup ActiveSocketsOf(A))
  /\ notified' = IF HasControl THEN notified \cup (S \cap pairs) ELSE notified

ReplyEvenIfGone(S, code) ==
  /\ external' = [r \in Requests |->
                    IF r \in S /\ external[r] = "open" THEN "ended" ELSE external[r]]
  /\ answer' = [r \in Requests |-> IF r \in S THEN code ELSE answer[r]]

\* The externals of S that are still there get the answer code and are ended.
Reply(S, code) ==
  /\ external' = [r \in Requests |->
                    IF r \in S /\ external[r] = "open" THEN "ended" ELSE external[r]]
  /\ answer' = [r \in Requests |->
                  IF r \in S /\ external[r] = "open" THEN code ELSE answer[r]]

\* An HTTP pair runs in handleRequest once its reservation is settled.
Relaying(r) == r \in pairs \ (pending \cup WsRequests) /\ <<r, 0>> \in liveSockets

\* pair.onReplace is set by handleUpgrade after its await.
Replaceable(r) == r \in (pairs \cap WsRequests) \ pending

EndResponseStatusZero(r) ==
  /\ Reply({r}, "0")
  /\ ForgetPairs({r})

EndResponseKeepsPair(r) ==
  /\ Reply({r}, IF r \in headers THEN "response" ELSE "502")
  /\ UNCHANGED <<pairs, dataSocket>>

EndResponse(r) ==
  /\ Reply({r}, IF r \in headers THEN "response" ELSE "502")
  /\ ForgetPairs({r})

-----------------------------------------------------------------------------
(* The control channel.                                                    *)

TakeControlClearing(s) ==
  /\ control = None
  /\ session' = [session EXCEPT ![s] = "open"]
  /\ ClearReconnectTimer
  /\ UNCHANGED connected

TakeControl(s) ==
  /\ control = None
  /\ session' = [session EXCEPT ![s] = "open"]
  /\ UNCHANGED <<connected, timers, reconnectTimer>>

SupersedeWithoutClose(s) ==
  /\ control # None
  /\ session' = [session EXCEPT ![s] = "open"]
  /\ LoseControl(control)

\* The previous session is closed first, which starts a reconnect window.
Supersede(s) ==
  /\ control # None
  /\ session' = [session EXCEPT ![s] = "open", ![control] = "closed"]
  /\ LoseControl(control)

AttachControlSession(s) ==
  /\ session[s] = "new"
  /\ \/ /\ closed
        /\ session' = [session EXCEPT ![s] = "closed"]
        /\ UNCHANGED <<control, connected, timers, reconnectTimer>>
     \/ /\ ~closed
        /\ control' = s
        /\ TakeControl(s) \/ Supersede(s)
  /\ UNCHANGED <<greeted, closed, pairVars, socketVars, externalVars>>

KeepableOnceOpened(r) == r \in pairs /\ external[r] # "gone" /\ dataSocket[r] # None

Keepable(r) == r \in pairs /\ external[r] # "gone"

\* The pairs a hello may list. The client keeps its WebSocket pairs when the control channel
\* drops. It closes its HTTP pairs only if it has read the hello.ack of the session, and it
\* reads the pair.open that came with the 101 answer before it says hello.
Listable == (requested \cap WsRequests) \cup early

\* The one hello of a session: inflightPairs are the pairs the client has. It opens a
\* replacement for those kept that are WebSockets, and closes the others.
OnHello(s, inflightPairs) ==
  LET keep == {r \in inflightPairs : Keepable(r)}
      drop == inflightPairs \ keep
  IN
  /\ session[s] = "open"
  /\ s \notin greeted
  /\ control = s
  /\ greeted' = greeted \cup {s}
  /\ ClearReconnectTimer
  /\ connected' = TRUE
  /\ kept' = kept \cup (keep \cap WsRequests)
  /\ pairs' = pairs \ drop
  /\ dataSocket' = [r \in Requests |-> IF r \in inflightPairs THEN None ELSE dataSocket[r]]
  /\ DestroySockets(DataSocketsOf(inflightPairs \cap pairs))
  /\ notified' = notified \cup (drop \cap pairs)
  /\ UNCHANGED <<control, session, closed, pending, active, requested, early, externalVars>>

\* The socket fails, the peer closes, a frame is malformed or the heartbeat times out.
ControlSessionClose(s) ==
  /\ session[s] = "open"
  /\ session' = [session EXCEPT ![s] = "closed"]
  /\ control' = IF control = s THEN None ELSE control
  /\ IF control = s /\ ~closed
       THEN LoseControl(s)
       ELSE UNCHANGED <<connected, timers, reconnectTimer>>
  /\ UNCHANGED <<greeted, closed, pairVars, socketVars, externalVars>>

-----------------------------------------------------------------------------
(* The end of the tunnel.                                                  *)

DestroyAgentForgotten == UNCHANGED <<pending, active>>

DestroyAgent ==
  /\ pending' = {}
  /\ active' = [r \in Requests |-> None]

DestroyTunnel(fired) ==
  /\ closed' = TRUE
  /\ timers' = timers \ (fired \cup {reconnectTimer})
  /\ reconnectTimer' = None
  /\ control' = None
  /\ connected' = FALSE
  /\ session' = [s \in Sessions |-> IF s = control THEN "closed" ELSE session[s]]
  /\ ForgetPairs(pairs)
  /\ DestroyAgent
  /\ DestroySockets(DataSocketsOf(pairs) \cup ActiveSocketsOf(Requests))
  /\ Reply(pending, "503")
  /\ UNCHANGED <<greeted, requested, early, kept, notified, headers>>

\* An administrator deletes the tunnel, or the server shuts down.
Destroy ==
  /\ ~closed
  /\ DestroyTunnel({})

WindowExpires(t) ==
  /\ t \in timers
  /\ \/ /\ ~closed
        /\ DestroyTunnel({t})
     \/ /\ closed
        /\ timers' = timers \ {t}
        /\ UNCHANGED <<control, session, greeted, connected, closed, reconnectTimer,
                       pairVars, socketVars, externalVars>>

-----------------------------------------------------------------------------
(* Requests and their pairs.                                               *)

RefuseRequest(r) ==
  /\ external[r] = "idle"
  /\ ~closed
  /\ ~(HasControl /\ SlotFree)
  /\ external' = [external EXCEPT ![r] = "ended"]
  /\ answer' = [answer EXCEPT ![r] = "503"]
  /\ UNCHANGED <<controlVars, pairVars, socketVars, headers>>

OpenPair(r) ==
  /\ external[r] = "idle"
  /\ ~closed
  /\ HasControl
  /\ SlotFree
  /\ external' = [external EXCEPT ![r] = "open"]
  /\ pairs' = pairs \cup {r}
  /\ pending' = pending \cup {r}
  /\ requested' = requested \cup {r}
  /\ early' = IF control \in greeted THEN early ELSE early \cup {r}
  /\ UNCHANGED <<controlVars, dataSocket, active, kept, notified, socketVars, answer, headers>>

ReservationTimeoutKeepsEntry(r) ==
  /\ r \in pending \cap pairs
  /\ ForgetPairs({r})
  /\ Reply({r}, "503")
  /\ UNCHANGED <<controlVars, pending, active, requested, early, kept, notified, socketVars,
                 headers>>

ReservationTimeoutOfPair(r) ==
  /\ r \in pending \cap pairs
  /\ pending' = pending \ {r}
  /\ ForgetPairs({r})
  /\ Reply({r}, "503")
  /\ UNCHANGED <<controlVars, active, requested, early, kept, notified, socketVars, headers>>

ReservationTimeout(r) ==
  /\ r \in pending
  /\ pending' = pending \ {r}
  /\ ForgetPairs({r})
  /\ Reply({r}, "503")
  /\ UNCHANGED <<controlVars, active, requested, early, kept, notified, socketVars, headers>>

\* The client's data socket presents `PAIR <pairId>`: it settles a reservation or is destroyed.
DataSocketArrives(r) ==
  /\ r \in requested
  /\ <<r, 0>> \notin seenSockets
  /\ seenSockets' = seenSockets \cup {<<r, 0>>}
  /\ \/ /\ r \in pending
        /\ pending' = pending \ {r}
        /\ liveSockets' = liveSockets \cup {<<r, 0>>}
        /\ IF r \in pairs
             THEN /\ dataSocket' = [dataSocket EXCEPT ![r] = 0]
                  /\ active' = [active EXCEPT ![r] = 0]
             ELSE UNCHANGED <<dataSocket, active>>
     \/ /\ r \notin pending
        /\ UNCHANGED <<pending, liveSockets, dataSocket, active>>
  /\ UNCHANGED <<controlVars, pairs, requested, early, kept, notified, closingSockets,
                 externalVars>>

SwapSocketKeepingOld(r, k) ==
  /\ liveSockets' = liveSockets \cup {<<r, k>>}
  /\ UNCHANGED closingSockets

\* onReplace destroys the socket in use and splices the new one to the external.
SwapSocket(r, k) ==
  /\ liveSockets' = {d \in liveSockets : d[1] # r} \cup {<<r, k>>}
  /\ closingSockets' = closingSockets \cup {d \in liveSockets : d[1] = r}

\* The client's data socket presents `PAIR <pairId> REPLACES <controlId>`. Nothing compares the
\* controlId: replacements that two acks asked for may both come, in any order.
ReplacementArrives(r, k) ==
  /\ r \in kept
  /\ k # 0
  /\ <<r, k>> \notin seenSockets
  /\ seenSockets' = seenSockets \cup {<<r, k>>}
  /\ \/ /\ Replaceable(r)
        /\ dataSocket' = [dataSocket EXCEPT ![r] = k]
        /\ active' = [active EXCEPT ![r] = k]
        /\ SwapSocket(r, k)
     \/ /\ ~Replaceable(r)
        /\ UNCHANGED <<dataSocket, active, liveSockets, closingSockets>>
  /\ UNCHANGED <<controlVars, pairs, pending, requested, early, kept, notified, externalVars>>

\* The client reports that the local side of a pair failed.
PairFailed(r) ==
  /\ HasControl
  /\ r \in pairs
  /\ pending' = pending \ {r}
  /\ active' = [active EXCEPT ![r] = None]
  /\ TeardownPairs({r}, {r})
  /\ Reply({r} \cap pending, "503")
  /\ UNCHANGED <<controlVars, requested, early, kept, headers>>

-----------------------------------------------------------------------------
(* Traffic and the ends of its sockets.                                    *)

ResponseHeaders(r) ==
  /\ Relaying(r)
  /\ external[r] = "open"
  /\ r \notin headers
  /\ headers' = headers \cup {r}
  /\ UNCHANGED <<controlVars, pairVars, socketVars, external, answer>>

\* The last byte of the response is parsed; the headers came before it or with it.
ResponseCompletes(r) ==
  /\ Relaying(r)
  /\ headers' = headers \cup {r}
  /\ Reply({r}, "response")
  /\ ForgetPairs({r})
  /\ UNCHANGED <<controlVars, pending, active, requested, early, kept, notified, socketVars>>

\* The peer of a data socket ends it ('end'); it closes once both directions have ended.
DataSocketEnds(r, k) ==
  /\ <<r, k>> \in liveSockets
  /\ DestroySockets({<<r, k>>})
  /\ \/ /\ r \notin WsRequests
        /\ EndResponse(r)
     \/ /\ r \in WsRequests
        /\ external' = [external EXCEPT ![r] = IF @ = "open" THEN "ended" ELSE @]
        /\ UNCHANGED <<answer, pairs, dataSocket>>
  /\ UNCHANGED <<controlVars, pending, active, requested, early, kept, notified, headers>>

\* A data socket fails ('error'): handleUpgrade watches the first one of a pair only.
DataSocketFails(r, k) ==
  /\ <<r, k>> \in liveSockets
  /\ DestroySockets({<<r, k>>})
  /\ \/ /\ r \notin WsRequests
        /\ EndResponse(r)
     \/ /\ r \in WsRequests /\ k = 0
        /\ ForgetPairs({r})
        /\ external' = [external EXCEPT ![r] = "gone"]
        /\ UNCHANGED answer
     \/ /\ r \in WsRequests /\ k # 0
        /\ UNCHANGED <<external, answer, pairs, dataSocket>>
  /\ UNCHANGED <<controlVars, pending, active, requested, early, kept, notified, headers>>

\* The 'close' event of a data socket. handleRequest does not listen to it; handleUpgrade
\* does, on the first socket of the pair, even when a replacement took its place.
DataSocketClosed(r, k) ==
  /\ <<r, k>> \in closingSockets
  /\ closingSockets' = closingSockets \ {<<r, k>>}
  /\ active' = [active EXCEPT ![r] = None]
  /\ IF r \in WsRequests /\ k = 0
       THEN /\ ForgetPairs({r})
            /\ external' = [external EXCEPT ![r] = IF @ = "open" THEN "ended" ELSE @]
       ELSE UNCHANGED <<pairs, dataSocket, external>>
  /\ UNCHANGED <<controlVars, pending, requested, early, kept, notified, liveSockets, seenSockets,
                 answer, headers>>

\* The external of an HTTP request closes before its response is written. The listener
\* that tears the pair down exists only once the reservation is settled.
HttpExternalCloses(r) ==
  /\ r \notin WsRequests
  /\ external[r] = "open"
  /\ external' = [external EXCEPT ![r] = "gone"]
  /\ IF r \in pending
       THEN UNCHANGED <<pairs, dataSocket, notified, socketVars>>
       ELSE TeardownPairs({r}, {})
  /\ UNCHANGED <<controlVars, pending, active, requested, early, kept, answer, headers>>

\* The external of a WebSocket closes. logClose has removed the pair when _teardownPair
\* runs, so the client is sent nothing; an 'error' also destroys the data socket.
WsExternalCloses(r, failed) ==
  /\ r \in WsRequests
  /\ external[r] \in {"open", "ended"}
  /\ r \in requested
  /\ external' = [external EXCEPT ![r] = "gone"]
  /\ IF r \in pending
       THEN UNCHANGED <<pairs, dataSocket, socketVars>>
       ELSE /\ ForgetPairs({r})
            /\ DestroySockets(IF failed THEN {d \in liveSockets : d[1] = r} ELSE {})
  /\ UNCHANGED <<controlVars, pending, active, requested, early, kept, notified, answer, headers>>

-----------------------------------------------------------------------------
Next ==
  \/ \E s \in Sessions : AttachControlSession(s)
  \/ \E s \in Sessions, inflightPairs \in SUBSET Listable :
        OnHello(s, inflightPairs)
  \/ \E s \in Sessions : ControlSessionClose(s)
  \/ Destroy
  \/ \E t \in Sessions : WindowExpires(t)
  \/ \E r \in Requests : RefuseRequest(r)
  \/ \E r \in Requests : OpenPair(r)
  \/ \E r \in Requests : ReservationTimeout(r)
  \/ \E r \in Requests : DataSocketArrives(r)
  \/ \E r \in Requests, k \in SocketIds : ReplacementArrives(r, k)
  \/ \E r \in Requests : PairFailed(r)
  \/ \E r \in Requests : ResponseHeaders(r)
  \/ \E r \in Requests : ResponseCompletes(r)
  \/ \E r \in Requests, k \in SocketIds : DataSocketEnds(r, k)
  \/ \E r \in Requests, k \in SocketIds : DataSocketFails(r, k)
  \/ \E r \in Requests, k \in SocketIds : DataSocketClosed(r, k)
  \/ \E r \in Requests : HttpExternalCloses(r)
  \/ \E r \in Requests, failed \in BOOLEAN : WsExternalCloses(r, failed)

Spec == Init /\ [][Next]_vars

\* Timers fire and 'close' events arrive (Node.js); the client ends every data socket at
\* last, when its local service has answered or hung up (tunnel-cluster.js).
Fairness ==
  /\ \A t \in Sessions : WF_vars(WindowExpires(t))
  /\ \A r \in Requests : WF_vars(ReservationTimeout(r))
  /\ \A r \in Requests, k \in SocketIds : WF_vars(DataSocketClosed(r, k))
  /\ \A r \in Requests, k \in SocketIds : WF_vars(DataSocketEnds(r, k))

FairSpec == Spec /\ Fairness

-----------------------------------------------------------------------------
(* Safety.                                                                 *)

\* At most one control session is open and it is the one the tunnel talks to: a session
\* that replaces another closes it first, and a destroyed tunnel keeps none.
OneControl ==
  /\ \A s \in Sessions : session[s] = "open" => s = control
  /\ control # None => session[control] = "open" /\ ~closed

\* A tunnel counts as connected only while its current session has said hello and the
\* handle of the reconnect window is clear.
ConnectedAfterHello ==
  connected => control # None /\ control \in greeted /\ reconnectTimer = None

\* From the first control loss to the next hello a timer that will expire the tunnel is
\* ticking, and the tunnel holds its handle.
WindowTicking ==
  (\E s \in Sessions : session[s] = "closed") /\ ~connected /\ ~closed
    => reconnectTimer \in timers

\* maxConnections bounds the pairs, and so the externals whose data socket is being relayed.
SlotsBounded == Cardinality(pairs) <= MaxConnections

\* An external that is still there and has a reservation or a live data socket holds a slot:
\* no path through hello, pair.failed or a timeout serves it outside the limit.
ServedHoldsSlot ==
  \A r \in Requests :
    /\ external[r] = "open"
    /\ r \in pending \/ \E k \in SocketIds : <<r, k>> \in liveSockets
    => r \in pairs

\* While a pair is in the table its only live socket is the one the pair remembers, so that
\* tearing the pair down reaches it: a replaced socket does not live on beside the new one.
PairSocketsKnown ==
  \A r \in pairs, k \in SocketIds : <<r, k>> \in liveSockets => dataSocket[r] = k

\* A destroyed tunnel owns nothing: no pair, no reservation, no session, and no live data
\* socket but one whose external has left (a dropped reservation, a replaced socket or a
\* WebSocket that its external closed).
DestroyedOwnsNothing ==
  closed =>
    /\ pairs = {} /\ pending = {}
    /\ \A s \in Sessions : session[s] # "open"
    /\ \A d \in liveSockets : external[d[1]] # "open"

\* A request that was refused is not served: no data socket of a pair that timed out or was
\* cancelled is adopted later.
RefusedNeverServed ==
  \A r \in Requests : answer[r] = "503" => \A k \in SocketIds : <<r, k>> \notin liveSockets

\* Attaching, superseding, closing and the timers of lost sessions agree in any order: one open
\* session, connected only after its hello, and a timer that ticks while there is none.
SessionsConsistent == OneControl /\ ConnectedAfterHello /\ WindowTicking

\* Reservations, data sockets, replacements and failures agree in any order: what is served
\* holds one of the slots, through the one socket its pair knows, and what was refused is not.
SocketsConsistent ==
  SlotsBounded /\ ServedHoldsSlot /\ PairSocketsKnown /\ RefusedNeverServed

-----------------------------------------------------------------------------
(* Liveness.                                                               *)

\* A tunnel that lost its control session is taken back by a hello or destroyed.
WindowResolves ==
  (\E s \in Sessions : session[s] = "closed") ~> (connected \/ closed)

\* A reservation is settled: the request never waits longer than its timeout.
ReservationSettles == \A r \in Requests : (r \in pending) ~> (r \notin pending)

\* The slot of a request that is over is freed.
SlotFreed ==
  \A r \in Requests : (external[r] \in {"ended", "gone"}) ~> (r \notin pairs)

-----------------------------------------------------------------------------
(* What the documentation says and the code does not do.                   *)

\* PROTOCOL.md, "Reconnect Window": in-flight pairs with an active external connection are
\* preserved, so a kept pair whose data was flowing leaves the table only with its external,
\* its tunnel or a failure report.
KeptPairsPreserved ==
  [][\A r \in (kept \cap pairs) \ pending :
       r \notin pairs' => external'[r] = "gone" \/ closed' \/ r \in notified']_vars

=============================================================================

---------------------------- MODULE ClientTunnel ----------------------------
(***************************************************************************)
(* The exposing client as a process (client/tunnel.js, client/index.js):   *)
(* it asks for a tunnel, wires its control channel to its cluster, and     *)
(* ends on a signal, on too many failures, or when nothing is left that    *)
(* keeps Node.js running. Once it has exited nothing happens any more, and *)
(* the other variables are those of a process that is gone.                *)
(***************************************************************************)
EXTENDS TunnelCluster

CONSTANTS
  ReconnectLocal,  \* reconnectLocal
  MAX_FETCH_RETRIES

ASSUME ClientAssumption ==
  /\ ReconnectLocal \in BOOLEAN
  /\ MAX_FETCH_RETRIES \in Nat \ {0}
  /\ HeartbeatTimeout \in Nat
  /\ WsPairs \subseteq Pairs
  /\ MaxReplacements \in Nat
  /\ MaxInWindow \in Nat \ {0}
  /\ MaxTotal \in Nat \ {0}
  /\ None \notin {"first", "retry"}

VARIABLES
  stage,    \* of open(): the tunnel is being requested, or has been granted
  fetches,  \* attempts of the running _fetchTunnelInfo that failed
  closed,   \* closed
  exited,   \* the process has ended
  listed,   \* inflightPairs of the hello that is not answered yet
  adminServer  \* adminPort is set: the dashboard keeps the process running

lifeVars == <<stage, fetches, closed, exited, listed, adminServer>>
vars == <<controlVars, clusterVars, lifeVars>>

TypeOK ==
  /\ ControlTypeOK
  /\ ClusterTypeOK
  /\ stage \in {"fetching", "running"}
  /\ fetches \in 0..MAX_FETCH_RETRIES
  /\ closed \in BOOLEAN
  /\ exited \in BOOLEAN
  /\ listed \subseteq Pairs
  /\ adminServer \in BOOLEAN

Init ==
  /\ ControlInit
  /\ ClusterInit
  /\ stage = "fetching"
  /\ fetches = 0
  /\ closed = FALSE
  /\ exited = FALSE
  /\ listed = {}
  /\ adminServer \in BOOLEAN

-----------------------------------------------------------------------------
(* The tunnel request, open() and close().                                 *)

FetchFailsForever ==
  /\ ~exited
  /\ stage = "fetching"
  /\ fetches' = fetches + 1
  /\ UNCHANGED <<controlVars, clusterVars, stage, closed, exited, listed, adminServer>>

\* An error that is not fatal; after the last attempt open() throws, and the process exits.
FetchFails ==
  /\ ~exited
  /\ stage = "fetching"
  /\ fetches < MAX_FETCH_RETRIES
  /\ fetches' = fetches + 1
  /\ exited' = (fetches' = MAX_FETCH_RETRIES)
  /\ UNCHANGED <<controlVars, clusterVars, stage, closed, listed, adminServer>>

\* 400, 401, 403, 409 and 429 are fatal.
FetchRejected ==
  /\ ~exited
  /\ stage = "fetching"
  /\ exited' = TRUE
  /\ UNCHANGED <<controlVars, clusterVars, stage, fetches, closed, listed, adminServer>>

\* The tunnel is granted, to a client that may have been closed meanwhile: the control channel
\* and the cluster are made all the same.
FetchSucceeds ==
  /\ ~exited
  /\ stage = "fetching"
  /\ stage' = "running"
  /\ fetches' = 0
  /\ attempt' = "first"
  /\ UNCHANGED <<socket, connected, controlClosed, reconnectTimer, resuming, silence>>
  /\ UNCHANGED <<clusterVars, closed, exited, listed, adminServer>>

\* A signal. The process exits half a second later.
Close ==
  /\ ~exited
  /\ ~closed
  /\ closed' = TRUE
  /\ IF stage = "running"
       THEN CloseChannel /\ CloseCluster
       ELSE UNCHANGED <<controlVars, clusterVars>>
  /\ listed' = {}
  /\ UNCHANGED <<stage, fetches, exited, adminServer>>

Exit ==
  /\ ~exited
  /\ closed
  /\ exited' = TRUE
  /\ UNCHANGED <<controlVars, clusterVars, stage, fetches, closed, listed, adminServer>>

\* Node.js ends a process that no socket, no server and no timer keeps running. The reconnect
\* timer and the heartbeat are unref'd and do not count.
Drain ==
  /\ ~exited
  /\ ~adminServer
  /\ stage = "running"
  /\ ~closed
  /\ attempt = None
  /\ ~socket
  /\ \A l \in Links : link[l] \in {"none", "over"}
  /\ exited' = TRUE
  /\ UNCHANGED <<controlVars, clusterVars, stage, fetches, closed, listed, adminServer>>

-----------------------------------------------------------------------------
(* The control channel, with what the cluster does on its events.          *)

ControlConnectFails ==
  /\ ~exited
  /\ ConnectFails
  /\ UNCHANGED <<clusterVars, lifeVars>>

\* Frames that come with the 101 are read before the hello lists the pairs.
ControlConnects(P) ==
  /\ ~exited
  /\ ConnectSucceeds
  /\ IF controlClosed THEN UNCHANGED clusterVars ELSE OpenPairs(P)
  /\ listed' = IF controlClosed THEN listed ELSE pairs'
  /\ UNCHANGED <<stage, fetches, closed, exited, adminServer>>

\* hello.ack: 'connected' for the first session, 'resumed' for a later one.
HelloAck(keep) ==
  /\ ~exited
  /\ Acknowledge
  /\ IF resuming THEN ResumePairs(keep, listed \ keep) ELSE UNCHANGED clusterVars
  /\ listed' = {}
  /\ UNCHANGED <<stage, fetches, closed, exited, adminServer>>

ControlPong ==
  /\ ~exited
  /\ PongArrives
  /\ UNCHANGED <<clusterVars, lifeVars>>

ControlHeartbeat ==
  /\ ~exited
  /\ Heartbeat
  /\ UNCHANGED <<clusterVars, lifeVars>>

Disconnected ==
  /\ IF connected THEN ControlLost ELSE UNCHANGED clusterVars
  /\ listed' = {}
  /\ UNCHANGED <<stage, fetches, closed, exited, adminServer>>

ControlEnds ==
  /\ ~exited
  /\ EndSession
  /\ Disconnected

ControlTimesOut ==
  /\ ~exited
  /\ HeartbeatTimesOut
  /\ Disconnected

ControlReconnects ==
  /\ ~exited
  /\ Reconnect
  /\ UNCHANGED <<clusterVars, lifeVars>>

\* Frames of a channel that is closed are dropped; before hello.ack they are not.
FramesRead == ~exited /\ socket /\ ~controlClosed

\* pair.open
PairOpen(p) ==
  /\ FramesRead
  /\ p \notin opened
  /\ OpenPairs({p})
  /\ UNCHANGED <<controlVars, lifeVars>>

\* pair.close
PairClose(p) ==
  /\ FramesRead
  /\ p \in pairs
  /\ ClosePairs({p})
  /\ UNCHANGED <<controlVars, lifeVars>>

-----------------------------------------------------------------------------
(* The sockets of the pairs, with what the process does on 'tunnel:dead'.  *)

\* Too many failures: the client closes and the process exits at once.
TunnelDead(retriable) ==
  IF ~closed /\ retriable /\ ShouldGiveUp'
    THEN closed' = TRUE /\ exited' = TRUE
    ELSE UNCHANGED <<closed, exited>>

\* What any event of the sockets leaves alone.
SocketEvent ==
  /\ ~exited
  /\ UNCHANGED <<controlVars, stage, fetches, listed, adminServer>>

\* The handler of 'tunnel:dead' returns early on a refused connection.
PairLocalRefused(l) == LocalRefused(l) /\ SocketEvent /\ UNCHANGED <<closed, exited>>

PairLocalConnects(l) == LocalConnects(l) /\ SocketEvent /\ UNCHANGED <<closed, exited>>

\* Errors of a replacement are not announced as 'tunnel:dead'.
PairLocalFails(l) ==
  /\ LocalFails(l)
  /\ SocketEvent
  /\ TunnelDead(l[2] = 0 /\ ReconnectLocal)

PairDataConnects(l) == DataConnects(l) /\ SocketEvent /\ UNCHANGED <<closed, exited>>

PairDataFails(l) == DataFails(l) /\ SocketEvent /\ TunnelDead(l[2] = 0)

PairBytesFlow(p) == BytesFlow(p) /\ SocketEvent /\ UNCHANGED <<closed, exited>>

PairEnds(l) == LinkEnds(l) /\ SocketEvent /\ UNCHANGED <<closed, exited>>

PairLocalClosed(p) == LocalClosed(p) /\ SocketEvent /\ TunnelDead(TRUE)

\* Time passes.
FailuresExpire == WindowMoves /\ SocketEvent /\ UNCHANGED <<closed, exited>>

-----------------------------------------------------------------------------

LifeStep == FetchFails \/ FetchRejected \/ FetchSucceeds \/ Close \/ Exit \/ Drain

ControlStep ==
  \/ ControlConnectFails \/ ControlPong \/ ControlHeartbeat
  \/ ControlEnds \/ ControlTimesOut \/ ControlReconnects
  \/ \E P \in SUBSET (Pairs \ opened) : ControlConnects(P)
  \/ \E keep \in SUBSET listed : HelloAck(keep)
  \/ \E p \in Pairs : PairOpen(p) \/ PairClose(p)

LinkStep ==
  \/ \E l \in Links : \/ PairLocalRefused(l) \/ PairLocalConnects(l) \/ PairLocalFails(l)
                    \/ PairDataConnects(l) \/ PairDataFails(l) \/ PairEnds(l)
  \/ \E p \in Pairs : PairBytesFlow(p) \/ PairLocalClosed(p)
  \/ FailuresExpire

Next == LifeStep \/ ControlStep \/ LinkStep

Spec == Init /\ [][Next]_vars

LocalDialSettles(l) ==
  /\ link[l] = "local"
  /\ PairLocalRefused(l) \/ PairLocalConnects(l) \/ PairLocalFails(l)

DataDialSettles(l) ==
  /\ link[l] \in {"data", "halfdial"}
  /\ PairDataConnects(l) \/ PairDataFails(l)

\* Timers fire, a dial settles, a closed socket says so, an exchange ends at last. A server that
\* is asked again and again accepts a connection at last, and answers its hello.
Fairness ==
  /\ WF_vars(ControlReconnects)
  /\ WF_vars(ControlHeartbeat)
  /\ WF_vars(ControlTimesOut)
  /\ WF_vars(ControlConnectFails \/ ControlConnects({}))
  /\ SF_vars(ControlConnects({}))
  /\ SF_vars(HelloAck({}))
  /\ \A l \in Links : WF_vars(LocalDialSettles(l)) /\ WF_vars(DataDialSettles(l))
  /\ \A l \in Links : WF_vars(PairEnds(l))
  /\ \A p \in Pairs : WF_vars(PairLocalClosed(p))
  /\ WF_vars(Exit)

FairSpec == Spec /\ Fairness

-----------------------------------------------------------------------------
(* Safety.                                                                 *)

\* The client never has two connections to the server, nor an attempt or a timer beside one:
\* every path of _close, connect() and the retry timer hands over exactly one of them.
OneConnection ==
  /\ socket => attempt = None /\ ~reconnectTimer
  /\ attempt # None => ~reconnectTimer
  /\ connected => socket /\ ~controlClosed

\* A client that was closed stays closed, whatever was under way: no session, no retry and no
\* pair comes back, although an attempt that was under way may still adopt its socket.
ClosedStaysClosed ==
  controlClosed => ~connected /\ ~reconnectTimer /\ pairs = {} /\ clusterClosed

\* No first link outlives its pair: as long as its sockets may carry bytes, the table knows it,
\* so that a lost control channel, pair.close and close() reach it.
FirstLinkTracked ==
  \A p \in Pairs : link[<<p, 0>>] \in {"local", "data", "piped"} =>
    p \in pairs /\ generation[p] = 0

\* A pair never has two links that carry bytes: resuming ends the old one before the new one.
OneLinkPerPair ==
  \A p \in Pairs : \A j, k \in 0..MaxReplacements :
    (link[<<p, j>>] = "piped" /\ link[<<p, k>>] = "piped") => j = k

\* Connecting, retrying and closing agree in any order: one connection at most, and none that
\* outlasts close().
ConnectionsConsistent == OneConnection /\ ClosedStaysClosed

\* Opening, resuming and closing agree in any order: the table reaches every first link that
\* may carry bytes, and a pair never has two links that do.
LinksConsistent == FirstLinkTracked /\ OneLinkPerPair

\* A client that retries stops before the failures reach either limit, also when a refused
\* connection, a resumption or successful traffic comes between them.
BudgetEnforced ==
  ReconnectLocal /\ ~exited /\ ~closed => recent < MaxInWindow /\ total < MaxTotal

\* A running client that is not closed is connected, about to be, or will try again: the comment
\* in open() says so of an initial connection that failed.
KeepsTrying ==
  stage = "running" /\ ~closed => attempt # None \/ socket \/ reconnectTimer

-----------------------------------------------------------------------------
(* Liveness.                                                               *)

\* A client that has lost its session reconnects, or is closed.
Reconnects == (reconnectTimer /\ adminServer) ~> (connected \/ closed)

\* A server that has fallen silent is noticed, unless it speaks again.
SilenceNoticed == (connected /\ silence > 0) ~> (~connected \/ silence = 0 \/ exited)

\* A pair that was not replaced leaves the table at last.
PairsEnd ==
  \A p \in Pairs : (p \in pairs) ~> (p \notin pairs \/ generation[p] > 0 \/ exited)

=============================================================================

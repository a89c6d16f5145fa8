------------------------------- MODULE Tunnel -------------------------------
(***************************************************************************)
(* A granted tunnel end to end: the server's ServerTunnel and the client's *)
(* ClientTunnel, joined by the frames of their control channel             *)
(* (common/control-protocol.js) and by the data sockets. Each end takes    *)
(* the steps of its own module; what that module leaves to its environment *)
(* is here what the other end does.                                        *)
(*                                                                         *)
(* A control connection is named by the server's session. Frames arrive in *)
(* order or, once their connection is gone, not at all. Either end may     *)
(* lose it at any time, and notices on its own: heartbeats are not counted.*)
(* A ping, a pong and pair.closed leave no state behind and are left out.  *)
(* Time does not forgive failures here, and traffic does not either. A     *)
(* request that is refused never concerns the client; how much of a        *)
(* response has passed does not either.                                    *)
(***************************************************************************)
EXTENDS Naturals, FiniteSets, Sequences, SequencesExt

CONSTANTS
  Requests, WsRequests, MaxConnections, MaxReplacements,
  MaxInWindow, MaxTotal,
  MaxSessions,  \* bound: control connections
  MaxServed,    \* bound: requests that get a pair
  None

ASSUME TunnelAssumption ==
  /\ WsRequests \subseteq Requests
  /\ MaxSessions \in Nat /\ MaxServed \in Nat /\ MaxReplacements + 1 >= MaxSessions
  /\ MaxConnections \in Nat /\ MaxReplacements \in Nat
  /\ MaxInWindow \in Nat \ {0} /\ MaxTotal \in Nat \ {0}
  /\ None \notin Nat \cup {"503", "502", "response", "first", "retry"}

Sessions == 1..MaxSessions

\* The server's end
VARIABLES
  control, session, greeted, connected, closed, timers, reconnectTimer,
  pairs, dataSocket, pending, active, requested, early, kept, notified,
  liveSockets, closingSockets, seenSockets, external, answer, headers

\* The client's end
VARIABLES
  attempt, socket, established, controlClosed, retryTimer, resuming, silence,
  clientPairs, opened, generation, link, traffic, clusterClosed, recent, total,
  stage, fetches, clientClosed, exited, listed, adminServer

\* What lies between them
VARIABLES
  channel,  \* the session the client's attempt or socket is connected to
  up,       \* per session: the client's frames on their way
  down,     \* per session: the server's frames on their way
  arriving  \* data sockets whose preamble is on its way

S == INSTANCE ServerTunnel

C == INSTANCE ClientTunnel WITH
       Pairs <- Requests, WsPairs <- WsRequests,
       HeartbeatTimeout <- 0, ReconnectLocal <- TRUE, MAX_FETCH_RETRIES <- 1,
       connected <- established, reconnectTimer <- retryTimer,
       pairs <- clientPairs, closed <- clientClosed

serverVars ==
  <<control, session, greeted, connected, closed, timers, reconnectTimer,
    pairs, dataSocket, pending, active, requested, early, kept, notified,
    liveSockets, closingSockets, seenSockets, external, answer, headers>>
clientVars ==
  <<attempt, socket, established, controlClosed, retryTimer, resuming, silence,
    clientPairs, opened, generation, link, traffic, clusterClosed, recent, total,
    stage, fetches, clientClosed, exited, listed, adminServer>>
networkVars == <<channel, up, down, arriving>>
vars == <<serverVars, clientVars, networkVars>>

Init ==
  /\ S!Init
  /\ C!ControlInit /\ C!ClusterInit
  /\ stage = "fetching" /\ fetches = 0 /\ listed = {}
  /\ clientClosed = FALSE /\ exited = FALSE /\ adminServer = TRUE
  /\ channel = None
  /\ up = [s \in Sessions |-> <<>>]
  /\ down = [s \in Sessions |-> <<>>]
  /\ arriving = {}

-----------------------------------------------------------------------------
(* Frames.                                                                 *)

Hello(P) == [type |-> "hello", inflightPairs |-> P]
HelloAck(P, Q) == [type |-> "hello.ack", keep |-> P, drop |-> Q]
PairOpen(p) == [type |-> "pair.open", pair |-> p]
PairClose(p) == [type |-> "pair.close", pair |-> p]
PairFailed(p) == [type |-> "pair.failed", pair |-> p]

\* ControlSession.send; nobody reads what is written to a connection the client has left.
SendDown(s, frames) ==
  down' = IF s = channel /\ s # None THEN [down EXCEPT ![s] = @ \o frames] ELSE down

\* The pair.close frames of the step
Closes == SetToSeq({PairClose(p) : p \in notified' \ notified})

\* A session that is closed reads nothing more.
Unread(frames) == [s \in Sessions |-> IF session'[s] = "closed" THEN <<>> ELSE frames[s]]

\* ControlChannel.send, of the pair.failed that _reportFailure sends while connected
ReportFailure(p) ==
  up' = IF established /\ session[channel] = "open"
          THEN [up EXCEPT ![channel] = Append(@, PairFailed(p))]
          ELSE up

\* The connection is left with the socket, with the attempt that made it, or with the process;
\* otherwise the frames of d are still to be read.
Reading(d) ==
  /\ channel' = IF ~exited' /\ (socket' \/ attempt' # None) THEN channel ELSE None
  /\ down' = [s \in Sessions |-> IF s = channel /\ channel' = None THEN <<>> ELSE d[s]]

-----------------------------------------------------------------------------
(* Steps of the client.                                                    *)

Unheard == UNCHANGED <<serverVars, up, arriving>>

\* What changes nothing but the client and, at most, its connection.
ClientAlone ==
  /\ \/ C!FetchSucceeds \/ C!Close \/ C!Exit
     \/ C!ControlConnectFails \/ C!ControlEnds \/ C!ControlReconnects
  /\ Reading(down)
  /\ Unheard

\* The 101 answer is read, with the first n frames behind it, and the hello is said.
ClientConnects(n) ==
  /\ channel # None
  /\ n <= Len(down[channel])
  /\ \A i \in 1..n : down[channel][i].type = "pair.open"
  /\ C!ControlConnects({down[channel][i].pair : i \in 1..n})
  /\ up' = IF controlClosed \/ session[channel] # "open"
             THEN up
             ELSE [up EXCEPT ![channel] = Append(@, Hello(listed'))]
  /\ Reading([down EXCEPT ![channel] = SubSeq(@, n + 1, Len(@))])
  /\ UNCHANGED <<serverVars, arriving>>

\* One frame is read. A pair.close for a pair the client no longer has is of no effect.
ClientReads ==
  /\ C!FramesRead
  /\ down[channel] # <<>>
  /\ LET frame == Head(down[channel]) IN
       \/ frame.type = "pair.open" /\ C!PairOpen(frame.pair)
       \/ frame.type = "pair.close" /\ C!PairClose(frame.pair)
       \/ /\ frame.type = "pair.close" /\ frame.pair \notin clientPairs
          /\ UNCHANGED clientVars
       \/ frame.type = "hello.ack" /\ C!HelloAck(frame.keep)
  /\ Reading([down EXCEPT ![channel] = Tail(@)])
  /\ Unheard

\* Of these the server learns by the data socket only.
LinkMoves ==
  /\ \/ \E l \in C!Links : C!PairLocalConnects(l) \/ C!PairEnds(l)
     \/ \E p \in Requests : C!PairLocalClosed(p)
  /\ Reading(down)
  /\ Unheard

\* A socket fails and the server is told, if the channel is up.
LinkFails(l) ==
  /\ C!PairLocalRefused(l) \/ C!PairLocalFails(l) \/ C!PairDataFails(l)
  /\ ReportFailure(l[1])
  /\ Reading(down)
  /\ UNCHANGED <<serverVars, arriving>>

\* The preamble is sent. A tunnel that is destroyed no longer listens.
LinkDials(l) ==
  /\ ~closed
  /\ C!PairDataConnects(l)
  /\ arriving' = arriving \cup {l}
  /\ Reading(down)
  /\ UNCHANGED <<serverVars, up>>

-----------------------------------------------------------------------------
(* Steps of the server.                                                    *)

\* The upgrade request of an attempt arrives; a tunnel that is gone answers 404.
Upgrade(s) ==
  /\ attempt # None
  /\ ~exited
  /\ channel = None
  /\ ~closed
  /\ \A t \in Sessions : session[t] = "new" => s <= t
  /\ S!AttachControlSession(s)
  /\ channel' = s
  /\ up' = Unread(up)
  /\ UNCHANGED <<clientVars, down, arriving>>

\* A frame of the client is read.
ServerReads(s) ==
  /\ up[s] # <<>>
  /\ LET frame == Head(up[s]) IN
       \/ /\ frame.type = "hello"
          /\ S!OnHello(s, frame.inflightPairs)
          /\ LET keep == {p \in frame.inflightPairs : S!Keepable(p)}
             IN  SendDown(s, <<HelloAck(keep, frame.inflightPairs \ keep)>> \o Closes)
       \/ /\ frame.type = "pair.failed"
          /\ S!PairFailed(frame.pair)
          /\ SendDown(s, Closes)
       \/ /\ frame.type = "pair.failed" /\ frame.pair \notin pairs
          /\ UNCHANGED <<serverVars, down>>
  /\ up' = [up EXCEPT ![s] = Tail(@)]
  /\ UNCHANGED <<clientVars, channel, arriving>>

\* A request comes, or its external leaves: the client is told.
ServerTells ==
  /\ \E r \in Requests :
       \/ /\ Cardinality(requested) < MaxServed
          /\ S!OpenPair(r)
          /\ SendDown(control, <<PairOpen(r)>>)
       \/ S!HttpExternalCloses(r) /\ SendDown(control, Closes)
  /\ UNCHANGED <<clientVars, channel, up, arriving>>

\* A session ends, alone or with the tunnel.
SessionsEnd ==
  /\ \/ \E s \in Sessions : S!ControlSessionClose(s) \/ S!WindowExpires(s)
     \/ S!Destroy
  /\ up' = Unread(up)
  /\ UNCHANGED <<clientVars, channel, down, arriving>>

\* A data socket presents its preamble.
Arrives(l) ==
  /\ l \in arriving
  /\ IF l[2] = 0 THEN S!DataSocketArrives(l[1]) ELSE S!ReplacementArrives(l[1], l[2])
  /\ arriving' = arriving \ {l}
  /\ UNCHANGED <<clientVars, channel, up, down>>

\* It is lost before that.
ArrivalLost(l) ==
  /\ l \in arriving
  /\ arriving' = arriving \ {l}
  /\ UNCHANGED <<serverVars, clientVars, channel, up, down>>

\* The client has ended its data socket, or its local service has.
EndArrives(l) ==
  /\ exited \/ link[l] \in {"piped", "closing", "over"}
  /\ S!DataSocketEnds(l[1], l[2])
  /\ UNCHANGED <<clientVars, networkVars>>

\* What the client is not told.
ServerAlone ==
  /\ \E r \in Requests :
       \/ S!ReservationTimeout(r) \/ S!ResponseCompletes(r)
       \/ \E failed \in BOOLEAN : S!WsExternalCloses(r, failed)
       \/ \E k \in S!SocketIds : S!DataSocketFails(r, k) \/ S!DataSocketClosed(r, k)
  /\ UNCHANGED <<clientVars, networkVars>>

-----------------------------------------------------------------------------
Next ==
  \/ ClientAlone \/ ClientReads \/ LinkMoves
  \/ \E n \in 0..Cardinality(Requests) : ClientConnects(n)
  \/ \E l \in C!Links : LinkFails(l) \/ LinkDials(l)
  \/ \E s \in Sessions : Upgrade(s) \/ ServerReads(s)
  \/ ServerTells \/ SessionsEnd \/ ServerAlone
  \/ \E l \in C!Links : Arrives(l) \/ ArrivalLost(l) \/ EndArrives(l)

Spec == Init /\ [][Next]_vars

\* What the client does sooner or later, and what the server does, or has done to it. Each of
\* these steps comes a bounded number of times: to be fair to all is to be fair to each.
ClientSettles ==
  \/ ClientReads \/ LinkMoves
  \/ \E l \in C!Links :
        /\ link[l] \in {"local", "data", "halfdial"}
        /\ LinkFails(l) \/ LinkDials(l)

ServerSettles ==
  \/ \E s \in Sessions : ServerReads(s)
  \/ \E l \in C!Links : \/ Arrives(l) \/ ArrivalLost(l)
                        \/ (exited \/ link[l] = "over") /\ EndArrives(l)
  \/ /\ \E r \in Requests :
           S!ReservationTimeout(r) \/ \E k \in S!SocketIds : S!DataSocketClosed(r, k)
     /\ UNCHANGED <<clientVars, networkVars>>

FairSpec == Spec /\ WF_vars(ClientSettles) /\ WF_vars(ServerSettles)

-----------------------------------------------------------------------------
(* What each end takes for granted of the other, and gets.                 *)

\* A hello lists only pairs that ServerTunnel allows for: the WebSockets and the pairs that were
\* opened before it; never an HTTP pair of an earlier session, whose answer may be half out.
HelloIsListable ==
  \A s \in Sessions : \A i \in DOMAIN up[s] :
    up[s][i].type = "hello" => up[s][i].inflightPairs \subseteq S!Listable

\* An ack speaks of the pairs of the hello before it, and a pair is opened once.
FramesFit ==
  channel # None => \A i \in DOMAIN down[channel] :
    LET frame == down[channel][i] IN
    /\ frame.type = "hello.ack" /\ ~controlClosed => frame.keep \cup frame.drop = listed
    /\ frame.type = "pair.open" => frame.pair \notin opened

\* A replacement comes only for a pair the server has kept.
ReplacementsAsked == \A l \in arriving : l[1] \in (IF l[2] = 0 THEN requested ELSE kept)

\* Whatever is lost, late or overtaken between them, the two ends keep to what each module
\* assumes of its environment.
ContractsKept == HelloIsListable /\ FramesFit /\ ReplacementsAsked

-----------------------------------------------------------------------------
(* Liveness.                                                               *)

\* A pair that the client has given up, whatever became of its sockets, of the report and of the
\* control channel, gives its slot back; unless a hello took its data socket from it, so that it
\* waits for a replacement.
SlotsReturned ==
  \A r \in Requests :
    (r \in pairs /\ r \in opened \ clientPairs)
      ~> (r \notin pairs \/ (dataSocket[r] = None /\ r \notin pending))

=============================================================================

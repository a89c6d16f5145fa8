-------------------------- MODULE ClientTunnelProofs ------------------------
(***************************************************************************)
(* Proofs about ClientTunnel, for any pairs, limits and timeouts.          *)
(***************************************************************************)
EXTENDS ClientTunnel, TLAPS

\* Before the tunnel is granted there is no control channel.
NoChannelYet ==
  stage = "fetching" => attempt = None /\ ~socket /\ ~reconnectTimer /\ ~controlClosed

ControlInv ==
  /\ OneConnection
  /\ ClosedStaysClosed
  /\ NoChannelYet

Live == {"local", "data", "piped"}

\* Only the last link of a pair is live, links come one after the other, and what is not opened
\* has never been replaced.
LinkInv ==
  /\ pairs \subseteq opened
  /\ \A p \in Pairs : p \notin opened => generation[p] = 0
  /\ \A l \in Links :
       /\ link[l] \in Live => l[2] = generation[l[1]] /\ (l[2] = 0 => l[1] \in pairs)
       /\ l[2] > generation[l[1]] => link[l] = "none"

-----------------------------------------------------------------------------
(* Types.                                                                  *)

\* What the control channel does leaves its variables well formed.
LEMMA ControlTypes ==
  ASSUME ControlTypeOK, HeartbeatTimeout \in Nat,
         \/ ConnectFails \/ ConnectSucceeds \/ Acknowledge \/ PongArrives \/ Heartbeat
         \/ EndSession \/ HeartbeatTimesOut \/ Reconnect \/ CloseChannel
         \/ UNCHANGED controlVars
  PROVE  ControlTypeOK'
<1> USE DEF ControlTypeOK
<1>1. CASE ConnectFails
  <2>1. CASE attempt = "retry"
    BY <1>1, <2>1 DEF ConnectFails, ScheduleReconnect
  <2>2. CASE attempt # "retry"
    BY <1>1, <2>2 DEF ConnectFails
  <2> QED
    BY <2>1, <2>2
<1>2. CASE ConnectSucceeds
  BY <1>2 DEF ConnectSucceeds
<1>6. CASE Acknowledge
  BY <1>6 DEF Acknowledge
<1>7. CASE PongArrives \/ Heartbeat
  BY <1>7 DEF PongArrives, Heartbeat
<1>3. CASE EndSession \/ HeartbeatTimesOut
  BY <1>3 DEF EndSession, HeartbeatTimesOut, ScheduleReconnect
<1>4. CASE Reconnect \/ CloseChannel
  BY <1>4 DEF Reconnect, CloseChannel
<1>5. CASE UNCHANGED controlVars
  BY <1>5 DEF controlVars
<1> QED
  BY <1>1, <1>2, <1>3, <1>4, <1>5, <1>6, <1>7

\* Destroying links leaves every link in one of its phases.
LEMMA DestroyedIsPhase ==
  ASSUME ClusterTypeOK, NEW l \in Links
  PROVE  Destroyed(l) \in Phases
BY DEF ClusterTypeOK, Destroyed, Phases

\* So does what the server asks of the pairs.
LEMMA PairsTypes ==
  ASSUME ClusterTypeOK,
         NEW P \in SUBSET Pairs, NEW keep \in SUBSET Pairs, NEW drop \in SUBSET Pairs,
         OpenPairs(P) \/ ClosePairs(P) \/ ResumePairs(keep, drop) \/ CloseCluster
  PROVE  ClusterTypeOK'
<1>1. \A l \in Links : Destroyed(l) \in Phases
  BY DestroyedIsPhase
<1>2. CASE OpenPairs(P)
  BY <1>2 DEF OpenPairs, ClusterTypeOK, Phases
<1>3. CASE ClosePairs(P)
  BY <1>1, <1>3 DEF ClosePairs, DestroyLinks, ClusterTypeOK
<1>4. CASE CloseCluster
  BY <1>1, <1>4 DEF CloseCluster, DestroyLinks, ClusterTypeOK
<1>5. CASE ResumePairs(keep, drop)
  <2>1. generation' \in [Pairs -> 0..MaxReplacements]
    BY ClientAssumption, <1>5 DEF ResumePairs, ClusterTypeOK
  <2>2. link' \in [Links -> Phases]
    BY <1>1, <1>5 DEF ResumePairs, ClusterTypeOK, Phases
  <2> QED
    BY <1>5, <2>1, <2>2 DEF ResumePairs, ClusterTypeOK
<1> QED
  BY <1>2, <1>3, <1>4, <1>5

\* So do the events of the sockets.
LEMMA LinkTypes ==
  ASSUME ClusterTypeOK, NEW l \in Links,
         \/ LocalRefused(l) \/ LocalConnects(l) \/ LocalFails(l) \/ DataConnects(l)
         \/ DataFails(l) \/ LinkEnds(l) \/ BytesFlow(l[1]) \/ LocalClosed(l[1]) \/ WindowMoves
  PROVE  ClusterTypeOK'
<1>1. l[1] \in Pairs /\ <<l[1], 0>> \in Links
  BY ClientAssumption DEF Links
<1>2. \A phase \in Phases, m \in Links : Becomes(m, phase) => link' \in [Links -> Phases]
  BY DEF Becomes, ClusterTypeOK
<1>3. Record => recent' \in 0..MaxInWindow /\ total' \in 0..MaxTotal
  BY ClientAssumption DEF Record, ClusterTypeOK
<1>4. CASE LocalRefused(l) \/ LocalConnects(l)
  BY <1>2, <1>4 DEF LocalRefused, LocalConnects, ClusterTypeOK, Phases
<1>5. CASE LocalFails(l)
  <2>1. link' \in [Links -> Phases]
    BY <1>2, <1>5 DEF LocalFails, Phases
  <2> QED
    BY <1>3, <1>5, <2>1 DEF LocalFails, ClusterTypeOK
<1>6. CASE DataFails(l)
  <2>1. link' \in [Links -> Phases]
    BY <1>2, <1>6 DEF DataFails, Phases
  <2> QED
    BY <1>3, <1>6, <2>1 DEF DataFails, ClusterTypeOK
<1>7. CASE DataConnects(l) \/ LinkEnds(l)
  <2>1. link' \in [Links -> Phases]
    BY <1>2, <1>7 DEF DataConnects, LinkEnds, Phases
  <2> QED
    BY <1>7, <2>1 DEF DataConnects, LinkEnds, ClusterTypeOK
<1>8. CASE BytesFlow(l[1])
  BY <1>1, <1>8 DEF BytesFlow, ClusterTypeOK
<1>9. CASE LocalClosed(l[1])
  <2>1. link' \in [Links -> Phases]
    BY <1>1, <1>2, <1>9 DEF LocalClosed, Phases
  <2> QED
    BY ClientAssumption, <1>9, <2>1 DEF LocalClosed, ClusterTypeOK
<1>10. CASE WindowMoves
  BY ClientAssumption, <1>10 DEF WindowMoves, ClusterTypeOK
<1> QED
  BY <1>4, <1>5, <1>6, <1>7, <1>8, <1>9, <1>10

\* Every callback of the client leaves its state well formed.
LEMMA StepTypeOK == TypeOK /\ [Next]_vars => TypeOK'
<1> SUFFICES ASSUME TypeOK, [Next]_vars PROVE TypeOK'
  OBVIOUS
<1>1. HeartbeatTimeout \in Nat
  BY ClientAssumption
<1>2. CASE LifeStep
  <2>1. CASE FetchSucceeds
    <3>1. ControlTypeOK'
      BY <2>1 DEF FetchSucceeds, TypeOK, ControlTypeOK
    <3>2. ClusterTypeOK'
      BY <2>1 DEF FetchSucceeds, TypeOK, ClusterTypeOK, clusterVars
    <3>3. fetches' \in 0..MAX_FETCH_RETRIES
      BY <2>1, ClientAssumption DEF FetchSucceeds
    <3> QED
      BY <2>1, <3>1, <3>2, <3>3 DEF FetchSucceeds, TypeOK
  <2>2. CASE Close
    <3>1. ControlTypeOK'
      BY <1>1, <2>2, ControlTypes DEF Close, TypeOK
    <3>2. ClusterTypeOK'
      <4>1. CASE CloseCluster
        BY <1>1, <4>1, PairsTypes DEF TypeOK
      <4>2. CASE UNCHANGED clusterVars
        BY <4>2 DEF TypeOK, ClusterTypeOK, clusterVars
      <4> QED
        BY <2>2, <4>1, <4>2 DEF Close
    <3> QED
      BY <2>2, <3>1, <3>2 DEF Close, TypeOK
  <2>3. CASE FetchFails \/ FetchRejected \/ Exit \/ Drain
    <3>1. UNCHANGED <<controlVars, clusterVars, stage, closed, listed, adminServer>>
      BY <2>3 DEF FetchFails, FetchRejected, Exit, Drain
    <3>2. ControlTypeOK' /\ ClusterTypeOK'
      BY <3>1 DEF TypeOK, ControlTypeOK, ClusterTypeOK, controlVars, clusterVars
    <3>3. exited' \in BOOLEAN
      BY <2>3 DEF FetchFails, FetchRejected, Exit, Drain
    <3>4. fetches' \in 0..MAX_FETCH_RETRIES
      <4>1. CASE FetchFails
        BY <4>1, ClientAssumption DEF FetchFails, TypeOK
      <4>2. CASE FetchRejected \/ Exit \/ Drain
        BY <4>2 DEF FetchRejected, Exit, Drain, TypeOK
      <4> QED
        BY <2>3, <4>1, <4>2
    <3> QED
      BY <3>1, <3>2, <3>3, <3>4 DEF TypeOK
  <2> QED
    BY <1>2, <2>1, <2>2, <2>3 DEF LifeStep
<1>3. CASE ControlStep
  <2>1. ASSUME UNCHANGED <<clusterVars, lifeVars>>,
               ConnectFails \/ PongArrives \/ Heartbeat \/ Reconnect
        PROVE  TypeOK'
    <3>1. ControlTypeOK'
      BY <1>1, <2>1, ControlTypes DEF TypeOK
    <3> QED
      BY <2>1, <3>1 DEF TypeOK, ClusterTypeOK, clusterVars, lifeVars
  <2>2. CASE ControlEnds \/ ControlTimesOut
    <3>1. ControlTypeOK'
      BY <1>1, <2>2, ControlTypes DEF ControlEnds, ControlTimesOut, TypeOK
    <3>2. ClusterTypeOK'
      <4>1. CASE ControlLost
        BY <1>1, <4>1, PairsTypes DEF ControlLost, TypeOK, ClusterTypeOK
      <4>2. CASE UNCHANGED clusterVars
        BY <4>2 DEF TypeOK, ClusterTypeOK, clusterVars
      <4> QED
        BY <2>2, <4>1, <4>2 DEF ControlEnds, ControlTimesOut, Disconnected
    <3> QED
      BY <2>2, <3>1, <3>2 DEF ControlEnds, ControlTimesOut, Disconnected, TypeOK
  <2>3. ASSUME NEW P \in SUBSET (Pairs \ opened), ControlConnects(P) PROVE TypeOK'
    <3>1. ControlTypeOK'
      BY <1>1, <2>3, ControlTypes DEF ControlConnects, TypeOK
    <3>2. ClusterTypeOK'
      <4>1. CASE OpenPairs(P)
        BY <1>1, <4>1, PairsTypes DEF TypeOK
      <4>2. CASE UNCHANGED clusterVars
        BY <4>2 DEF TypeOK, ClusterTypeOK, clusterVars
      <4> QED
        BY <2>3, <4>1, <4>2 DEF ControlConnects
    <3> QED
      BY <2>3, <3>1, <3>2 DEF ControlConnects, TypeOK, ClusterTypeOK
  <2>4. ASSUME NEW keep \in SUBSET listed, HelloAck(keep) PROVE TypeOK'
    <3>1. ControlTypeOK'
      BY <1>1, <2>4, ControlTypes DEF HelloAck, TypeOK
    <3>2. ClusterTypeOK'
      <4>1. CASE ResumePairs(keep, listed \ keep)
        <5>1. keep \in SUBSET Pairs /\ (listed \ keep) \in SUBSET Pairs
          BY DEF TypeOK
        <5> QED
          BY <1>1, <4>1, <5>1, PairsTypes DEF TypeOK
      <4>2. CASE UNCHANGED clusterVars
        BY <4>2 DEF TypeOK, ClusterTypeOK, clusterVars
      <4> QED
        BY <2>4, <4>1, <4>2 DEF HelloAck
    <3> QED
      BY <2>4, <3>1, <3>2 DEF HelloAck, TypeOK
  <2>5. ASSUME NEW p \in Pairs, PairOpen(p) \/ PairClose(p) PROVE TypeOK'
    <3>1. ControlTypeOK'
      BY <1>1, <2>5, ControlTypes DEF PairOpen, PairClose, TypeOK
    <3>2. ClusterTypeOK'
      BY <1>1, <2>5, PairsTypes DEF PairOpen, PairClose, TypeOK
    <3> QED
      BY <2>5, <3>1, <3>2 DEF PairOpen, PairClose, TypeOK, lifeVars
  <2> QED
    BY <1>3, <2>1, <2>2, <2>3, <2>4, <2>5
    DEF ControlStep, ControlConnectFails, ControlPong, ControlHeartbeat, ControlReconnects
<1>4. CASE LinkStep
  <2>1. ControlTypeOK' /\ UNCHANGED <<stage, fetches, listed, adminServer>>
    <3>1. SocketEvent
      BY <1>4
      DEF LinkStep, PairLocalRefused, PairLocalConnects, PairLocalFails, PairDataConnects,
          PairDataFails, PairEnds, PairBytesFlow, PairLocalClosed, FailuresExpire
    <3> QED
      BY <1>1, <3>1, ControlTypes DEF SocketEvent, TypeOK
  <2>2. closed' \in BOOLEAN /\ exited' \in BOOLEAN
    BY <1>4
    DEF LinkStep, PairLocalRefused, PairLocalConnects, PairLocalFails, PairDataConnects,
        PairDataFails, PairEnds, PairBytesFlow, PairLocalClosed, FailuresExpire, TunnelDead, TypeOK
  <2>3. ClusterTypeOK'
    <3>1. ASSUME NEW l \in Links,
                 \/ PairLocalRefused(l) \/ PairLocalConnects(l) \/ PairLocalFails(l)
                 \/ PairDataConnects(l) \/ PairDataFails(l) \/ PairEnds(l)
          PROVE  ClusterTypeOK'
      BY <1>1, <3>1, LinkTypes
      DEF PairLocalRefused, PairLocalConnects, PairLocalFails, PairDataConnects,
          PairDataFails, PairEnds, TypeOK
    <3>2. ASSUME NEW p \in Pairs, PairBytesFlow(p) \/ PairLocalClosed(p)
          PROVE  ClusterTypeOK'
      <4>1. <<p, 0>> \in Links /\ <<p, 0>>[1] = p
        BY ClientAssumption, <1>1 DEF Links
      <4>2. BytesFlow(<<p, 0>>[1]) \/ LocalClosed(<<p, 0>>[1])
        BY <3>2, <4>1 DEF PairBytesFlow, PairLocalClosed
      <4> QED
        BY <1>1, <4>1, <4>2, LinkTypes DEF TypeOK
    <3>3. CASE FailuresExpire
      BY ClientAssumption, <3>3, <1>1 DEF FailuresExpire, WindowMoves, TypeOK, ClusterTypeOK
    <3> QED
      BY <1>4, <3>1, <3>2, <3>3 DEF LinkStep
  <2> QED
    BY <2>1, <2>2, <2>3 DEF TypeOK
<1>5. CASE UNCHANGED vars
  BY <1>5 DEF vars, TypeOK, ControlTypeOK, ClusterTypeOK, controlVars, clusterVars, lifeVars
<1> QED
  BY <1>2, <1>3, <1>4, <1>5 DEF Next

\* The client's state stays well formed.
THEOREM TypeCorrect == Spec => []TypeOK
<1>1. Init => TypeOK
  <2> SUFFICES ASSUME Init PROVE TypeOK
    OBVIOUS
  <2>1. ControlTypeOK
    <3>1. silence \in 0..HeartbeatTimeout
      BY ClientAssumption DEF Init, ControlInit
    <3> QED
      BY <3>1 DEF Init, ControlInit, ControlTypeOK
  <2>2. ClusterTypeOK
    <3>1. recent \in 0..MaxInWindow /\ total \in 0..MaxTotal
      BY ClientAssumption DEF Init, ClusterInit
    <3>2. generation \in [Pairs -> 0..MaxReplacements]
      BY ClientAssumption DEF Init, ClusterInit
    <3> QED
      BY <3>1, <3>2 DEF Init, ClusterInit, ClusterTypeOK, Phases
  <2>3. fetches \in 0..MAX_FETCH_RETRIES
    BY ClientAssumption DEF Init
  <2> QED
    BY <2>1, <2>2, <2>3 DEF Init, TypeOK
<1> QED
  BY <1>1, StepTypeOK, PTL DEF Spec

-----------------------------------------------------------------------------
(* One connection, and none for a client that was closed.                  *)

\* The sockets of the pairs leave the control channel alone and never add a pair.
LEMMA LinkStepShrinks ==
  ASSUME LinkStep
  PROVE  /\ UNCHANGED <<controlVars, stage, clusterClosed, opened, generation>>
         /\ pairs' \subseteq pairs
<1>1. ASSUME NEW l \in Links,
             \/ PairLocalRefused(l) \/ PairLocalConnects(l) \/ PairLocalFails(l)
             \/ PairDataConnects(l) \/ PairDataFails(l) \/ PairEnds(l)
      PROVE  /\ UNCHANGED <<controlVars, stage, clusterClosed, opened, generation>>
             /\ pairs' \subseteq pairs
  BY <1>1
  DEF PairLocalRefused, PairLocalConnects, PairLocalFails, PairDataConnects, PairDataFails,
      PairEnds, SocketEvent, LocalRefused, LocalConnects, LocalFails, DataConnects, DataFails,
      LinkEnds
<1>2. ASSUME NEW p \in Pairs, PairBytesFlow(p) \/ PairLocalClosed(p)
      PROVE  /\ UNCHANGED <<controlVars, stage, clusterClosed, opened, generation>>
             /\ pairs' \subseteq pairs
  BY <1>2 DEF PairBytesFlow, PairLocalClosed, SocketEvent, BytesFlow, LocalClosed
<1>3. CASE FailuresExpire
  BY <1>3 DEF FailuresExpire, SocketEvent, WindowMoves
<1> QED
  BY <1>1, <1>2, <1>3 DEF LinkStep

\* A step of the channel that adds no pair keeps the invariant.
LEMMA ChannelControlInv ==
  ASSUME TypeOK, ControlInv, pairs' \subseteq pairs, UNCHANGED clusterClosed,
         UNCHANGED stage,
         \/ ConnectFails \/ ConnectSucceeds \/ Acknowledge \/ PongArrives \/ Heartbeat
         \/ EndSession \/ HeartbeatTimesOut \/ Reconnect
         \/ UNCHANGED controlVars
  PROVE  ControlInv'
<1> USE ClientAssumption DEF ControlInv, OneConnection, ClosedStaysClosed, NoChannelYet
<1>1. CASE ConnectFails
  <2>1. CASE attempt = "retry"
    BY <1>1, <2>1 DEF ConnectFails, ScheduleReconnect
  <2>2. CASE attempt # "retry"
    BY <1>1, <2>2 DEF ConnectFails
  <2> QED
    BY <2>1, <2>2
<1>2. CASE ConnectSucceeds
  BY <1>2 DEF ConnectSucceeds
<1>3. CASE Acknowledge
  BY <1>3 DEF Acknowledge
<1>4. CASE PongArrives \/ Heartbeat
  BY <1>4 DEF PongArrives, Heartbeat
<1>5. CASE EndSession \/ HeartbeatTimesOut
  <2>1. EndSession
    BY <1>5 DEF HeartbeatTimesOut
  <2>2. socket /\ attempt = None /\ ~reconnectTimer
    BY <2>1 DEF EndSession
  <2>3. ~connected' /\ ~socket' /\ UNCHANGED <<attempt, controlClosed>>
    BY <2>1 DEF EndSession
  <2>4. reconnectTimer' => ~controlClosed
    BY <2>1, <2>2 DEF EndSession, ScheduleReconnect
  <2> QED
    BY <2>2, <2>3, <2>4
<1>6. CASE Reconnect
  BY <1>6 DEF Reconnect
<1>7. CASE UNCHANGED controlVars
  BY <1>7 DEF controlVars
<1> QED
  BY <1>1, <1>2, <1>3, <1>4, <1>5, <1>6, <1>7

\* Every callback keeps it.
LEMMA StepControlInv == TypeOK /\ ControlInv /\ [Next]_vars => ControlInv'
<1> SUFFICES ASSUME TypeOK, ControlInv, [Next]_vars PROVE ControlInv'
  OBVIOUS
<1>1. CASE LifeStep
  <2>1. CASE FetchSucceeds
    BY <2>1
    DEF FetchSucceeds, clusterVars, ControlInv, OneConnection, ClosedStaysClosed, NoChannelYet
  <2>2. CASE Close /\ stage = "running"
    BY <2>2
    DEF Close, CloseChannel, CloseCluster, ControlInv, OneConnection, ClosedStaysClosed,
        NoChannelYet
  <2>3. CASE Close /\ stage # "running"
    BY <2>3, ChannelControlInv DEF Close, controlVars, clusterVars
  <2>4. CASE FetchFails \/ FetchRejected \/ Exit \/ Drain
    BY <2>4, ChannelControlInv
    DEF FetchFails, FetchRejected, Exit, Drain, controlVars, clusterVars
  <2> QED
    BY <1>1, <2>1, <2>2, <2>3, <2>4 DEF LifeStep
<1>2. CASE ControlStep
  <2>1. ASSUME UNCHANGED <<clusterVars, lifeVars>>,
               ConnectFails \/ PongArrives \/ Heartbeat \/ Reconnect
        PROVE  ControlInv'
    BY <2>1, ChannelControlInv DEF clusterVars, lifeVars
  <2>2. CASE ControlEnds \/ ControlTimesOut
    <3>1. EndSession \/ HeartbeatTimesOut
      BY <2>2 DEF ControlEnds, ControlTimesOut
    <3>2. UNCHANGED <<stage, clusterClosed>> /\ pairs' \subseteq pairs
      BY <2>2
      DEF ControlEnds, ControlTimesOut, Disconnected, ControlLost, ClosePairs, clusterVars
    <3> QED
      BY <3>1, <3>2, ChannelControlInv
  <2>3. ASSUME NEW P \in SUBSET (Pairs \ opened), ControlConnects(P) PROVE ControlInv'
    <3>1. CASE controlClosed
      <4>1. stage = "running" /\ UNCHANGED <<stage, clusterVars>>
        BY <2>3, <3>1 DEF ControlConnects, ControlInv, NoChannelYet, TypeOK
      <4> QED
        BY <2>3, <4>1, ChannelControlInv DEF ControlConnects, clusterVars
    <3>2. CASE ~controlClosed
      BY <2>3, <3>2
      DEF ControlConnects, ConnectSucceeds, ControlInv, OneConnection, ClosedStaysClosed,
          NoChannelYet
    <3> QED
      BY <3>1, <3>2
  <2>4. ASSUME NEW keep \in SUBSET listed, HelloAck(keep) PROVE ControlInv'
    <3>1. UNCHANGED <<stage, clusterClosed>> /\ pairs' \subseteq pairs
      BY <2>4 DEF HelloAck, Acknowledge, ResumePairs, clusterVars
    <3> QED
      BY <2>4, <3>1, ChannelControlInv DEF HelloAck
  <2>5. ASSUME NEW p \in Pairs, PairOpen(p) \/ PairClose(p) PROVE ControlInv'
    BY <2>5
    DEF PairOpen, PairClose, FramesRead, controlVars, lifeVars, ControlInv, OneConnection,
        ClosedStaysClosed, NoChannelYet
  <2> QED
    BY <1>2, <2>1, <2>2, <2>3, <2>4, <2>5
    DEF ControlStep, ControlConnectFails, ControlPong, ControlHeartbeat, ControlReconnects
<1>3. CASE LinkStep
  BY <1>3, LinkStepShrinks, ChannelControlInv DEF controlVars
<1>4. CASE UNCHANGED vars
  BY <1>4, ChannelControlInv DEF vars, controlVars, clusterVars, lifeVars
<1> QED
  BY <1>1, <1>2, <1>3, <1>4 DEF Next

\* The client has at most one connection, attempt or retry, and none that lasts once it is
\* closed.
THEOREM ControlCorrect == Spec => []ConnectionsConsistent
<1>1. Init => ControlInv
  BY DEF Init, ControlInit, ControlInv, OneConnection, ClosedStaysClosed, NoChannelYet
<1>2. ControlInv => ConnectionsConsistent
  BY DEF ControlInv, ConnectionsConsistent
<1> QED
  BY <1>1, <1>2, StepControlInv, TypeCorrect, PTL DEF Spec

-----------------------------------------------------------------------------
(* The links of the pairs.                                                 *)

\* A destroyed link is not live, and one that never was is made neither.
LEMMA DestroyedNotLive ==
  ASSUME NEW l
  PROVE  Destroyed(l) \notin Live
BY DEF Destroyed, Live

\* Closing pairs, or all of them, ends their live links.
LEMMA CloseLinkInv ==
  ASSUME TypeOK, LinkInv, NEW P \in SUBSET Pairs, ClosePairs(P)
  PROVE  LinkInv'
<1>1. \A l \in Links : Destroyed(l) \notin Live
  BY DestroyedNotLive
<1>2. /\ pairs' = pairs \ P
      /\ opened' = opened /\ generation' = generation
      /\ link' = [l \in Links |-> IF l \in {Current(p) : p \in P \cap pairs}
                                   THEN Destroyed(l) ELSE link[l]]
  BY DEF ClosePairs, DestroyLinks
<1>3. ASSUME NEW l \in Links
      PROVE  /\ link'[l] \in Live => l[2] = generation[l[1]] /\ (l[2] = 0 => l[1] \in pairs')
             /\ l[2] > generation[l[1]] => link'[l] = "none"
  <2>1. l[1] \in Pairs /\ l[2] \in Nat /\ l = <<l[1], l[2]>>
    BY ClientAssumption DEF Links
  <2>2. generation[l[1]] \in Nat
    BY <2>1, ClientAssumption DEF TypeOK, ClusterTypeOK
  <2>3. CASE \E p \in P \cap pairs : l = Current(p)
    BY <1>1, <1>2, <2>1, <2>2, <2>3 DEF Current
  <2>4. CASE \A p \in P \cap pairs : l # Current(p)
    <3>1. link'[l] = link[l]
      BY <1>2, <2>4
    <3>2. link[l] \in Live => l[1] \notin P \cap pairs
      BY <2>1, <2>4 DEF LinkInv, Current
    <3> QED
      BY <1>2, <3>1, <3>2 DEF LinkInv
  <2> QED
    BY <2>3, <2>4
<1> QED
  BY <1>2, <1>3 DEF LinkInv

\* A new pair gets its first link.
LEMMA OpenLinkInv ==
  ASSUME TypeOK, LinkInv, NEW P \in SUBSET (Pairs \ opened), OpenPairs(P)
  PROVE  LinkInv'
<1>1. CASE clusterClosed
  BY <1>1 DEF OpenPairs, LinkInv
<1>2. CASE ~clusterClosed
  <2>1. /\ opened' = opened \cup P /\ pairs' = pairs \cup P /\ generation' = generation
        /\ link' = [l \in Links |-> IF l[1] \in P /\ l[2] = 0 THEN "local" ELSE link[l]]
    BY <1>2 DEF OpenPairs
  <2>2. \A l \in Links : l[1] \in P => generation[l[1]] = 0
    BY DEF LinkInv
  <2>3. ASSUME NEW l \in Links
        PROVE  /\ link'[l] \in Live => l[2] = generation[l[1]] /\ (l[2] = 0 => l[1] \in pairs')
               /\ l[2] > generation[l[1]] => link'[l] = "none"
    BY <2>1, <2>2 DEF LinkInv, Live
  <2> QED
    BY <2>1, <2>3 DEF LinkInv
<1> QED
  BY <1>1, <1>2

\* Resuming ends the last link of a pair before it makes the next one.
LEMMA ResumeLinkInv ==
  ASSUME TypeOK, LinkInv, NEW keep \in SUBSET Pairs, NEW drop \in SUBSET Pairs,
         ResumePairs(keep, drop)
  PROVE  LinkInv'
<1> DEFINE close == (drop \cup (keep \ WsPairs)) \cap pairs
           replace == keep \cap WsPairs \cap pairs
           new == {<<p, generation[p] + 1>> : p \in replace}
<1>1. /\ opened' = opened /\ pairs' = pairs \ close
      /\ \A p \in Pairs : generation'[p] = IF p \in replace THEN generation[p] + 1
                                                            ELSE generation[p]
      /\ \A l \in Links : link'[l] = IF l \in new THEN "local"
                                     ELSE IF l \in {Current(p) : p \in close \cup replace}
                                     THEN Destroyed(l) ELSE link[l]
  BY DEF ResumePairs
<1>2. \A l \in Links : Destroyed(l) \notin Live
  BY DestroyedNotLive
<1>3. replace \subseteq pairs /\ close \subseteq pairs
  OBVIOUS
<1> HIDE DEF close, replace
<1>4. pairs \subseteq opened
  BY DEF LinkInv
<1>5. \A p \in Pairs : p \notin opened' => generation'[p] = 0
  BY <1>1, <1>3, <1>4 DEF LinkInv
<1>6. ASSUME NEW l \in Links
      PROVE  /\ link'[l] \in Live => l[2] = generation'[l[1]] /\ (l[2] = 0 => l[1] \in pairs')
             /\ l[2] > generation'[l[1]] => link'[l] = "none"
  <2>1. l[1] \in Pairs /\ l[2] \in Nat /\ l = <<l[1], l[2]>>
    BY ClientAssumption DEF Links
  <2>2. generation[l[1]] \in Nat
    BY <2>1, ClientAssumption DEF TypeOK, ClusterTypeOK
  <2>3. CASE l[1] \in replace /\ l[2] = generation[l[1]] + 1
    <3>1. generation'[l[1]] = l[2] /\ l[2] > 0
      BY <1>1, <2>1, <2>2, <2>3
    <3> QED
      BY <2>1, <3>1
  <2>4. CASE ~(l[1] \in replace /\ l[2] = generation[l[1]] + 1)
    <3>1. l \notin new
      BY <2>1, <2>4
    <3>2. CASE l[1] \in close \cup replace /\ l[2] = generation[l[1]]
      <4>1. link'[l] = Destroyed(l)
        BY <1>1, <2>1, <3>1, <3>2 DEF Current
      <4>2. generation'[l[1]] \in {l[2], l[2] + 1}
        BY <1>1, <2>1, <3>2
      <4> QED
        BY <1>2, <2>1, <4>1, <4>2
    <3>3. CASE ~(l[1] \in close \cup replace /\ l[2] = generation[l[1]])
      <4>1. link'[l] = link[l]
        BY <1>1, <2>1, <3>1, <3>3 DEF Current
      <4>2. generation'[l[1]] \in {generation[l[1]], generation[l[1]] + 1}
        BY <1>1, <2>1
      <4>3. l[2] > generation'[l[1]] => l[2] > generation[l[1]]
        BY <2>1, <2>2, <4>2
      <4>4. link[l] \in Live => /\ l[2] = generation[l[1]]
                              /\ l[1] \notin close \cup replace
        BY <3>3 DEF LinkInv
      <4>5. link[l] \in Live => generation'[l[1]] = generation[l[1]]
        BY <1>1, <2>1, <4>4
      <4> QED
        BY <1>1, <4>1, <4>3, <4>4, <4>5 DEF LinkInv
    <3> QED
      BY <3>2, <3>3
  <2> QED
    BY <2>3, <2>4
<1> QED
  BY <1>1, <1>4, <1>5, <1>6 DEF LinkInv

\* An event of the sockets of a link never makes a link live, and takes a pair from the table
\* only if its first link is not live afterwards.
LEMMA SocketLinkInv ==
  ASSUME TypeOK, LinkInv, LinkStep
  PROVE  LinkInv'
<1>1. UNCHANGED <<opened, generation>> /\ pairs' \subseteq pairs
  BY LinkStepShrinks
<1>2. ASSUME NEW l \in Links,
             \/ LocalRefused(l) \/ LocalConnects(l) \/ LocalFails(l)
             \/ DataConnects(l) \/ DataFails(l) \/ LinkEnds(l)
      PROVE  /\ \A m \in Links : m # l => link'[m] = link[m]
             /\ link[l] # "none"
             /\ link'[l] \in Live => link[l] \in Live /\ pairs' = pairs
             /\ pairs \ {l[1]} \subseteq pairs'
  BY <1>2
  DEF LocalRefused, LocalConnects, LocalFails, DataConnects, DataFails, LinkEnds, Becomes, Live,
      TypeOK, ClusterTypeOK
<1>3. ASSUME NEW l \in Links,
             /\ \A m \in Links : m # l => link'[m] = link[m]
             /\ link[l] # "none"
             /\ link'[l] \in Live => link[l] \in Live /\ pairs' = pairs
             /\ pairs \ {l[1]} \subseteq pairs'
      PROVE  LinkInv'
  <2>1. l[1] \in Pairs /\ l[2] \in Nat /\ l = <<l[1], l[2]>> /\ generation[l[1]] \in Nat
    BY ClientAssumption DEF Links, TypeOK, ClusterTypeOK
  <2>2. l[2] <= generation[l[1]]
    BY <1>3, <2>1 DEF LinkInv
  <2>3. ASSUME NEW m \in Links
        PROVE  /\ link'[m] \in Live => m[2] = generation[m[1]] /\ (m[2] = 0 => m[1] \in pairs')
               /\ m[2] > generation[m[1]] => link'[m] = "none"
    <3>1. m[1] \in Pairs /\ m[2] \in Nat /\ m = <<m[1], m[2]>>
      BY ClientAssumption DEF Links
    <3>2. CASE m = l
      BY <1>3, <2>1, <2>2, <3>2 DEF LinkInv
    <3>3. CASE m # l
      <4>1. m[2] > generation[m[1]] => link'[m] = "none"
        BY <1>3, <3>3 DEF LinkInv
      <4>2. ASSUME link'[m] \in Live PROVE m[2] = generation[m[1]]
        BY <1>3, <3>3, <4>2 DEF LinkInv
      <4>3. ASSUME link'[m] \in Live, m[2] = 0 PROVE m[1] \in pairs'
        <5>1. m[1] \in pairs /\ generation[m[1]] = 0
          BY <1>3, <3>3, <4>3 DEF LinkInv
        <5>2. m[1] # l[1]
          BY <2>1, <2>2, <3>1, <3>3, <4>3, <5>1
        <5> QED
          BY <1>3, <5>1, <5>2
      <4> QED
        BY <4>1, <4>2, <4>3
    <3> QED
      BY <3>2, <3>3
  <2> QED
    BY <1>1, <2>3 DEF LinkInv
<1>4. ASSUME NEW p \in Pairs, LocalClosed(p) PROVE LinkInv'
  <2>1. <<p, 0>> \in Links /\ <<p, 0>>[1] = p
    BY ClientAssumption DEF Links
  <2>2. /\ \A m \in Links : m # <<p, 0>> => link'[m] = link[m]
        /\ link[<<p, 0>>] # "none"
        /\ link'[<<p, 0>>] \notin Live
        /\ pairs \ {p} \subseteq pairs'
    BY <1>4, <2>1 DEF LocalClosed, Becomes, Live, TypeOK, ClusterTypeOK
  <2> QED
    BY <1>3, <2>1, <2>2
<1>5. ASSUME UNCHANGED <<link, pairs>> PROVE LinkInv'
  BY <1>1, <1>5 DEF LinkInv
<1> QED
  BY <1>2, <1>3, <1>4, <1>5
  DEF LinkStep, PairLocalRefused, PairLocalConnects, PairLocalFails, PairDataConnects,
      PairDataFails, PairEnds, PairBytesFlow, PairLocalClosed, FailuresExpire, BytesFlow,
      WindowMoves

\* Every callback keeps the links in order.
LEMMA StepLinkInv == TypeOK /\ LinkInv /\ [Next]_vars => LinkInv'
<1> SUFFICES ASSUME TypeOK, LinkInv, [Next]_vars PROVE LinkInv'
  OBVIOUS
<1>1. ASSUME UNCHANGED clusterVars PROVE LinkInv'
  BY <1>1 DEF LinkInv, clusterVars
<1>2. CASE LifeStep
  <2>1. CASE CloseCluster
    <3>1. pairs \in SUBSET Pairs
      BY DEF TypeOK, ClusterTypeOK
    <3>2. ASSUME NEW l \in Links
          PROVE  /\ link'[l] \in Live => l[2] = generation[l[1]] /\ l[2] # 0
                 /\ l[2] > generation[l[1]] => link'[l] = "none"
      <4>1. l[1] \in Pairs /\ l[2] \in Nat /\ l = <<l[1], l[2]>> /\ generation[l[1]] \in Nat
        BY ClientAssumption DEF Links, TypeOK, ClusterTypeOK
      <4>2. CASE \E p \in pairs : l = Current(p)
        <5>1. link'[l] \notin Live
          BY <2>1, <4>2, DestroyedNotLive DEF CloseCluster, DestroyLinks
        <5>2. l[2] = generation[l[1]]
          BY <4>2 DEF Current
        <5> QED
          BY <4>1, <5>1, <5>2
      <4>3. CASE \A p \in pairs : l # Current(p)
        <5>1. link'[l] = link[l]
          BY <2>1, <4>3 DEF CloseCluster, DestroyLinks
        <5>2. link[l] \in Live => l[1] \notin pairs
          BY <4>1, <4>3 DEF LinkInv, Current
        <5> QED
          BY <5>1, <5>2 DEF LinkInv
      <4> QED
        BY <4>2, <4>3
    <3>3. pairs' = {} /\ UNCHANGED <<opened, generation>>
      BY <2>1 DEF CloseCluster
    <3> QED
      BY <3>2, <3>3 DEF LinkInv
  <2> QED
    BY <1>1, <1>2, <2>1
    DEF LifeStep, FetchFails, FetchRejected, FetchSucceeds, Close, Exit, Drain
<1>3. CASE ControlStep
  <2>1. ASSUME ControlLost PROVE LinkInv'
    <3>1. (pairs \ WsPairs) \in SUBSET Pairs
      BY DEF TypeOK, ClusterTypeOK
    <3> QED
      BY <2>1, <3>1, CloseLinkInv DEF ControlLost
  <2>2. ASSUME NEW P \in SUBSET (Pairs \ opened), OpenPairs(P) PROVE LinkInv'
    BY <2>2, OpenLinkInv
  <2>3. ASSUME NEW keep \in SUBSET listed, ResumePairs(keep, listed \ keep) PROVE LinkInv'
    <3>1. keep \in SUBSET Pairs /\ (listed \ keep) \in SUBSET Pairs
      BY DEF TypeOK
    <3> QED
      BY <2>3, <3>1, ResumeLinkInv
  <2>4. ASSUME NEW p \in Pairs, PairOpen(p) \/ PairClose(p) PROVE LinkInv'
    <3>1. CASE PairOpen(p)
      <4>1. {p} \in SUBSET (Pairs \ opened)
        BY <3>1 DEF PairOpen
      <4> QED
        BY <3>1, <4>1, OpenLinkInv DEF PairOpen
    <3>2. CASE PairClose(p)
      <4>1. {p} \in SUBSET Pairs
        OBVIOUS
      <4> QED
        BY <3>2, <4>1, CloseLinkInv DEF PairClose
    <3> QED
      BY <2>4, <3>1, <3>2
  <2> QED
    BY <1>1, <1>3, <2>1, <2>2, <2>3, <2>4
    DEF ControlStep, ControlConnectFails, ControlConnects, HelloAck, ControlPong,
        ControlHeartbeat, ControlEnds, ControlTimesOut, Disconnected, ControlReconnects
<1>4. CASE LinkStep
  BY <1>4, SocketLinkInv
<1>5. CASE UNCHANGED vars
  BY <1>1, <1>5 DEF vars
<1> QED
  BY <1>2, <1>3, <1>4, <1>5 DEF Next

\* The table reaches every first link that may carry bytes, and no pair has two links that do.
THEOREM LinksCorrect == Spec => []LinksConsistent
<1>1. Init => LinkInv
  BY ClientAssumption DEF Init, ClusterInit, LinkInv, Live, Links
<1>2. LinkInv => LinksConsistent
  <2> SUFFICES ASSUME LinkInv PROVE FirstLinkTracked /\ OneLinkPerPair
    BY DEF LinksConsistent
  <2>1. \A p \in Pairs, k \in 0..MaxReplacements :
          link[<<p, k>>] \in Live => k = generation[p] /\ (k = 0 => p \in pairs)
    BY DEF LinkInv, Links
  <2> QED
    BY <2>1, ClientAssumption DEF FirstLinkTracked, OneLinkPerPair, Live
<1> QED
  BY <1>1, <1>2, StepLinkInv, TypeCorrect, PTL DEF Spec

-----------------------------------------------------------------------------
(* The failure budget.                                                     *)

\* Only the sockets spend it.
LEMMA BudgetElsewhere ==
  ASSUME LifeStep \/ ControlStep \/ UNCHANGED vars
  PROVE  UNCHANGED <<recent, total>> /\ (closed => closed') /\ (exited => exited')
<1>1. CASE LifeStep
  BY <1>1
  DEF LifeStep, FetchFails, FetchRejected, FetchSucceeds, Close, CloseCluster, Exit, Drain,
      clusterVars
<1>2. CASE ControlStep
  <2>1. CASE \/ ControlConnectFails \/ ControlPong \/ ControlHeartbeat \/ ControlReconnects
    BY <2>1
    DEF ControlConnectFails, ControlPong, ControlHeartbeat, ControlReconnects, clusterVars,
        lifeVars
  <2>2. CASE ControlEnds \/ ControlTimesOut
    BY <2>2
    DEF ControlEnds, ControlTimesOut, Disconnected, ControlLost, ClosePairs, clusterVars
  <2>3. ASSUME NEW P \in SUBSET (Pairs \ opened), ControlConnects(P)
        PROVE  UNCHANGED <<recent, total, closed, exited>>
    BY <2>3 DEF ControlConnects, OpenPairs, clusterVars
  <2>4. ASSUME NEW keep \in SUBSET listed, HelloAck(keep)
        PROVE  UNCHANGED <<recent, total, closed, exited>>
    BY <2>4 DEF HelloAck, ResumePairs, clusterVars
  <2>5. ASSUME NEW p \in Pairs, PairOpen(p) \/ PairClose(p)
        PROVE  UNCHANGED <<recent, total, closed, exited>>
    BY <2>5 DEF PairOpen, PairClose, OpenPairs, ClosePairs, lifeVars
  <2> QED
    BY <1>2, <2>1, <2>2, <2>3, <2>4, <2>5 DEF ControlStep
<1>3. CASE UNCHANGED vars
  BY <1>3 DEF vars, clusterVars, lifeVars
<1> QED
  BY <1>1, <1>2, <1>3

\* Every failure that may spend the last of it ends the client in the same callback.
LEMMA StepBudget == TypeOK /\ BudgetEnforced /\ [Next]_vars => BudgetEnforced'
<1> SUFFICES ASSUME TypeOK, BudgetEnforced, [Next]_vars PROVE BudgetEnforced'
  OBVIOUS
<1>1. CASE LifeStep \/ ControlStep \/ UNCHANGED vars
  BY <1>1, BudgetElsewhere DEF BudgetEnforced
<1>2. CASE LinkStep
  <2> SUFFICES ASSUME ReconnectLocal, ~exited', ~closed'
               PROVE  recent' < MaxInWindow /\ total' < MaxTotal
    BY DEF BudgetEnforced
  <2>1. /\ recent \in Nat /\ total \in Nat
        /\ MaxInWindow \in Nat \ {0} /\ MaxTotal \in Nat \ {0}
    BY ClientAssumption DEF TypeOK, ClusterTypeOK
  <2>2. TypeOK'
    BY StepTypeOK
  <2>3. recent' \in Nat /\ total' \in Nat
    BY <2>1, <2>2 DEF TypeOK, ClusterTypeOK
  <2>4. ~ShouldGiveUp' => recent' < MaxInWindow /\ total' < MaxTotal
    BY <2>1, <2>3 DEF ShouldGiveUp
  <2>5. ASSUME ~closed, TunnelDead(TRUE) PROVE ~ShouldGiveUp'
    BY <2>5 DEF TunnelDead
  <2>6. ~exited
    BY <1>2
    DEF LinkStep, PairLocalRefused, PairLocalConnects, PairLocalFails, PairDataConnects,
        PairDataFails, PairEnds, PairBytesFlow, PairLocalClosed, FailuresExpire, SocketEvent
  <2>7. ~closed
    BY <1>2
    DEF LinkStep, PairLocalRefused, PairLocalConnects, PairLocalFails, PairDataConnects,
        PairDataFails, PairEnds, PairBytesFlow, PairLocalClosed, FailuresExpire, TunnelDead
  <2>8. recent < MaxInWindow /\ total < MaxTotal
    BY <2>6, <2>7 DEF BudgetEnforced
  <2>9. ASSUME NEW l \in Links, PairLocalFails(l) \/ PairDataFails(l)
        PROVE  recent' < MaxInWindow /\ total' < MaxTotal
    <3>1. CASE l[2] = 0
      <4>1. TunnelDead(TRUE)
        BY <2>9, <3>1 DEF PairLocalFails, PairDataFails, TunnelDead
      <4> QED
        BY <2>4, <2>5, <2>7, <4>1
    <3>2. CASE l[2] # 0
      BY <2>8, <2>9, <3>2 DEF PairLocalFails, PairDataFails, LocalFails, DataFails
    <3> QED
      BY <3>1, <3>2
  <2>10. ASSUME NEW p \in Pairs, PairLocalClosed(p)
         PROVE  recent' < MaxInWindow /\ total' < MaxTotal
    BY <2>4, <2>5, <2>7, <2>10 DEF PairLocalClosed
  <2>11. ASSUME NEW l \in Links,
                \/ PairLocalRefused(l) \/ PairLocalConnects(l)
                \/ PairDataConnects(l) \/ PairEnds(l)
         PROVE  recent' < MaxInWindow /\ total' < MaxTotal
    BY <2>8, <2>11
    DEF PairLocalRefused, PairLocalConnects, PairDataConnects, PairEnds, LocalRefused,
        LocalConnects, DataConnects, LinkEnds
  <2>12. CASE FailuresExpire
    BY <2>1, <2>8, <2>12 DEF FailuresExpire, WindowMoves
  <2>13. ASSUME NEW p \in Pairs, PairBytesFlow(p)
         PROVE  recent' < MaxInWindow /\ total' < MaxTotal
    BY <2>8, <2>13 DEF PairBytesFlow, BytesFlow
  <2> QED
    BY <1>2, <2>9, <2>10, <2>11, <2>12, <2>13 DEF LinkStep
<1> QED
  BY <1>1, <1>2 DEF Next

\* A client that retries never runs on with its budget spent.
THEOREM BudgetCorrect == Spec => []BudgetEnforced
<1>1. Init => BudgetEnforced
  BY ClientAssumption DEF Init, ClusterInit, BudgetEnforced
<1> QED
  BY <1>1, StepBudget, TypeCorrect, PTL DEF Spec

=============================================================================

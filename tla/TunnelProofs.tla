------------------------------ MODULE TunnelProofs ---------------------------
(***************************************************************************)
(* Proofs about Tunnel, for any requests, sessions and limits: each end    *)
(* takes only steps of its own module, and so what is proved of            *)
(* ServerTunnel and of ClientTunnel holds when the two are joined.         *)
(***************************************************************************)
EXTENDS Tunnel, FiniteSetTheorems, SequenceTheorems, TLAPS

Frames ==
  [type : {"hello"}, inflightPairs : SUBSET Requests]
    \cup [type : {"hello.ack"}, keep : SUBSET Requests, drop : SUBSET Requests]
    \cup [type : {"pair.open", "pair.close", "pair.failed"}, pair : Requests]

\* The server's end: a request is asked for once, and a session that said hello was accepted.
ServerInv ==
  /\ external \in [Requests -> {"idle", "open", "ended", "gone"}]
  /\ session \in [Sessions -> {"new", "open", "closed"}]
  /\ pairs \subseteq Requests /\ IsFiniteSet(pairs)
  /\ requested \subseteq Requests
  /\ \A r \in requested : external[r] # "idle"
  /\ \A s \in Sessions : session[s] = "new" => s \notin greeted

\* The client's end: one connection, and pairs that were opened.
ClientInv ==
  /\ clientPairs \subseteq opened
  /\ opened \subseteq Requests
  /\ generation \in [Requests -> Nat]
  /\ link \in [C!Links -> C!Phases]
  /\ socket => attempt = None /\ ~retryTimer
  /\ attempt # None => ~retryTimer
  /\ established => socket /\ ~controlClosed
  /\ stage \in {"fetching", "running"}
  /\ stage = "fetching" => attempt = None /\ ~socket /\ ~retryTimer

\* Only the connection in use has frames on their way to the client. It lasts as long as the
\* client's attempt or socket; until the attempt has succeeded nothing is said on it.
NetworkInv ==
  /\ channel \in Sessions \cup {None}
  /\ up \in [Sessions -> Seq(Frames)]
  /\ down \in [Sessions -> Seq(Frames)]
  /\ channel # None => ~exited /\ (socket \/ attempt # None) /\ session[channel] # "new"
  /\ socket /\ ~exited => channel # None
  /\ \A s \in Sessions : s # channel => down[s] = <<>>
  /\ \A s \in Sessions : session[s] = "new" => up[s] = <<>>
  /\ channel # None /\ attempt # None => channel \notin greeted /\ up[channel] = <<>>

\* A hello is the first frame of its session, and lists pairs that ServerTunnel allows for; that
\* of the connection in use lists what the client awaits an answer for.
HelloAt(s) ==
  \A i \in 1..Len(up[s]) : up[s][i].type = "hello" =>
    /\ i = 1
    /\ up[s][i].inflightPairs \subseteq S!Listable
    /\ s = channel =>
         s \notin greeted /\ ~established /\ (controlClosed \/ up[s][i].inflightPairs = listed)

HelloInv == \A s \in Sessions : HelloAt(s)

\* What is on its way to the client: one hello.ack, for the pairs the client listed, exactly from
\* the hello until the client has read it; and pairs never opened before, those ahead of the
\* hello.ack all early ones.
AckInv(q) ==
  /\ \A i \in 1..Len(q) : q[i].type = "hello.ack" =>
       /\ channel \in greeted /\ ~established
       /\ controlClosed \/ q[i].keep \cup q[i].drop = listed
       /\ q[i].keep \cap WsRequests \subseteq kept
       /\ \A j \in 1..Len(q) : q[j].type = "hello.ack" => j = i
  /\ channel \in greeted /\ ~established => \E i \in 1..Len(q) : q[i].type = "hello.ack"

OpenInv(q) ==
  \A i \in 1..Len(q) : q[i].type = "pair.open" =>
    /\ q[i].pair \in requested \ opened
    /\ \A j \in 1..Len(q) : q[j].type = "pair.open" /\ q[j].pair = q[i].pair => j = i
    /\ ~established /\ (\A j \in 1..(i - 1) : q[j].type # "hello.ack") => q[i].pair \in early

DownInv == channel # None => AckInv(down[channel]) /\ OpenInv(down[channel])

\* The pairs of the client were asked for; until it is connected its HTTP pairs are early ones.
PairsInv ==
  /\ opened \subseteq requested
  /\ ~established => clientPairs \ WsRequests \subseteq early

Asked(l) == l[1] \in (IF l[2] = 0 THEN requested ELSE kept)

\* A data socket is dialed only for a pair the server has asked for, or has kept.
LinkInv ==
  /\ \A l \in C!Links : link[l] \in {"local", "data", "halfdial"} => Asked(l)
  /\ \A l \in arriving : l \in C!Links /\ Asked(l)

Inv == ServerInv /\ ClientInv /\ NetworkInv /\ HelloInv /\ DownInv /\ PairsInv /\ LinkInv

-----------------------------------------------------------------------------
(* Frames.                                                                 *)

\* The frames that are sent are frames, and say what they were made to say.
LEMMA FramesMade ==
  /\ \A P, Q \in SUBSET Requests :
       /\ Hello(P) \in Frames /\ Hello(P).type = "hello" /\ Hello(P).inflightPairs = P
       /\ HelloAck(P, Q) \in Frames /\ HelloAck(P, Q).type = "hello.ack"
       /\ HelloAck(P, Q).keep = P /\ HelloAck(P, Q).drop = Q
  /\ \A p \in Requests :
       /\ PairOpen(p) \in Frames /\ PairOpen(p).type = "pair.open" /\ PairOpen(p).pair = p
       /\ PairClose(p) \in Frames /\ PairClose(p).type = "pair.close" /\ PairClose(p).pair = p
       /\ PairFailed(p) \in Frames /\ PairFailed(p).type = "pair.failed" /\ PairFailed(p).pair = p
BY DEF Hello, HelloAck, PairOpen, PairClose, PairFailed, Frames

LEMMA FramesRead ==
  \A f \in Frames :
    /\ f.type \in {"pair.open", "pair.close", "pair.failed"} => f.pair \in Requests
    /\ f.type = "hello.ack" => f.keep \subseteq Requests /\ f.drop \subseteq Requests
    /\ f.type = "hello" => f.inflightPairs \subseteq Requests
BY DEF Frames

\* The set of a finite number of elements is made a sequence of them.
LEMMA SetMadeSeq ==
  ASSUME NEW T, IsFiniteSet(T)
  PROVE  SetToSeq(T) \in Seq(T)
<1>1. Cardinality(T) \in Nat /\ ExistsBijection(1..Cardinality(T), T)
  BY FS_CardinalityType
<1>2. \E f \in [1..Cardinality(T) -> T] : IsInjective(f)
  BY <1>1 DEF ExistsBijection, Bijection, Injection
<1>3. SetToSeq(T) \in [1..Cardinality(T) -> T]
  BY <1>2 DEF SetToSeq
<1> QED
  BY <1>1, <1>3, SeqDef

\* So are the pair.close frames of a step.
LEMMA ClosesAreFrames ==
  ASSUME IsFiniteSet(pairs), pairs \subseteq Requests, notified' \ notified \subseteq pairs
  PROVE  /\ Closes \in Seq(Frames)
         /\ \A i \in 1..Len(Closes) : Closes[i].type = "pair.close"
<1> DEFINE D == notified' \ notified
           T == {PairClose(p) : p \in D}
           closing == {f \in Frames : f.type = "pair.close"}
<1>1. IsFiniteSet(D)
  BY FS_Subset
<1>2. IsFiniteSet(T)
  <2>1. [p \in D |-> PairClose(p)] \in Surjection(D, T)
    BY DEF Surjection
  <2> QED
    BY <1>1, <2>1, FS_Surjection DEF ExistsSurjection
<1>3. T \subseteq closing
  BY FramesMade
<1>4. Closes \in Seq(T)
  BY <1>2, SetMadeSeq DEF Closes
<1>5. Closes \in Seq(closing)
  BY <1>3, <1>4, SeqMonotonic
<1>6. Closes \in Seq(Frames)
  BY <1>5, SeqMonotonic
<1> QED
  BY <1>5, <1>6, ElementOfSeq

-----------------------------------------------------------------------------
(* The ends, by themselves.                                                *)

\* What the server has asked for, kept or heard once it does not forget.
Grows ==
  /\ requested \subseteq requested' /\ early \subseteq early'
  /\ kept \subseteq kept' /\ greeted \subseteq greeted'
  /\ \A s \in Sessions : session'[s] = "new" => session[s] = "new"

\* The tunnel is destroyed.
LEMMA DestroyServerInv ==
  ASSUME ServerInv, NEW fired, S!DestroyTunnel(fired)
  PROVE  ServerInv' /\ Grows /\ notified' = notified
<1>1. /\ requested' = requested /\ early' = early /\ kept' = kept /\ greeted' = greeted
      /\ notified' = notified /\ pairs' = {}
  BY DEF S!DestroyTunnel, S!ForgetPairs
<1>2. /\ session' \in [Sessions -> {"new", "open", "closed"}]
      /\ \A t \in Sessions : session'[t] = "new" => session[t] = "new"
  BY DEF S!DestroyTunnel, ServerInv
<1>3. /\ external' \in [Requests -> {"idle", "open", "ended", "gone"}]
      /\ \A r \in Requests : external'[r] = "idle" => external[r] = "idle"
  BY DEF S!DestroyTunnel, S!Reply, ServerInv
<1>4. IsFiniteSet({})
  BY FS_EmptySet
<1> QED
  BY <1>1, <1>2, <1>3, <1>4 DEF ServerInv, Grows

\* Of the session that an action of the control channel concerns.
LEMMA ControlStepServerInv ==
  ASSUME ServerInv, NEW s \in Sessions,
         \/ S!AttachControlSession(s) \/ S!ControlSessionClose(s) \/ S!WindowExpires(s)
  PROVE  ServerInv' /\ Grows /\ notified' = notified
<1> USE DEF ServerInv, Grows
<1>1. CASE S!AttachControlSession(s)
  BY <1>1 DEF S!AttachControlSession, S!TakeControl, S!Supersede, S!pairVars, S!externalVars
<1>2. CASE S!ControlSessionClose(s)
  BY <1>2 DEF S!ControlSessionClose, S!pairVars, S!externalVars
<1>4. CASE S!WindowExpires(s)
  <2>1. CASE S!DestroyTunnel({s})
    BY DestroyServerInv, <2>1
  <2>2. CASE ~S!DestroyTunnel({s})
    BY <1>4, <2>2 DEF S!WindowExpires, S!pairVars, S!externalVars
  <2> QED
    BY <2>1, <2>2
<1> QED
  BY <1>1, <1>2, <1>4

\* A pair is lost or its external answered: what is left of both.
LEMMA OnlyShrinks ==
  ASSUME ServerInv,
         UNCHANGED <<session, greeted, requested, early>>, kept \subseteq kept',
         pairs' \subseteq pairs, notified' \ notified \subseteq pairs,
         external' \in [Requests -> {"idle", "open", "ended", "gone"}],
         \A r \in Requests : external'[r] = "idle" => external[r] = "idle"
  PROVE  ServerInv' /\ Grows /\ notified' \ notified \subseteq pairs
BY FS_Subset DEF ServerInv, Grows

LEMMA HelloServerInv ==
  ASSUME ServerInv, NEW s \in Sessions, NEW P, S!OnHello(s, P)
  PROVE  ServerInv' /\ Grows /\ notified' \ notified \subseteq pairs
<1>1. /\ UNCHANGED <<session, external, requested, early>> /\ greeted' = greeted \cup {s}
      /\ kept \subseteq kept' /\ pairs' \subseteq pairs /\ notified' \ notified \subseteq pairs
      /\ session[s] = "open"
  BY DEF S!OnHello, S!externalVars
<1> QED
  BY <1>1, FS_Subset DEF ServerInv, Grows

LEMMA OpenServerInv ==
  ASSUME ServerInv, NEW r \in Requests, S!OpenPair(r)
  PROVE  ServerInv' /\ Grows /\ notified' = notified
<1>1. /\ UNCHANGED <<session, greeted, kept, notified>>
      /\ external' = [external EXCEPT ![r] = "open"]
      /\ requested' = requested \cup {r} /\ early \subseteq early' /\ pairs' = pairs \cup {r}
  BY DEF S!OpenPair, S!controlVars
<1>2. IsFiniteSet(pairs \cup {r})
  BY FS_AddElement DEF ServerInv
<1> QED
  BY <1>1, <1>2 DEF ServerInv, Grows

\* An action of one request that opens no pair.
LEMMA RequestServerInv ==
  ASSUME ServerInv, NEW r \in Requests,
         \/ S!RefuseRequest(r) \/ S!ReservationTimeout(r) \/ S!DataSocketArrives(r)
         \/ \E k \in S!SocketIds :
              \/ S!ReplacementArrives(r, k) \/ S!DataSocketEnds(r, k)
              \/ S!DataSocketFails(r, k) \/ S!DataSocketClosed(r, k)
         \/ S!PairFailed(r) \/ S!ResponseHeaders(r) \/ S!ResponseCompletes(r)
         \/ S!HttpExternalCloses(r) \/ \E failed \in BOOLEAN : S!WsExternalCloses(r, failed)
  PROVE  ServerInv' /\ Grows /\ notified' \ notified \subseteq pairs
<1> DEFINE Statuses == {"idle", "open", "ended", "gone"}
<1> SUFFICES
      /\ UNCHANGED <<session, greeted, requested, early, kept>>
      /\ pairs' \subseteq pairs /\ notified' \ notified \subseteq pairs
      /\ external' \in [Requests -> Statuses]
      /\ \A q \in Requests : external'[q] = "idle" => external[q] = "idle"
  BY OnlyShrinks
<1> USE DEF ServerInv
<1>1. CASE S!RefuseRequest(r)
  BY <1>1 DEF S!RefuseRequest, S!controlVars, S!pairVars
<1>2. CASE S!ReservationTimeout(r)
  BY <1>2 DEF S!ReservationTimeout, S!ForgetPairs, S!Reply, S!controlVars
<1>3. CASE S!DataSocketArrives(r) \/ \E k \in S!SocketIds : S!ReplacementArrives(r, k)
  BY <1>3 DEF S!DataSocketArrives, S!ReplacementArrives, S!controlVars, S!externalVars
<1>4. ASSUME NEW k \in S!SocketIds, S!DataSocketEnds(r, k) \/ S!DataSocketFails(r, k)
      PROVE  /\ UNCHANGED <<session, greeted, requested, early, kept>>
             /\ pairs' \subseteq pairs /\ notified' \ notified \subseteq pairs
             /\ external' \in [Requests -> Statuses]
             /\ \A q \in Requests : external'[q] = "idle" => external[q] = "idle"
  <2>1. UNCHANGED <<session, greeted, requested, early, kept, notified>>
    BY <1>4 DEF S!DataSocketEnds, S!DataSocketFails, S!controlVars
  <2>2. CASE S!EndResponse(r)
    BY <2>1, <2>2 DEF S!EndResponse, S!Reply, S!ForgetPairs
  <2>3. CASE ~S!EndResponse(r)
    BY <1>4, <2>1, <2>3 DEF S!DataSocketEnds, S!DataSocketFails, S!ForgetPairs
  <2> QED
    BY <2>2, <2>3
<1>5. ASSUME NEW k \in S!SocketIds, S!DataSocketClosed(r, k)
      PROVE  /\ UNCHANGED <<session, greeted, requested, early, kept>>
             /\ pairs' \subseteq pairs /\ notified' \ notified \subseteq pairs
             /\ external' \in [Requests -> Statuses]
             /\ \A q \in Requests : external'[q] = "idle" => external[q] = "idle"
  BY <1>5 DEF S!DataSocketClosed, S!ForgetPairs, S!controlVars
<1>6. CASE S!PairFailed(r)
  BY <1>6 DEF S!PairFailed, S!TeardownPairs, S!ForgetPairs, S!Reply, S!controlVars
<1>7. CASE S!ResponseHeaders(r) \/ S!ResponseCompletes(r)
  BY <1>7 DEF S!ResponseHeaders, S!ResponseCompletes, S!ForgetPairs, S!Reply, S!controlVars,
              S!pairVars
<1>8. CASE S!HttpExternalCloses(r)
  BY <1>8 DEF S!HttpExternalCloses, S!TeardownPairs, S!ForgetPairs, S!controlVars
<1>9. CASE \E failed \in BOOLEAN : S!WsExternalCloses(r, failed)
  BY <1>9 DEF S!WsExternalCloses, S!ForgetPairs, S!controlVars
<1> QED
  BY <1>1, <1>2, <1>3, <1>4, <1>5, <1>6, <1>7, <1>8, <1>9

LEMMA ServerStep ==
  ASSUME ServerInv, [S!Next]_serverVars
  PROVE  ServerInv' /\ Grows /\ notified' \ notified \subseteq pairs
<1>1. ASSUME NEW s \in Sessions, NEW P, S!OnHello(s, P)
      PROVE  ServerInv' /\ Grows /\ notified' \ notified \subseteq pairs
  BY <1>1, HelloServerInv
<1>2. CASE UNCHANGED serverVars
  BY <1>2 DEF serverVars, ServerInv, Grows
<1>3. CASE S!Destroy
  <2>1. S!DestroyTunnel({}) /\ ~closed
    BY <1>3 DEF S!Destroy
  <2> QED
    BY <2>1, DestroyServerInv
<1>4. ASSUME NEW r \in Requests, S!OpenPair(r)
      PROVE  ServerInv' /\ Grows /\ notified' \ notified \subseteq pairs
  BY <1>4, OpenServerInv
<1>5. ASSUME NEW s \in Sessions,
             S!AttachControlSession(s) \/ S!ControlSessionClose(s) \/ S!WindowExpires(s)
      PROVE  ServerInv' /\ Grows /\ notified' \ notified \subseteq pairs
  BY <1>5, ControlStepServerInv
<1> QED
  BY <1>1, <1>2, <1>3, <1>4, <1>5, RequestServerInv DEF S!Next

\* What the client has opened it does not forget, and a live link is an old one or comes of
\* an old one.
LEMMA DestroyedIsPhase ==
  \A l \in C!Links : link[l] \in C!Phases => C!Destroyed(l) \in C!Phases
BY DEF C!Destroyed, C!Phases

\* A step of the cluster, with the control channel as it is or as it will be.
ClusterInv ==
  /\ clientPairs \subseteq opened
  /\ opened \subseteq Requests
  /\ generation \in [Requests -> Nat]
  /\ link \in [C!Links -> C!Phases]

ConnectionInv ==
  /\ socket => attempt = None /\ ~retryTimer
  /\ attempt # None => ~retryTimer
  /\ established => socket /\ ~controlClosed
  /\ stage \in {"fetching", "running"}
  /\ stage = "fetching" => attempt = None /\ ~socket /\ ~retryTimer

LEMMA ClientParts == ClientInv <=> ClusterInv /\ ConnectionInv
BY DEF ClientInv, ClusterInv, ConnectionInv

LEMMA PairsClusterInv ==
  ASSUME ClusterInv,
         \/ \E P \in SUBSET Requests : C!OpenPairs(P)
         \/ \E P : C!ClosePairs(P)
         \/ \E keep, drop : C!ResumePairs(keep, drop)
         \/ C!CloseCluster
  PROVE  ClusterInv'
<1> USE DEF ClusterInv
<1>1. \A l \in C!Links : C!Destroyed(l) \in C!Phases
  BY DestroyedIsPhase
<1>2. "local" \in C!Phases
  BY DEF C!Phases
<1>3. ASSUME NEW P \in SUBSET Requests, C!OpenPairs(P) PROVE ClusterInv'
  BY <1>2, <1>3 DEF C!OpenPairs
<1>4. ASSUME NEW P, C!ClosePairs(P) PROVE ClusterInv'
  BY <1>1, <1>4 DEF C!ClosePairs, C!DestroyLinks
<1>5. ASSUME NEW keep, NEW drop, C!ResumePairs(keep, drop) PROVE ClusterInv'
  <2>1. generation' \in [Requests -> Nat]
    BY <1>5 DEF C!ResumePairs
  <2>2. link' \in [C!Links -> C!Phases]
    BY <1>1, <1>2, <1>5 DEF C!ResumePairs
  <2> QED
    BY <1>5, <2>1, <2>2 DEF C!ResumePairs
<1>6. CASE C!CloseCluster
  BY <1>1, <1>6 DEF C!CloseCluster, C!DestroyLinks
<1> QED
  BY <1>3, <1>4, <1>5, <1>6

\* The events of the sockets of a link.
LinkEvent(l) ==
  \/ C!LocalRefused(l) \/ C!LocalConnects(l) \/ C!LocalFails(l) \/ C!DataConnects(l)
  \/ C!DataFails(l) \/ C!LinkEnds(l) \/ C!BytesFlow(l[1]) \/ C!LocalClosed(l[1])
  \/ C!WindowMoves

\* They open nothing, and dial nothing but what is already there.
LEMMA LinkEventShrinks ==
  ASSUME ClusterInv, NEW l, LinkEvent(l)
  PROVE  /\ ClusterInv' /\ UNCHANGED <<opened, generation>> /\ clientPairs' \subseteq clientPairs
         /\ \A m \in C!Links : link'[m] \in {"local", "data", "halfdial"} =>
              link[m] \in {"local", "data", "halfdial"}
<1> USE DEF ClusterInv
<1> DEFINE Dialing == {"local", "data", "halfdial"}
<1>1. UNCHANGED <<opened, generation>> /\ clientPairs' \subseteq clientPairs
  BY DEF LinkEvent, C!LocalRefused, C!LocalConnects, C!LocalFails, C!DataConnects, C!DataFails,
         C!LinkEnds, C!BytesFlow, C!LocalClosed, C!WindowMoves
<1> DEFINE Fades == /\ link' \in [C!Links -> C!Phases]
                    /\ \A m \in C!Links : link'[m] \in Dialing => link[m] \in Dialing
<1>2. ASSUME NEW m, NEW phase \in C!Phases, C!Becomes(m, phase),
             phase \in Dialing => link[m] \in Dialing
      PROVE  Fades
  BY <1>2 DEF C!Becomes
<1>3. /\ "over" \in C!Phases \ Dialing /\ "closing" \in C!Phases \ Dialing
      /\ "failing" \in C!Phases \ Dialing /\ "half" \in C!Phases \ Dialing
      /\ "piped" \in C!Phases \ Dialing /\ "data" \in C!Phases /\ "halfdial" \in C!Phases
  BY DEF C!Phases
<1>4. Fades
  <2> HIDE DEF Fades
  <2>1. CASE C!BytesFlow(l[1]) \/ C!WindowMoves
    BY <2>1 DEF C!BytesFlow, C!WindowMoves, Fades
  <2>2. CASE C!LocalRefused(l)
    BY <1>2, <1>3, <2>2 DEF C!LocalRefused
  <2>3. CASE C!LocalConnects(l)
    BY <1>2, <1>3, <2>3 DEF C!LocalConnects
  <2>4. CASE C!LocalFails(l)
    <3>1. CASE link[l] = "local"
      BY <1>2, <1>3, <2>4, <3>1 DEF C!LocalFails
    <3>2. CASE link[l] = "data"
      <4>1. C!Becomes(l, "halfdial")
        BY <2>4, <3>2 DEF C!LocalFails
      <4> QED
        BY <1>2, <1>3, <3>2, <4>1
    <3>3. CASE link[l] = "piped"
      <4>1. C!Becomes(l, "failing") \/ C!Becomes(l, "half")
        BY <2>4, <3>3 DEF C!LocalFails
      <4> QED
        BY <1>2, <1>3, <4>1
    <3> QED
      BY <2>4, <3>1, <3>2, <3>3 DEF C!LocalFails
  <2>5. CASE C!DataConnects(l)
    <3>1. C!Becomes(l, "piped") \/ C!Becomes(l, "half")
      BY <2>5 DEF C!DataConnects
    <3> QED
      BY <1>2, <1>3, <3>1
  <2>6. CASE C!DataFails(l) \/ C!LinkEnds(l)
    <3>1. C!Becomes(l, "closing") \/ C!Becomes(l, "over")
      BY <2>6 DEF C!DataFails, C!LinkEnds
    <3> QED
      BY <1>2, <1>3, <3>1
  <2>7. CASE C!LocalClosed(l[1])
    BY <1>2, <1>3, <2>7 DEF C!LocalClosed
  <2> QED
    BY <2>1, <2>2, <2>3, <2>4, <2>5, <2>6, <2>7 DEF LinkEvent
<1> QED
  BY <1>1, <1>4

LEMMA ClientStep ==
  ASSUME ClientInv, [C!Next]_clientVars
  PROVE  ClientInv'
<1>1. ClusterInv /\ ConnectionInv
  BY ClientParts
<1> SUFFICES ClusterInv' /\ ConnectionInv'
  BY DEF ClientInv, ClusterInv, ConnectionInv
<1>2. CASE UNCHANGED clientVars
  BY <1>1, <1>2 DEF clientVars, ClusterInv, ConnectionInv
<1>3. CASE C!LifeStep
  <2>1. CASE C!Close /\ stage = "running"
    <3>1. C!CloseChannel /\ C!CloseCluster /\ stage' = stage
      BY <2>1 DEF C!Close
    <3> QED
      BY <1>1, <2>1, <3>1, PairsClusterInv DEF C!CloseChannel, ConnectionInv
  <2>2. CASE ~(C!Close /\ stage = "running")
    <3>1. UNCHANGED <<clientPairs, opened, generation, link>> /\ ConnectionInv'
      BY <1>1, <1>3, <2>2
         DEF C!LifeStep, C!FetchFails, C!FetchRejected, C!FetchSucceeds, C!Close, C!Exit, C!Drain,
             C!controlVars, C!clusterVars, ConnectionInv
    <3> QED
      BY <1>1, <3>1 DEF ClusterInv
  <2> QED
    BY <2>1, <2>2
<1>4. CASE C!ControlConnectFails \/ C!ControlPong \/ C!ControlHeartbeat \/ C!ControlReconnects
  <2>1. UNCHANGED <<clientPairs, opened, generation, link>>
    BY <1>4 DEF C!ControlConnectFails, C!ControlPong, C!ControlHeartbeat, C!ControlReconnects,
                C!clusterVars
  <2>2. ConnectionInv'
    BY <1>1, <1>4
       DEF C!ControlConnectFails, C!ControlPong, C!ControlHeartbeat, C!ControlReconnects,
           C!ConnectFails, C!ScheduleReconnect, C!PongArrives, C!Heartbeat, C!Reconnect,
           C!lifeVars, ConnectionInv
  <2> QED
    BY <1>1, <2>1, <2>2 DEF ClusterInv
<1>5. CASE C!ControlEnds \/ C!ControlTimesOut
  <2>1. C!EndSession /\ C!Disconnected
    BY <1>5 DEF C!ControlEnds, C!ControlTimesOut, C!HeartbeatTimesOut
  <2>2. (\E P : C!ClosePairs(P)) \/ UNCHANGED <<clientPairs, opened, generation, link>>
    BY <2>1 DEF C!Disconnected, C!ControlLost, C!clusterVars
  <2>3. ClusterInv'
    BY <1>1, <2>2, PairsClusterInv DEF ClusterInv
  <2>4. ConnectionInv'
    BY <1>1, <2>1 DEF C!EndSession, C!ScheduleReconnect, C!Disconnected, ConnectionInv
  <2> QED
    BY <2>3, <2>4
<1>6. ASSUME NEW P \in SUBSET (Requests \ opened), C!ControlConnects(P)
      PROVE  ClusterInv' /\ ConnectionInv'
  <2>1. C!OpenPairs(P) \/ UNCHANGED <<clientPairs, opened, generation, link>>
    BY <1>6 DEF C!ControlConnects, C!clusterVars
  <2>2. ClusterInv'
    BY <1>1, <2>1, PairsClusterInv DEF ClusterInv
  <2>3. ConnectionInv'
    BY <1>1, <1>6 DEF C!ControlConnects, C!ConnectSucceeds, ConnectionInv
  <2> QED
    BY <2>2, <2>3
<1>7. ASSUME NEW keep, C!HelloAck(keep)
      PROVE  ClusterInv' /\ ConnectionInv'
  <2>1. C!ResumePairs(keep, listed \ keep) \/ UNCHANGED <<clientPairs, opened, generation, link>>
    BY <1>7 DEF C!HelloAck, C!clusterVars
  <2>2. ClusterInv'
    BY <1>1, <2>1, PairsClusterInv DEF ClusterInv
  <2>3. ConnectionInv'
    BY <1>1, <1>7 DEF C!HelloAck, C!Acknowledge, ConnectionInv
  <2> QED
    BY <2>2, <2>3
<1>8. ASSUME NEW p \in Requests, C!PairOpen(p) \/ C!PairClose(p)
      PROVE  ClusterInv' /\ ConnectionInv'
  <2>1. C!OpenPairs({p}) \/ C!ClosePairs({p})
    BY <1>8 DEF C!PairOpen, C!PairClose
  <2>2. ConnectionInv'
    BY <1>1, <1>8 DEF C!PairOpen, C!PairClose, C!controlVars, C!lifeVars, ConnectionInv
  <2> QED
    BY <1>1, <2>1, <2>2, PairsClusterInv
<1>9. CASE C!LinkStep
  <2>1. \E l : LinkEvent(l)
    <3>1. \A p \in Requests : <<p, 0>>[1] = p
      OBVIOUS
    <3> QED
      BY <1>9, <3>1
         DEF C!LinkStep, C!PairLocalRefused, C!PairLocalConnects, C!PairLocalFails,
             C!PairDataConnects, C!PairDataFails, C!PairEnds, C!PairBytesFlow, C!PairLocalClosed,
             C!FailuresExpire, LinkEvent
  <2>2. UNCHANGED <<attempt, socket, established, controlClosed, retryTimer, stage>>
    BY <1>9
       DEF C!LinkStep, C!PairLocalRefused, C!PairLocalConnects, C!PairLocalFails,
           C!PairDataConnects, C!PairDataFails, C!PairEnds, C!PairBytesFlow, C!PairLocalClosed,
           C!FailuresExpire, C!SocketEvent, C!controlVars
  <2> QED
    BY <1>1, <2>1, <2>2, LinkEventShrinks DEF ConnectionInv
<1> QED
  BY <1>2, <1>3, <1>4, <1>5, <1>6, <1>7, <1>8, <1>9 DEF C!Next, C!ControlStep

-----------------------------------------------------------------------------
(* What joins them.                                                        *)

\* The first frame on its way to the client, and the first from it.
LEMMA HeadsKnown ==
  ASSUME NetworkInv, NEW s \in Sessions
  PROVE  /\ down[s] # <<>> => /\ Head(down[s]) = down[s][1] /\ Head(down[s]) \in Frames
                              /\ 1 \in 1..Len(down[s])
         /\ up[s] # <<>> => /\ Head(up[s]) = up[s][1] /\ Head(up[s]) \in Frames
                            /\ 1 \in 1..Len(up[s])
<1>1. ASSUME NEW q \in Seq(Frames), q # <<>>
      PROVE  Head(q) = q[1] /\ Head(q) \in Frames /\ 1 \in 1..Len(q)
  <2>1. Len(q) \in Nat \ {0}
    BY <1>1, EmptySeq
  <2>2. Head(q) \in Frames /\ Head(q) = q[1]
    BY <1>1, HeadTailProperties DEF Head
  <2> QED
    BY <2>1, <2>2
<1> QED
  BY <1>1 DEF NetworkInv

\* The client's end takes steps of its module.
LEMMA ClientTakesSteps ==
  ASSUME Inv,
         \/ ClientAlone \/ ClientReads \/ LinkMoves
         \/ \E n \in 0..Cardinality(Requests) : ClientConnects(n)
         \/ \E l \in C!Links : LinkFails(l) \/ LinkDials(l)
  PROVE  [C!Next]_clientVars
<1>1. CASE ClientAlone
  BY <1>1 DEF ClientAlone, C!Next, C!LifeStep, C!ControlStep
<1>2. CASE ClientReads
  <2>1. channel # None /\ channel \in Sessions /\ ~controlClosed
    BY <1>2 DEF ClientReads, C!FramesRead, Inv, NetworkInv
  <2>2. PICK frame \in Frames : frame = Head(down[channel]) /\ frame = down[channel][1]
    BY <1>2, <2>1, HeadsKnown DEF ClientReads, Inv
  <2>3. CASE frame.type = "pair.open" \/ frame.type = "pair.close"
    <3>1. frame.pair \in Requests
      BY <2>3, FramesRead
    <3>2. C!PairOpen(frame.pair) \/ C!PairClose(frame.pair) \/ UNCHANGED clientVars
      BY <1>2, <2>2, <2>3 DEF ClientReads
    <3> QED
      BY <3>1, <3>2 DEF C!Next, C!ControlStep
  <2>4. CASE frame.type = "hello.ack"
    <3>1. frame.keep \subseteq listed
      <4>1. 1 \in 1..Len(down[channel]) /\ AckInv(down[channel])
        BY <1>2, <2>1, HeadsKnown DEF ClientReads, Inv, DownInv
      <4> QED
        BY <2>1, <2>2, <2>4, <4>1 DEF AckInv
    <3>2. C!HelloAck(frame.keep)
      BY <1>2, <2>2, <2>4 DEF ClientReads
    <3> QED
      BY <3>1, <3>2 DEF C!Next, C!ControlStep
  <2> QED
    BY <1>2, <2>2, <2>3, <2>4 DEF ClientReads
<1>3. CASE LinkMoves
  BY <1>3 DEF LinkMoves, C!Next, C!LinkStep
<1>4. ASSUME NEW n \in 0..Cardinality(Requests), ClientConnects(n)
      PROVE  [C!Next]_clientVars
  <2>1. channel # None /\ channel \in Sessions /\ n <= Len(down[channel])
        /\ (\A i \in 1..n : down[channel][i].type = "pair.open")
        /\ C!ControlConnects({down[channel][i].pair : i \in 1..n})
    BY <1>4 DEF ClientConnects, Inv, NetworkInv
  <2>2. ASSUME NEW i \in 1..n
        PROVE  down[channel][i].pair \in Requests \ opened
    <3>1. i \in 1..Len(down[channel])
      <4>1. Len(down[channel]) \in Nat /\ n \in Int
        BY <2>1, LenProperties DEF Inv, NetworkInv
      <4> QED
        BY <2>1, <4>1
    <3>2. OpenInv(down[channel])
      BY <2>1 DEF Inv, DownInv
    <3> QED
      BY <2>1, <3>1, <3>2 DEF OpenInv, Inv, ServerInv
  <2>3. {down[channel][i].pair : i \in 1..n} \in SUBSET (Requests \ opened)
    BY <2>2
  <2> QED
    BY <2>1, <2>3 DEF C!Next, C!ControlStep
<1>5. ASSUME NEW l \in C!Links, LinkFails(l) \/ LinkDials(l)
      PROVE  [C!Next]_clientVars
  BY <1>5 DEF LinkFails, LinkDials, C!Next, C!LinkStep
<1> QED
  BY <1>1, <1>2, <1>3, <1>4, <1>5

\* The server's end takes steps of its module.
LEMMA ServerTakesSteps ==
  ASSUME Inv,
         \/ \E s \in Sessions : Upgrade(s) \/ ServerReads(s)
         \/ ServerTells \/ SessionsEnd \/ ServerAlone
         \/ \E l \in C!Links : Arrives(l) \/ EndArrives(l)
  PROVE  [S!Next]_serverVars
<1>1. ASSUME NEW s \in Sessions, Upgrade(s)
      PROVE  [S!Next]_serverVars
  BY <1>1 DEF Upgrade, S!Next
<1>2. ASSUME NEW s \in Sessions, ServerReads(s)
      PROVE  [S!Next]_serverVars
  <2>1. PICK frame \in Frames : frame = Head(up[s]) /\ frame = up[s][1] /\ 1 \in 1..Len(up[s])
    BY <1>2, HeadsKnown DEF ServerReads, Inv
  <2>2. CASE frame.type = "hello"
    <3>1. frame.inflightPairs \in SUBSET S!Listable
      BY <2>1, <2>2 DEF Inv, HelloInv, HelloAt
    <3>2. S!OnHello(s, frame.inflightPairs)
      BY <1>2, <2>1, <2>2 DEF ServerReads
    <3> QED
      BY <3>1, <3>2 DEF S!Next
  <2>3. CASE frame.type = "pair.failed"
    <3>1. frame.pair \in Requests
      BY <2>3, FramesRead
    <3>2. S!PairFailed(frame.pair) \/ UNCHANGED serverVars
      BY <1>2, <2>1, <2>3 DEF ServerReads
    <3> QED
      BY <3>1, <3>2 DEF S!Next
  <2> QED
    BY <1>2, <2>1, <2>2, <2>3 DEF ServerReads
<1>3. CASE ServerTells
  BY <1>3 DEF ServerTells, S!Next
<1>4. CASE SessionsEnd
  BY <1>4 DEF SessionsEnd, S!Next
<1>5. CASE ServerAlone
  BY <1>5 DEF ServerAlone, S!Next
<1>6. ASSUME NEW l \in C!Links, Arrives(l) \/ EndArrives(l)
      PROVE  [S!Next]_serverVars
  <2>1. l[1] \in Requests /\ l[2] \in S!SocketIds
    BY DEF C!Links, S!SocketIds
  <2> QED
    BY <1>6, <2>1 DEF Arrives, EndArrives, S!Next
<1> QED
  BY <1>1, <1>2, <1>3, <1>4, <1>5, <1>6

LEMMA StepsOfEnds ==
  ASSUME Inv, [Next]_vars
  PROVE  /\ [S!Next]_serverVars /\ [C!Next]_clientVars
         /\ ServerInv' /\ ClientInv' /\ Grows /\ notified' \ notified \subseteq pairs
<1>1. [S!Next]_serverVars /\ [C!Next]_clientVars
  <2>1. CASE UNCHANGED vars
    BY <2>1 DEF vars
  <2>2. CASE \/ ClientAlone \/ ClientReads \/ LinkMoves
             \/ \E n \in 0..Cardinality(Requests) : ClientConnects(n)
             \/ \E l \in C!Links : LinkFails(l) \/ LinkDials(l)
    <3>1. UNCHANGED serverVars
      BY <2>2 DEF ClientAlone, ClientReads, LinkMoves, ClientConnects, LinkFails, LinkDials, Unheard
    <3> QED
      BY <2>2, <3>1, ClientTakesSteps
  <2>3. CASE \/ \E s \in Sessions : Upgrade(s) \/ ServerReads(s)
             \/ ServerTells \/ SessionsEnd \/ ServerAlone
             \/ \E l \in C!Links : Arrives(l) \/ EndArrives(l)
    <3>1. UNCHANGED clientVars
      BY <2>3 DEF Upgrade, ServerReads, ServerTells, SessionsEnd, ServerAlone, Arrives, EndArrives
    <3> QED
      BY <2>3, <3>1, ServerTakesSteps
  <2>4. CASE \E l \in C!Links : ArrivalLost(l)
    BY <2>4 DEF ArrivalLost
  <2> QED
    BY <2>1, <2>2, <2>3, <2>4 DEF Next
<1> QED
  BY <1>1, ServerStep, ClientStep DEF Inv

-----------------------------------------------------------------------------
(* The network.                                                            *)

LEMMA NoSession == None \notin Sessions
BY TunnelAssumption DEF Sessions

\* What the client does to its connection: it keeps it, with the frames of d, or leaves it.
LEMMA ReadingKeeps ==
  ASSUME NetworkInv, NEW d \in [Sessions -> Seq(Frames)], Reading(d),
         \A s \in Sessions : s # channel => d[s] = <<>>
  PROVE  /\ channel' \in {channel, None}
         /\ channel' # None =>
              ~exited' /\ (socket' \/ attempt' # None) /\ down'[channel'] = d[channel']
         /\ channel' = None => exited' \/ (~socket' /\ attempt' = None) \/ channel = None
         /\ down' \in [Sessions -> Seq(Frames)]
         /\ \A s \in Sessions : s # channel' => down'[s] = <<>>
<1>1. <<>> \in Seq(Frames)
  BY EmptySeq
<1> QED
  BY <1>1, NoSession DEF Reading, NetworkInv

\* What a step of the client does that does not connect, and one that does not read a hello.ack
\* either.
Steady ==
  /\ exited => exited'
  /\ socket' => socket
  /\ channel' # None => channel' = channel /\ attempt' = attempt

Calm ==
  /\ Steady
  /\ channel' # None =>
       /\ (established' <=> established)
       /\ controlClosed => controlClosed'
       /\ controlClosed' \/ listed' = listed

LEMMA SocketEventCalm ==
  ASSUME C!SocketEvent, channel' \in {channel, None}
  PROVE  Calm
BY DEF C!SocketEvent, C!controlVars, Calm, Steady

LEMMA ClientAloneCalm ==
  ASSUME Inv, ClientAlone
  PROVE  Calm /\ UNCHANGED opened
<1>1. /\ channel' \in {channel, None}
      /\ channel' # None => ~exited' /\ (socket' \/ attempt' # None)
  BY ReadingKeeps DEF ClientAlone, Inv, NetworkInv
<1>2. ConnectionInv /\ (channel # None => socket \/ attempt # None)
  BY ClientParts DEF Inv, NetworkInv
<1>3. CASE C!FetchSucceeds
  BY <1>1, <1>2, <1>3 DEF C!FetchSucceeds, C!clusterVars, ConnectionInv, Calm, Steady
<1>4. CASE C!Close
  <2>1. CASE stage = "running"
    BY <1>1, <1>2, <1>4, <2>1
       DEF C!Close, C!CloseChannel, C!CloseCluster, ConnectionInv, Calm, Steady
  <2>2. CASE stage # "running"
    <3>1. UNCHANGED <<exited, socket, attempt, established, controlClosed, opened>> /\ ~exited
      BY <1>4, <2>2 DEF C!Close, C!controlVars, C!clusterVars
    <3>2. channel = None
      BY <1>2, <2>2 DEF ConnectionInv
    <3> QED
      BY <1>1, <3>1, <3>2 DEF Calm, Steady
  <2> QED
    BY <2>1, <2>2
<1>5. CASE C!Exit
  BY <1>1, <1>5 DEF C!Exit, C!controlVars, C!clusterVars, Calm, Steady
<1>6. CASE C!ControlConnectFails
  BY <1>1, <1>2, <1>6
     DEF C!ControlConnectFails, C!ConnectFails, C!lifeVars, C!clusterVars,
         ConnectionInv, Calm, Steady
<1>7. CASE C!ControlEnds
  <2>1. C!EndSession /\ C!Disconnected
    BY <1>7 DEF C!ControlEnds
  <2>2. socket /\ attempt' = None /\ ~socket' /\ exited' = exited /\ opened' = opened
    BY <1>2, <2>1
       DEF C!EndSession, C!Disconnected, C!ControlLost, C!ClosePairs, C!clusterVars, ConnectionInv
  <2> QED
    BY <1>1, <2>2 DEF Calm, Steady
<1>8. CASE C!ControlReconnects
  BY <1>1, <1>2, <1>8
     DEF C!ControlReconnects, C!Reconnect, C!lifeVars, C!clusterVars, ConnectionInv, Calm, Steady
<1> QED
  BY <1>3, <1>4, <1>5, <1>6, <1>7, <1>8 DEF ClientAlone

\* What the server sends goes to the connection in use, behind what is on its way.
LEMMA SendKeeps ==
  ASSUME NetworkInv, channel' = channel, NEW s, NEW frames \in Seq(Frames), SendDown(s, frames)
  PROVE  /\ down' \in [Sessions -> Seq(Frames)]
         /\ \A t \in Sessions : t # channel => down'[t] = down[t]
         /\ channel # None =>
              down'[channel] = IF s = channel THEN down[channel] \o frames ELSE down[channel]
<1>1. CASE s = channel /\ s # None
  <2>1. s \in Sessions /\ down[s] \o frames \in Seq(Frames)
    BY <1>1, ConcatProperties DEF NetworkInv
  <2> QED
    BY <1>1, <2>1 DEF SendDown, NetworkInv
<1>2. CASE ~(s = channel /\ s # None)
  BY <1>2 DEF SendDown, NetworkInv
<1> QED
  BY <1>1, <1>2

\* What is left when the first frame is read.
LEMMA TailKnown ==
  ASSUME NEW q \in Seq(Frames), q # <<>>
  PROVE  /\ Tail(q) \in Seq(Frames) /\ Len(q) \in Nat /\ Len(Tail(q)) = Len(q) - 1
         /\ \A i \in 1..Len(Tail(q)) : Tail(q)[i] = q[i + 1] /\ i + 1 \in 1..Len(q)
<1>1. /\ Tail(q) \in Seq(Frames) /\ Len(Tail(q)) = Len(q) - 1 /\ Len(q) \in Nat
      /\ \A i \in 1..Len(Tail(q)) : Tail(q)[i] = q[i + 1]
  BY HeadTailProperties, LenProperties
<1> QED
  BY <1>1

\* What the client reports of a pair goes to the server behind what it has said before.
Reported ==
  \/ up' = up
  \/ /\ socket
     /\ channel \in Sessions /\ session[channel] # "new"
     /\ \E f \in Frames :
          f.type = "pair.failed" /\ up' = [up EXCEPT ![channel] = Append(@, f)]

LEMMA SaidOn ==
  ASSUME NetworkInv, channel \in Sessions, NEW f \in Frames,
         up' = [up EXCEPT ![channel] = Append(@, f)]
  PROVE  /\ up' \in [Sessions -> Seq(Frames)]
         /\ \A s \in Sessions : s # channel => up'[s] = up[s]
         /\ Len(up[channel]) \in Nat /\ Len(up'[channel]) = Len(up[channel]) + 1
         /\ \A i \in 1..Len(up[channel]) : up'[channel][i] = up[channel][i]
         /\ up'[channel][Len(up[channel]) + 1] = f
<1>1. up[channel] \in Seq(Frames) /\ up \in [Sessions -> Seq(Frames)]
  BY DEF NetworkInv
<1>2. Append(up[channel], f) \in Seq(Frames)
  BY <1>1, AppendProperties
<1>3. up'[channel] = Append(up[channel], f)
  BY <1>1
<1>4. up' \in [Sessions -> Seq(Frames)] /\ \A s \in Sessions : s # channel => up'[s] = up[s]
  BY <1>1, <1>2
<1> QED
  BY <1>1, <1>3, <1>4, AppendProperties, LenProperties

LEMMA LinkFailsReports ==
  ASSUME Inv, NEW l \in C!Links, LinkFails(l)
  PROVE  Reported
<1>1. /\ ~exited
      /\ up' = up \/ (/\ established /\ session[channel] = "open"
                      /\ up' = [up EXCEPT ![channel] = Append(@, PairFailed(l[1]))])
  BY DEF LinkFails, ReportFailure, C!PairLocalRefused, C!PairLocalFails, C!PairDataFails,
         C!SocketEvent
<1>2. established => socket /\ channel \in Sessions
  BY <1>1 DEF Inv, ClientInv, NetworkInv
<1>3. PairFailed(l[1]) \in Frames /\ PairFailed(l[1]).type = "pair.failed"
  BY FramesMade DEF C!Links
<1> QED
  BY <1>1, <1>2, <1>3 DEF Reported

\* No hello is said by that.
SameHellos(s) ==
  \A i \in 1..Len(up'[s]) : up'[s][i].type = "hello" =>
    i \in 1..Len(up[s]) /\ up'[s][i] = up[s][i]

LEMMA ReportedUp ==
  ASSUME Inv, Reported
  PROVE  /\ up' \in [Sessions -> Seq(Frames)]
         /\ \A s \in Sessions : session[s] = "new" => up'[s] = <<>>
         /\ channel # None /\ attempt # None => up'[channel] = <<>>
         /\ \A s \in Sessions : SameHellos(s)
<1>1. CASE up' = up
  BY <1>1 DEF Inv, NetworkInv, SameHellos
<1>2. ASSUME up' # up
      PROVE  /\ up' \in [Sessions -> Seq(Frames)]
             /\ \A s \in Sessions : session[s] = "new" => up'[s] = <<>>
             /\ channel # None /\ attempt # None => up'[channel] = <<>>
             /\ \A s \in Sessions : SameHellos(s)
  <2>1. /\ socket /\ channel \in Sessions /\ session[channel] # "new"
        /\ \E f \in Frames :
             f.type = "pair.failed" /\ up' = [up EXCEPT ![channel] = Append(@, f)]
    BY <1>2 DEF Reported
  <2>2. PICK f \in Frames :
          f.type = "pair.failed" /\ up' = [up EXCEPT ![channel] = Append(@, f)]
    BY <2>1
  <2>3. /\ up' \in [Sessions -> Seq(Frames)]
        /\ \A s \in Sessions : s # channel => up'[s] = up[s]
        /\ Len(up[channel]) \in Nat /\ Len(up'[channel]) = Len(up[channel]) + 1
        /\ \A i \in 1..Len(up[channel]) : up'[channel][i] = up[channel][i]
        /\ up'[channel][Len(up[channel]) + 1] = f
    BY <2>1, <2>2, SaidOn DEF Inv
  <2>4. attempt = None
    BY <2>1 DEF Inv, ClientInv
  <2>5. \A s \in Sessions : session[s] = "new" => up'[s] = <<>>
    BY <2>1, <2>3 DEF Inv, NetworkInv
  <2>6. \A s \in Sessions : s # channel => SameHellos(s)
    BY <2>3 DEF SameHellos
  <2>7. SameHellos(channel)
    <3> SUFFICES ASSUME NEW i \in 1..Len(up'[channel]), up'[channel][i].type = "hello"
                 PROVE  i \in 1..Len(up[channel]) /\ up'[channel][i] = up[channel][i]
      BY DEF SameHellos
    <3>1. i # Len(up[channel]) + 1
      BY <2>2, <2>3
    <3>2. i \in 1..Len(up[channel])
      BY <2>3, <3>1
    <3> QED
      BY <2>3, <3>2
  <2> QED
    BY <2>3, <2>4, <2>5, <2>6, <2>7
<1> QED
  BY <1>1, <1>2

LEMMA ClientNetwork ==
  ASSUME Inv, [Next]_vars, Steady, UNCHANGED serverVars, Reported,
         NEW d \in [Sessions -> Seq(Frames)], Reading(d),
         \A s \in Sessions : s # channel => d[s] = <<>>
  PROVE  NetworkInv' /\ (channel' # None => channel' = channel /\ down'[channel] = d[channel])
<1>1. /\ channel' \in {channel, None}
      /\ channel' # None =>
           ~exited' /\ (socket' \/ attempt' # None) /\ down'[channel'] = d[channel']
      /\ channel' = None => exited' \/ (~socket' /\ attempt' = None) \/ channel = None
      /\ down' \in [Sessions -> Seq(Frames)]
      /\ \A s \in Sessions : s # channel' => down'[s] = <<>>
  BY ReadingKeeps DEF Inv
<1>2. greeted' = greeted /\ session' = session
  BY DEF serverVars
<1>3. /\ up' \in [Sessions -> Seq(Frames)]
      /\ \A s \in Sessions : session'[s] = "new" => up'[s] = <<>>
      /\ channel' # None /\ attempt' # None => channel' \notin greeted' /\ up'[channel'] = <<>>
  BY <1>2, ReportedUp DEF Steady, Inv, NetworkInv
<1>4. /\ channel' \in Sessions \cup {None}
      /\ channel' # None => session'[channel'] # "new"
      /\ socket' /\ ~exited' => channel' # None
  BY <1>1, <1>2 DEF Steady, Inv, NetworkInv
<1> QED
  BY <1>1, <1>3, <1>4 DEF NetworkInv

\* A step of the server that leaves the connection alone.
LEMMA ServerNetwork ==
  ASSUME Inv, [Next]_vars, UNCHANGED <<clientVars, channel>>,
         down' \in [Sessions -> Seq(Frames)], \A s \in Sessions : s # channel => down'[s] = down[s],
         up' \in [Sessions -> Seq(Frames)], \A s \in Sessions : up[s] = <<>> => up'[s] = <<>>,
         channel # None /\ attempt # None => channel \notin greeted'
  PROVE  NetworkInv'
<1>1. UNCHANGED <<exited, socket, attempt>>
  BY DEF clientVars
<1>2. \A s \in Sessions : session'[s] = "new" => session[s] = "new"
  BY StepsOfEnds DEF Grows
<1> QED
  BY <1>1, <1>2 DEF Inv, NetworkInv

\* The client has sent a hello in the same step.
LEMMA ClientConnectsNetwork ==
  ASSUME Inv, [Next]_vars, NEW n \in Nat, ClientConnects(n)
  PROVE  /\ NetworkInv' /\ channel # None /\ attempt # None /\ channel \in Sessions
         /\ channel' \in {channel, None}
         /\ n <= Len(down[channel]) /\ Len(down[channel]) \in Nat
         /\ channel' # None =>
              /\ Len(down'[channel]) = Len(down[channel]) - n
              /\ \A i \in 1..Len(down'[channel]) : down'[channel][i] = down[channel][i + n]
         /\ \A s \in Sessions : s # channel => up'[s] = up[s]
         /\ up' = up \/ (/\ ~controlClosed /\ listed' \subseteq Requests
                         /\ Len(up'[channel]) = 1 /\ up'[channel][1] = Hello(listed'))
<1> DEFINE q == down[channel]
           d == [down EXCEPT ![channel] = SubSeq(@, n + 1, Len(@))]
<1>1. /\ channel \in Sessions /\ channel # None /\ attempt # None /\ n <= Len(q)
      /\ q \in Seq(Frames) /\ Len(q) \in Nat /\ session[channel] # "new"
  BY NoSession, LenProperties
     DEF ClientConnects, C!ControlConnects, C!ConnectSucceeds, Inv, NetworkInv
<1>2. /\ SubSeq(q, n + 1, Len(q)) \in Seq(Frames) /\ Len(SubSeq(q, n + 1, Len(q))) = Len(q) - n
      /\ \A i \in 1..(Len(q) - n) : SubSeq(q, n + 1, Len(q))[i] = q[i + n]
  <2>1. \A i \in (n + 1)..Len(q) : q[i] \in Frames
    BY <1>1, ElementOfSeq
  <2>2. /\ SubSeq(q, n + 1, Len(q)) \in Seq(Frames)
        /\ Len(SubSeq(q, n + 1, Len(q))) = IF n + 1 <= Len(q) THEN Len(q) - (n + 1) + 1 ELSE 0
        /\ \A i \in 1..(Len(q) - (n + 1) + 1) : SubSeq(q, n + 1, Len(q))[i] = q[(n + 1) + i - 1]
    <3>1. n + 1 \in Int /\ Len(q) \in Int
      BY <1>1
    <3> HIDE DEF q
    <3> QED
      BY <2>1, <3>1, SubSeqProperties
  <2> HIDE DEF q
  <2> QED
    BY <1>1, <2>2
<1>3. d \in [Sessions -> Seq(Frames)] /\ d[channel] = SubSeq(q, n + 1, Len(q))
      /\ \A s \in Sessions : s # channel => d[s] = <<>>
  BY <1>1, <1>2 DEF Inv, NetworkInv
<1>4. Reading(d)
  BY DEF ClientConnects
<1>5. /\ channel' \in {channel, None}
      /\ channel' # None =>
           ~exited' /\ (socket' \/ attempt' # None) /\ down'[channel'] = d[channel']
      /\ channel' = None => exited' \/ (~socket' /\ attempt' = None) \/ channel = None
      /\ down' \in [Sessions -> Seq(Frames)]
      /\ \A s \in Sessions : s # channel' => down'[s] = <<>>
  <2> HIDE DEF d
  <2> QED
    BY <1>3, <1>4, ReadingKeeps DEF Inv
<1>6. socket' /\ attempt' = None /\ UNCHANGED <<session, greeted>>
  BY DEF ClientConnects, C!ControlConnects, C!ConnectSucceeds, serverVars
<1>9. channel' # None =>
        /\ Len(down'[channel]) = Len(q) - n
        /\ \A i \in 1..Len(down'[channel]) : down'[channel][i] = q[i + n]
  <2>1. channel' # None => down'[channel] = SubSeq(q, n + 1, Len(q))
    BY <1>3, <1>5
  <2> HIDE DEF d, q
  <2> QED
    BY <1>2, <2>1
<1>7. CASE up' = up
  <2>1. NetworkInv'
    BY <1>1, <1>5, <1>6, <1>7 DEF Inv, NetworkInv
  <2> HIDE DEF d, q
  <2> QED
    BY <1>1, <1>5, <1>7, <1>9, <2>1 DEF q
<1>8. CASE up' # up
  <2>1. ~controlClosed /\ up' = [up EXCEPT ![channel] = Append(@, Hello(listed'))]
    BY <1>8 DEF ClientConnects
  <2>2. listed' \subseteq Requests
    <3>1. [C!Next]_clientVars /\ ClientInv'
      BY StepsOfEnds
    <3>2. listed' = clientPairs'
      BY <2>1 DEF ClientConnects, C!ControlConnects
    <3> QED
      BY <3>1, <3>2 DEF ClientInv
  <2>3. /\ up' \in [Sessions -> Seq(Frames)]
        /\ \A s \in Sessions : s # channel => up'[s] = up[s]
        /\ Len(up[channel]) \in Nat /\ Len(up'[channel]) = Len(up[channel]) + 1
        /\ up'[channel][Len(up[channel]) + 1] = Hello(listed')
    <3>1. PICK f : f = Hello(listed') /\ f \in Frames
      BY <2>2, FramesMade
    <3> QED
      BY <1>1, <2>1, <3>1, SaidOn DEF Inv
  <2>4. Len(up[channel]) = 0
    BY <1>1 DEF Inv, NetworkInv
  <2>5. NetworkInv'
    BY <1>1, <1>5, <1>6, <2>3 DEF Inv, NetworkInv
  <2> HIDE DEF d, q
  <2> QED
    BY <1>1, <1>5, <1>9, <2>1, <2>2, <2>3, <2>4, <2>5 DEF q
<1> QED
  BY <1>7, <1>8

-----------------------------------------------------------------------------
(* The frames on their way.                                                *)

\* A session on which no hello is said, and nobody learns that one was.
LEMMA HelloKept ==
  ASSUME Inv, Grows, NEW s \in Sessions, SameHellos(s),
         s = channel' =>
           /\ s = channel /\ (s \in greeted' => s \in greeted) /\ (established' => established)
           /\ controlClosed => controlClosed'
           /\ controlClosed' \/ listed' = listed
  PROVE  HelloAt(s)'
<1> SUFFICES ASSUME NEW i \in 1..Len(up'[s]), up'[s][i].type = "hello"
             PROVE  /\ i = 1
                    /\ up'[s][i].inflightPairs \subseteq S!Listable'
                    /\ s = channel' =>
                         /\ s \notin greeted' /\ ~established'
                         /\ controlClosed' \/ up'[s][i].inflightPairs = listed'
  BY DEF HelloAt
<1>1. i \in 1..Len(up[s]) /\ up'[s][i] = up[s][i]
  BY DEF SameHellos
<1>2. /\ i = 1 /\ up'[s][i].inflightPairs \subseteq S!Listable
      /\ s = channel =>
           s \notin greeted /\ ~established /\ (controlClosed \/ up'[s][i].inflightPairs = listed)
  BY <1>1 DEF Inv, HelloInv, HelloAt
<1>3. S!Listable \subseteq S!Listable'
  BY DEF Grows, S!Listable
<1> QED
  BY <1>2, <1>3

\* No hello is said when the first frame of a session is read, or all are dropped.
LEMMA ReadHasNoHello ==
  ASSUME Inv, NEW s \in Sessions, up[s] # <<>>, up'[s] = Tail(up[s])
  PROVE  SameHellos(s) /\ \A i \in 1..Len(up'[s]) : up'[s][i].type # "hello"
<1>1. up[s] \in Seq(Frames)
  BY DEF Inv, NetworkInv
<1>2. \A i \in 1..Len(up'[s]) : up'[s][i] = up[s][i + 1] /\ i + 1 \in 1..Len(up[s]) /\ i + 1 # 1
  <2>1. Len(up[s]) \in Nat /\ Len(up'[s]) = Len(up[s]) - 1
    BY <1>1, TailKnown
  <2> QED
    BY <1>1, <2>1, TailKnown
<1> QED
  BY <1>2 DEF Inv, HelloInv, HelloAt, SameHellos

\* What is on its way to the client later: the first n frames were read, none of them a
\* hello.ack, and pair.close frames were sent.
AcksLater(q, q2, n) ==
  /\ Len(q) \in Nat /\ Len(q2) \in Nat /\ n \in Nat
  /\ \A i \in 1..Len(q2) : q2[i].type = "hello.ack" => i + n \in 1..Len(q) /\ q2[i] = q[i + n]
  /\ \A i \in 1..Len(q) : q[i].type = "hello.ack" =>
       i > n /\ i - n \in 1..Len(q2) /\ q2[i - n] = q[i]

OpensLater(q, q2, n) ==
  /\ Len(q) \in Nat /\ Len(q2) \in Nat /\ n \in Nat
  /\ \A i \in 1..Len(q2) : q2[i].type = "pair.open" => i + n \in 1..Len(q) /\ q2[i] = q[i + n]

Later(q, q2, n) == AcksLater(q, q2, n) /\ OpensLater(q, q2, n)

\* Such a step neither makes nor breaks an acquaintance.
LEMMA AckKept ==
  ASSUME NEW q, NEW q2, NEW n, AcksLater(q, q2, n), AckInv(q), Grows, channel' = channel,
         established' <=> established, channel \in greeted' => channel \in greeted,
         channel \in greeted =>
           (controlClosed => controlClosed') /\ (controlClosed' \/ listed' = listed)
  PROVE  AckInv(q2)'
<1>1. ASSUME NEW i \in 1..Len(q2), q2[i].type = "hello.ack"
      PROVE  /\ channel' \in greeted' /\ ~established'
             /\ controlClosed' \/ q2[i].keep \cup q2[i].drop = listed'
             /\ q2[i].keep \cap WsRequests \subseteq kept'
             /\ \A j \in 1..Len(q2) : q2[j].type = "hello.ack" => j = i
  <2>1. i + n \in 1..Len(q) /\ q2[i] = q[i + n]
    BY <1>1 DEF AcksLater
  <2>2. /\ channel \in greeted /\ ~established
        /\ controlClosed \/ q2[i].keep \cup q2[i].drop = listed
        /\ q2[i].keep \cap WsRequests \subseteq kept
        /\ \A j \in 1..Len(q) : q[j].type = "hello.ack" => j = i + n
    BY <1>1, <2>1 DEF AckInv
  <2>3. ASSUME NEW j \in 1..Len(q2), q2[j].type = "hello.ack" PROVE j = i
    <3>1. j + n \in 1..Len(q) /\ q2[j] = q[j + n]
      BY <2>3 DEF AcksLater
    <3>2. j + n = i + n
      BY <2>2, <2>3, <3>1
    <3> QED
      BY <3>2 DEF AcksLater
  <2> QED
    BY <2>2, <2>3 DEF Grows
<1>2. ASSUME channel' \in greeted', ~established'
      PROVE  \E i \in 1..Len(q2) : q2[i].type = "hello.ack"
  <2>1. PICK i \in 1..Len(q) : q[i].type = "hello.ack"
    BY <1>2 DEF AckInv
  <2> QED
    BY <2>1 DEF AcksLater
<1> QED
  BY <1>1, <1>2 DEF AckInv

\* The pairs on their way stay ones that the client has never opened, while it has opened only
\* what it has read.
LEMMA OpenKept ==
  ASSUME NEW q, NEW q2, NEW n, OpensLater(q, q2, n), OpenInv(q), Grows,
         established' \/ (/\ ~established
                          /\ \A i \in 1..Len(q) : q[i].type = "hello.ack" =>
                               i > n /\ i - n \in 1..Len(q2) /\ q2[i - n].type = "hello.ack"),
         \A p \in opened' \ opened :
           \E i \in 1..n : i \in 1..Len(q) /\ q[i].type = "pair.open" /\ q[i].pair = p
  PROVE  OpenInv(q2)'
<1> SUFFICES ASSUME NEW i \in 1..Len(q2), q2[i].type = "pair.open"
             PROVE  /\ q2[i].pair \in requested' \ opened'
                    /\ \A j \in 1..Len(q2) :
                         q2[j].type = "pair.open" /\ q2[j].pair = q2[i].pair => j = i
                    /\ ~established' /\ (\A j \in 1..(i - 1) : q2[j].type # "hello.ack") =>
                         q2[i].pair \in early'
  BY DEF OpenInv
<1> USE DEF OpensLater
<1>1. i + n \in 1..Len(q) /\ q2[i] = q[i + n]
  OBVIOUS
<1>2. /\ q2[i].pair \in requested \ opened
      /\ \A j \in 1..Len(q) : q[j].type = "pair.open" /\ q[j].pair = q2[i].pair => j = i + n
      /\ ~established /\ (\A j \in 1..((i + n) - 1) : q[j].type # "hello.ack") =>
           q2[i].pair \in early
  BY <1>1 DEF OpenInv
<1>3. q2[i].pair \in requested' \ opened'
  <2>1. ASSUME q2[i].pair \in opened' PROVE FALSE
    <3>1. PICK j \in 1..n : j \in 1..Len(q) /\ q[j].type = "pair.open" /\ q[j].pair = q2[i].pair
      BY <1>2, <2>1
    <3>2. j = i + n
      BY <1>2, <3>1
    <3> QED
      BY <3>2
  <2> QED
    BY <1>2, <2>1 DEF Grows
<1>4. ASSUME NEW j \in 1..Len(q2), q2[j].type = "pair.open", q2[j].pair = q2[i].pair
      PROVE  j = i
  <2>1. j + n \in 1..Len(q) /\ q2[j] = q[j + n]
    BY <1>4
  <2>2. j + n = i + n
    BY <1>2, <1>4, <2>1
  <2> QED
    BY <2>2
<1>5. ASSUME ~established', \A j \in 1..(i - 1) : q2[j].type # "hello.ack"
      PROVE  q2[i].pair \in early'
  <2>1. ASSUME NEW j \in 1..((i + n) - 1), q[j].type = "hello.ack" PROVE FALSE
    <3>1. j \in 1..Len(q)
      BY <1>1
    <3>2. j > n /\ j - n \in 1..Len(q2) /\ q2[j - n].type = "hello.ack"
      BY <1>5, <2>1, <3>1
    <3>3. j - n \in 1..(i - 1)
      BY <3>2
    <3> QED
      BY <1>5, <3>2, <3>3
  <2> QED
    BY <1>2, <1>5, <2>1 DEF Grows
<1> QED
  BY <1>3, <1>4, <1>5

LEMMA DownFrom ==
  ASSUME NEW q, channel' # None => q = down'[channel'] /\ AckInv(q)' /\ OpenInv(q)'
  PROVE  DownInv'
BY DEF DownInv, AckInv, OpenInv

\* The frames on their way in a step that only makes them later ones.
LEMMA DownKept ==
  ASSUME Inv, Grows, NEW n, channel' \in {channel, None},
         channel' # None =>
           /\ Later(down[channel], down'[channel], n)
           /\ established' <=> established
           /\ channel \in greeted' => channel \in greeted
           /\ channel \in greeted =>
                (controlClosed => controlClosed') /\ (controlClosed' \/ listed' = listed)
           /\ \A p \in opened' \ opened :
                \E i \in 1..n : /\ i \in 1..Len(down[channel])
                                /\ down[channel][i].type = "pair.open"
                                /\ down[channel][i].pair = p
  PROVE  DownInv'
<1>1. CASE channel' = None
  BY <1>1, DownFrom
<1>2. ASSUME channel' # None PROVE DownInv'
  <2>1. channel' = channel /\ channel # None
    BY <1>2
  <2>2. PICK q : q = down[channel]
    OBVIOUS
  <2>3. PICK q2 : q2 = down'[channel]
    OBVIOUS
  <2>4. Later(q, q2, n)
    BY <1>2, <2>2, <2>3
  <2>5. AckInv(q) /\ OpenInv(q)
    BY <2>1, <2>2 DEF Inv, DownInv
  <2>6. AckInv(q2)'
    BY <1>2, <2>1, <2>4, <2>5, AckKept DEF Later
  <2>7. OpenInv(q2)'
    <3>1. \A p \in opened' \ opened :
            \E i \in 1..n : i \in 1..Len(q) /\ q[i].type = "pair.open" /\ q[i].pair = p
      BY <1>2, <2>2
    <3>2. established' \/ (/\ ~established
                           /\ \A i \in 1..Len(q) : q[i].type = "hello.ack" =>
                                i > n /\ i - n \in 1..Len(q2) /\ q2[i - n].type = "hello.ack")
      BY <1>2, <2>4 DEF Later, AcksLater
    <3> QED
      BY <2>4, <2>5, <3>1, <3>2, OpenKept DEF Later
  <2> QED
    BY <2>1, <2>3, <2>6, <2>7, DownFrom
<1> QED
  BY <1>1, <1>2

\* The client has read none of them.
LEMMA DownUnread ==
  ASSUME Inv, Grows, channel' = channel, UNCHANGED <<established, controlClosed, listed, opened>>,
         greeted' = greeted,
         channel # None => Later(down[channel], down'[channel], 0)
  PROVE  DownInv'
<1>1. channel' # None =>
        /\ Later(down[channel], down'[channel], 0)
        /\ established' <=> established
        /\ channel \in greeted' => channel \in greeted
        /\ channel \in greeted =>
             (controlClosed => controlClosed') /\ (controlClosed' \/ listed' = listed)
        /\ \A p \in opened' \ opened :
             \E i \in 1..0 : /\ i \in 1..Len(down[channel])
                             /\ down[channel][i].type = "pair.open"
                             /\ down[channel][i].pair = p
  OBVIOUS
<1>2. PICK n : n = 0
  OBVIOUS
<1> QED
  BY <1>1, <1>2, DownKept

LEMMA LaterSame ==
  ASSUME NEW q \in Seq(Frames)
  PROVE  Later(q, q, 0)
<1>1. Len(q) \in Nat
  BY LenProperties
<1>2. \A i \in 1..Len(q) : i + 0 = i /\ i - 0 = i /\ i > 0
  BY <1>1
<1> QED
  BY <1>1, <1>2 DEF Later, AcksLater, OpensLater

LEMMA LaterClosed ==
  ASSUME NEW q \in Seq(Frames), NEW closes \in Seq(Frames),
         \A i \in 1..Len(closes) : closes[i].type = "pair.close"
  PROVE  Later(q, q \o closes, 0)
<1>1. /\ Len(q) \in Nat /\ Len(closes) \in Nat /\ Len(q \o closes) = Len(q) + Len(closes)
      /\ \A i \in 1..(Len(q) + Len(closes)) :
           (q \o closes)[i] = IF i <= Len(q) THEN q[i] ELSE closes[i - Len(q)]
  BY ConcatProperties, LenProperties
<1>2. \A i \in 1..Len(q \o closes) :
        (q \o closes)[i].type # "pair.close" => i \in 1..Len(q) /\ (q \o closes)[i] = q[i]
  <2> SUFFICES ASSUME NEW i \in 1..Len(q \o closes), (q \o closes)[i].type # "pair.close"
               PROVE  i <= Len(q)
    BY <1>1
  <2>1. i > Len(q) => i - Len(q) \in 1..Len(closes)
    BY <1>1
  <2> QED
    BY <1>1, <2>1
<1>3. \A i \in 1..Len(q) : i \in 1..Len(q \o closes) /\ (q \o closes)[i] = q[i]
  BY <1>1
<1>4. \A i \in 1..Len(q) : i + 0 = i /\ i - 0 = i /\ i > 0
  BY <1>1
<1>5. \A i \in 1..Len(q \o closes) : i + 0 = i
  BY <1>1
<1> QED
  BY <1>1, <1>2, <1>3, <1>4, <1>5 DEF Later, AcksLater, OpensLater

LEMMA LaterRead ==
  ASSUME NEW q \in Seq(Frames), q # <<>>
  PROVE  /\ OpensLater(q, Tail(q), 1)
         /\ q[1].type # "hello.ack" => Later(q, Tail(q), 1)
<1>1. /\ Len(q) \in Nat /\ Len(Tail(q)) = Len(q) - 1 /\ Len(q) >= 1
      /\ \A i \in 1..Len(Tail(q)) : Tail(q)[i] = q[i + 1] /\ i + 1 \in 1..Len(q)
  BY TailKnown, EmptySeq
<1>2. OpensLater(q, Tail(q), 1)
  BY <1>1 DEF OpensLater
<1>3. ASSUME NEW i \in 1..Len(q), i # 1
      PROVE  i > 1 /\ i - 1 \in 1..Len(Tail(q)) /\ Tail(q)[i - 1] = q[i]
  <2>1. i - 1 \in 1..Len(Tail(q)) /\ (i - 1) + 1 = i /\ i > 1
    BY <1>1, <1>3
  <2> QED
    BY <1>1, <2>1
<1>4. q[1].type # "hello.ack" => AcksLater(q, Tail(q), 1)
  BY <1>1, <1>3 DEF AcksLater
<1> QED
  BY <1>2, <1>4 DEF Later

-----------------------------------------------------------------------------
(* The pairs and the links of the client.                                  *)

Dialing == {"local", "data", "halfdial"}

\* A step in which the client opens pairs of O at most, and replaces links of pairs of K.
Gains(O, K) ==
  /\ opened' \subseteq opened \cup O
  /\ ~established' =>
       clientPairs' \ WsRequests \subseteq O \cup (IF established THEN {} ELSE clientPairs)
  /\ \A l \in C!Links : link'[l] \in Dialing =>
       link[l] \in Dialing \/ (l[2] = 0 /\ l[1] \in O) \/ (l[2] # 0 /\ l[1] \in K)

LEMMA GainsKept ==
  ASSUME Inv, Grows, NEW O, NEW K, Gains(O, K), O \subseteq requested, K \subseteq kept,
         ~established' => O \ WsRequests \subseteq early,
         \A l \in arriving' : l \in arriving \/ (l \in C!Links /\ link[l] \in Dialing)
  PROVE  PairsInv' /\ LinkInv'
<1>1. PairsInv'
  BY DEF Inv, PairsInv, Gains, Grows
<1>2. \A l \in C!Links : Asked(l) => Asked(l)'
  BY DEF Asked, Grows
<1>3. \A l \in C!Links : link'[l] \in Dialing => Asked(l)'
  <2> SUFFICES ASSUME NEW l \in C!Links, link'[l] \in Dialing PROVE Asked(l)'
    OBVIOUS
  <2>1. CASE link[l] \in Dialing
    BY <1>2, <2>1 DEF Inv, LinkInv, Dialing
  <2>2. CASE (l[2] = 0 /\ l[1] \in O) \/ (l[2] # 0 /\ l[1] \in K)
    BY <2>2 DEF Asked, Grows
  <2> QED
    BY <2>1, <2>2 DEF Gains
<1>4. \A l \in arriving' : l \in C!Links /\ Asked(l)'
  BY <1>2 DEF Inv, LinkInv, Dialing
<1> QED
  BY <1>1, <1>3, <1>4 DEF LinkInv, Dialing

LEMMA ServerGains ==
  ASSUME Inv, UNCHANGED clientVars
  PROVE  Gains({}, {})
BY DEF clientVars, Gains

\* Links that are destroyed dial no more.
LEMMA DestroyedDialsNot == \A l \in C!Links : C!Destroyed(l) \notin Dialing
BY DEF C!Destroyed, Dialing

LEMMA ClosingGains ==
  ASSUME NEW P, C!ClosePairs(P), established' => established,
         ~established' => ~established \/ clientPairs \ WsRequests \subseteq P
  PROVE  Gains({}, {})
<1>1. opened' = opened /\ clientPairs' = clientPairs \ P
  BY DEF C!ClosePairs
<1>2. \A l \in C!Links : link'[l] \in Dialing => link[l] \in Dialing
  BY DestroyedDialsNot DEF C!ClosePairs, C!DestroyLinks
<1> QED
  BY <1>1, <1>2 DEF Gains

LEMMA ClientAloneGains ==
  ASSUME Inv, ClientAlone
  PROVE  Gains({}, {})
<1>1. CASE C!FetchSucceeds \/ C!Exit \/ C!ControlConnectFails \/ C!ControlReconnects
  <2>1. UNCHANGED <<opened, clientPairs, link, established>>
    BY <1>1 DEF C!FetchSucceeds, C!Exit, C!ControlConnectFails, C!ConnectFails,
                C!ControlReconnects, C!Reconnect, C!controlVars, C!clusterVars
  <2> QED
    BY <2>1 DEF Gains
<1>2. CASE C!Close
  <2>1. CASE stage = "running"
    <3>1. clientPairs' = {} /\ opened' = opened
      BY <1>2, <2>1 DEF C!Close, C!CloseCluster
    <3>2. \A l \in C!Links : link'[l] \in Dialing => link[l] \in Dialing
      BY <1>2, <2>1, DestroyedDialsNot DEF C!Close, C!CloseCluster, C!DestroyLinks
    <3> QED
      BY <3>1, <3>2 DEF Gains
  <2>2. CASE stage # "running"
    <3>1. UNCHANGED <<opened, clientPairs, link, established>>
      BY <1>2, <2>2 DEF C!Close, C!controlVars, C!clusterVars
    <3> QED
      BY <3>1 DEF Gains
  <2> QED
    BY <2>1, <2>2
<1>3. CASE C!ControlEnds
  <2>1. ~established' /\ C!Disconnected
    BY <1>3 DEF C!ControlEnds, C!EndSession
  <2>2. CASE established
    <3>1. C!ClosePairs(clientPairs \ WsRequests)
      BY <2>1, <2>2 DEF C!Disconnected, C!ControlLost
    <3> QED
      BY <2>1, <3>1, ClosingGains
  <2>3. CASE ~established
    <3>1. UNCHANGED <<opened, clientPairs, link>>
      BY <2>1, <2>3 DEF C!Disconnected, C!clusterVars
    <3> QED
      BY <2>1, <2>3, <3>1 DEF Gains
  <2> QED
    BY <2>2, <2>3
<1> QED
  BY <1>1, <1>2, <1>3 DEF ClientAlone

\* The events of the sockets.
LEMMA LinkEventGains ==
  ASSUME Inv, NEW l, LinkEvent(l), C!SocketEvent
  PROVE  Gains({}, {})
<1>1. /\ opened' = opened /\ clientPairs' \subseteq clientPairs
      /\ \A m \in C!Links : link'[m] \in Dialing => link[m] \in Dialing
  BY LinkEventShrinks, ClientParts DEF Inv, Dialing
<1>2. established' = established
  BY DEF C!SocketEvent, C!controlVars
<1> QED
  BY <1>1, <1>2 DEF Gains

\* What is opened on frames of the server.
LEMMA OpeningGains ==
  ASSUME Inv, NEW P, C!OpenPairs(P), established' <=> established
  PROVE  Gains(P, {})
<1>1. /\ opened' = opened \cup P /\ clientPairs' \subseteq clientPairs \cup P
      /\ \A l \in C!Links : link'[l] \in Dialing =>
           link[l] \in Dialing \/ (l[2] = 0 /\ l[1] \in P)
  BY DEF C!OpenPairs, Inv, ClientInv
<1>2. ~established' => clientPairs' \ WsRequests \subseteq P \cup clientPairs
  BY <1>1
<1> QED
  BY <1>1, <1>2 DEF Gains

LEMMA ResumingGains ==
  ASSUME Inv, NEW keep, C!HelloAck(keep)
  PROVE  Gains({}, keep \cap WsRequests)
<1>1. established'
  BY DEF C!HelloAck, C!Acknowledge
<1>2. CASE UNCHANGED <<opened, clientPairs, link>>
  BY <1>1, <1>2 DEF Gains
<1>3. CASE C!ResumePairs(keep, listed \ keep)
  <2> DEFINE replace == keep \cap WsRequests \cap clientPairs
             new == {<<p, generation[p] + 1>> : p \in replace}
  <2>1. opened' = opened
    BY <1>3 DEF C!ResumePairs
  <2>2. ASSUME NEW l \in C!Links, link'[l] \in Dialing, link[l] \notin Dialing
        PROVE  l \in new
    <3>1. l \in new \/ link'[l] = C!Destroyed(l) \/ link'[l] = link[l]
      BY <1>3 DEF C!ResumePairs
    <3> QED
      BY <2>2, <3>1, DestroyedDialsNot
  <2>3. ASSUME NEW l \in new PROVE l[2] # 0 /\ l[1] \in keep \cap WsRequests
    <3>1. PICK p \in replace : l = <<p, generation[p] + 1>>
      BY <2>3
    <3>2. p \in Requests /\ generation[p] \in Nat
      BY DEF Inv, ClientInv
    <3> QED
      BY <3>1, <3>2
  <2> HIDE DEF new
  <2> QED
    BY <1>1, <2>1, <2>2, <2>3 DEF Gains
<1> QED
  BY <1>2, <1>3 DEF C!HelloAck, C!clusterVars

-----------------------------------------------------------------------------
(* The steps.                                                              *)

\* The client steps on what it has read before, or by itself.
LEMMA ClientCalmInv ==
  ASSUME Inv, [Next]_vars, Calm, Gains({}, {}), UNCHANGED serverVars, Reported, Reading(down),
         \A l \in arriving' : l \in arriving \/ (l \in C!Links /\ link[l] \in Dialing)
  PROVE  Inv'
<1>1. Grows /\ ServerInv' /\ ClientInv'
  BY StepsOfEnds
<1>2. greeted' = greeted
  BY DEF serverVars
<1>3. /\ NetworkInv'
      /\ channel' # None => channel' = channel /\ down'[channel] = down[channel]
  <2>1. down \in [Sessions -> Seq(Frames)] /\ \A s \in Sessions : s # channel => down[s] = <<>>
    BY DEF Inv, NetworkInv
  <2>2. Steady
    BY DEF Calm
  <2> QED
    BY <2>1, <2>2, ClientNetwork
<1>4. HelloInv'
  <2>1. ASSUME NEW s \in Sessions PROVE HelloAt(s)'
    <3>1. SameHellos(s)
      BY ReportedUp
    <3>2. s = channel' => channel' # None
      BY NoSession
    <3> QED
      BY <1>1, <1>2, <1>3, <3>1, <3>2, HelloKept DEF Calm
  <2> QED
    BY <2>1 DEF HelloInv
<1>5. DownInv'
  <2>1. ASSUME channel' # None PROVE Later(down[channel], down'[channel], 0)
    <3>1. down[channel] \in Seq(Frames) /\ down'[channel] = down[channel]
      BY <1>3, <2>1 DEF Inv, NetworkInv
    <3> QED
      BY <3>1, LaterSame
  <2>2. opened' \subseteq opened
    BY DEF Gains
  <2> QED
    BY <1>1, <1>2, <1>3, <2>1, <2>2, DownKept DEF Calm
<1>6. PairsInv' /\ LinkInv'
  BY <1>1, GainsKept
<1> QED
  BY <1>1, <1>3, <1>4, <1>5, <1>6 DEF Inv

LEMMA ClientAloneInv ==
  ASSUME Inv, [Next]_vars, ClientAlone
  PROVE  Inv'
<1>1. UNCHANGED serverVars /\ Reported /\ arriving' = arriving /\ Reading(down)
  BY DEF ClientAlone, Unheard, Reported
<1> QED
  BY <1>1, ClientAloneCalm, ClientAloneGains, ClientCalmInv

LEMMA LinksInv ==
  ASSUME Inv, [Next]_vars, LinkMoves \/ \E l \in C!Links : LinkFails(l) \/ LinkDials(l)
  PROVE  Inv'
<1>1. /\ UNCHANGED serverVars /\ Reading(down) /\ C!SocketEvent
      /\ \E l : LinkEvent(l)
  <2>1. \A p \in Requests : <<p, 0>>[1] = p
    OBVIOUS
  <2> QED
    BY <2>1
       DEF LinkMoves, LinkFails, LinkDials, Unheard, LinkEvent, C!PairLocalRefused,
           C!PairLocalConnects, C!PairLocalFails, C!PairDataConnects, C!PairDataFails, C!PairEnds,
           C!PairLocalClosed
<1>2. Gains({}, {})
  BY <1>1, LinkEventGains
<1>3. Calm
  BY <1>1, SocketEventCalm, ReadingKeeps DEF Inv, NetworkInv
<1>4. Reported
  BY LinkFailsReports DEF LinkMoves, LinkDials, Unheard, Reported
<1>5. \A l \in arriving' : l \in arriving \/ (l \in C!Links /\ link[l] \in Dialing)
  BY DEF LinkMoves, LinkFails, LinkDials, Unheard, C!PairDataConnects, C!DataConnects, Dialing
<1> QED
  BY <1>1, <1>2, <1>3, <1>4, <1>5, ClientCalmInv

\* What a frame does to the client, as far as its connection is concerned.
LEMMA FrameRead ==
  ASSUME Inv, ClientReads
  PROVE  /\ channel \in Sessions /\ channel # None /\ down[channel] \in Seq(Frames)
         /\ down[channel] # <<>> /\ 1 \in 1..Len(down[channel]) /\ down[channel][1] \in Frames
         /\ UNCHANGED <<exited, socket, attempt, controlClosed>> /\ socket
         /\ \/ /\ down[channel][1].type = "pair.open"
               /\ C!PairOpen(down[channel][1].pair)
               /\ UNCHANGED <<established, listed>>
            \/ /\ down[channel][1].type = "pair.close" /\ UNCHANGED <<established, listed, opened>>
               /\ C!PairClose(down[channel][1].pair) \/ UNCHANGED clientVars
            \/ /\ down[channel][1].type = "hello.ack"
               /\ C!HelloAck(down[channel][1].keep)
               /\ established' /\ opened' = opened
<1>1. /\ ~exited /\ socket /\ down[channel] # <<>>
      /\ LET frame == Head(down[channel]) IN
           \/ frame.type = "pair.open" /\ C!PairOpen(frame.pair)
           \/ frame.type = "pair.close" /\ C!PairClose(frame.pair)
           \/ /\ frame.type = "pair.close" /\ frame.pair \notin clientPairs
              /\ UNCHANGED clientVars
           \/ frame.type = "hello.ack" /\ C!HelloAck(frame.keep)
  BY DEF ClientReads, C!FramesRead
<1>2. channel \in Sessions /\ channel # None /\ down[channel] \in Seq(Frames)
  BY <1>1, NoSession DEF Inv, NetworkInv
<1>3. /\ Head(down[channel]) = down[channel][1] /\ down[channel][1] \in Frames
      /\ 1 \in 1..Len(down[channel])
  BY <1>1, <1>2, HeadsKnown DEF Inv
<1>4. CASE down[channel][1].type = "pair.open"
  <2>1. C!PairOpen(down[channel][1].pair)
    BY <1>1, <1>3, <1>4
  <2>2. UNCHANGED <<exited, socket, attempt, controlClosed, established, listed>>
    BY <2>1 DEF C!PairOpen, C!controlVars, C!lifeVars
  <2> QED
    BY <1>1, <1>2, <1>3, <1>4, <2>1, <2>2
<1>5. CASE down[channel][1].type = "pair.close"
  <2>1. C!PairClose(down[channel][1].pair) \/ UNCHANGED clientVars
    BY <1>1, <1>3, <1>5
  <2>2. UNCHANGED <<exited, socket, attempt, controlClosed, established, listed, opened>>
    BY <2>1 DEF C!PairClose, C!ClosePairs, C!controlVars, C!lifeVars, clientVars
  <2> QED
    BY <1>1, <1>2, <1>3, <1>5, <2>1, <2>2
<1>6. CASE down[channel][1].type = "hello.ack"
  <2>1. C!HelloAck(down[channel][1].keep)
    BY <1>1, <1>3, <1>6
  <2>2. UNCHANGED <<exited, socket, attempt, controlClosed>> /\ established'
    BY <2>1 DEF C!HelloAck, C!Acknowledge
  <2>3. opened' = opened
    BY <2>1 DEF C!HelloAck, C!ResumePairs, C!clusterVars
  <2> QED
    BY <1>1, <1>2, <1>3, <1>6, <2>1, <2>2, <2>3
<1> QED
  BY <1>1, <1>3, <1>4, <1>5, <1>6

LEMMA ClientReadsInv ==
  ASSUME Inv, [Next]_vars, ClientReads
  PROVE  Inv'
<1>1. Grows /\ ServerInv' /\ ClientInv'
  BY StepsOfEnds
<1>2. UNCHANGED <<serverVars, up, arriving>>
  BY DEF ClientReads, Unheard
<1>3. greeted' = greeted
  BY <1>2 DEF serverVars
<1> DEFINE d == [down EXCEPT ![channel] = Tail(@)]
           f == down[channel][1]
<1>4. /\ channel \in Sessions /\ channel # None /\ down[channel] \in Seq(Frames)
      /\ down[channel] # <<>> /\ 1 \in 1..Len(down[channel]) /\ f \in Frames
      /\ UNCHANGED <<exited, socket, attempt, controlClosed>> /\ socket
  BY FrameRead
<1>5. \/ f.type = "pair.open" /\ C!PairOpen(f.pair) /\ UNCHANGED <<established, listed>>
      \/ /\ f.type = "pair.close" /\ UNCHANGED <<established, listed, opened>>
         /\ C!PairClose(f.pair) \/ UNCHANGED clientVars
      \/ f.type = "hello.ack" /\ C!HelloAck(f.keep) /\ established' /\ opened' = opened
  BY FrameRead
<1>6. AckInv(down[channel]) /\ OpenInv(down[channel])
  BY <1>4 DEF Inv, DownInv
<1>7. channel' \in {channel, None}
  BY DEF ClientReads, Reading
<1>8. NetworkInv' /\ (channel' # None => channel' = channel /\ down'[channel] = Tail(down[channel]))
  <2>1. Steady
    BY <1>4, <1>7 DEF Steady
  <2>2. Reported
    BY <1>2 DEF Reported
  <2>3. d \in [Sessions -> Seq(Frames)] /\ d[channel] = Tail(down[channel])
        /\ \A s \in Sessions : s # channel => d[s] = <<>>
    BY <1>4, TailKnown DEF Inv, NetworkInv
  <2>4. Reading(d)
    BY DEF ClientReads
  <2> HIDE DEF d
  <2> QED
    BY <1>2, <2>1, <2>2, <2>3, <2>4, ClientNetwork
<1> HIDE DEF d
<1>9. HelloInv'
  <2>1. ASSUME NEW s \in Sessions PROVE HelloAt(s)'
    <3>1. SameHellos(s)
      BY <1>2 DEF SameHellos
    <3>2. CASE f.type = "hello.ack" /\ s = channel
      <4>1. channel \in greeted
        BY <1>4, <1>6, <3>2 DEF AckInv
      <4>2. \A i \in 1..Len(up[s]) : up[s][i].type # "hello"
        BY <3>2, <4>1 DEF Inv, HelloInv, HelloAt
      <4> QED
        BY <1>2, <4>2 DEF HelloAt
    <3>3. CASE f.type # "hello.ack" /\ s = channel
      BY <1>1, <1>3, <1>4, <1>5, <3>1, <3>3, HelloKept
    <3>4. CASE s # channel
      <4>1. s # channel'
        BY <1>7, <3>4, NoSession
      <4> QED
        BY <1>1, <3>1, <4>1, HelloKept
    <3> QED
      BY <3>2, <3>3, <3>4
  <2> QED
    BY <2>1 DEF HelloInv
<1>10. CASE f.type = "hello.ack"
  <2>1. C!HelloAck(f.keep) /\ established' /\ opened' = opened
    BY <1>5, <1>10
  <2>2. PICK q : q = down[channel]
    OBVIOUS
  <2>3. PICK q2 : q2 = Tail(q)
    OBVIOUS
  <2>4. q \in Seq(Frames) /\ q # <<>> /\ AckInv(q) /\ OpenInv(q)
    BY <1>4, <1>6, <2>2
  <2>5. OpenInv(q2)'
    <3>1. OpensLater(q, q2, 1)
      BY <2>3, <2>4, LaterRead
    <3> QED
      BY <1>1, <2>1, <2>4, <3>1, OpenKept
  <2>6. AckInv(q2)'
    <3>1. \A i \in 1..Len(q2) : q2[i].type # "hello.ack"
      <4> SUFFICES ASSUME NEW i \in 1..Len(q2), q2[i].type = "hello.ack" PROVE FALSE
        OBVIOUS
      <4>1. q2[i] = q[i + 1] /\ i + 1 \in 1..Len(q)
        BY <2>3, <2>4, TailKnown
      <4>2. 1 \in 1..Len(q) /\ q[1].type = "hello.ack"
        BY <1>4, <1>10, <2>2
      <4>3. i + 1 = 1
        BY <2>4, <4>1, <4>2 DEF AckInv
      <4> QED
        BY <4>3
    <3> QED
      BY <2>1, <3>1 DEF AckInv
  <2>7. DownInv'
    <3>1. channel' # None => q2 = down'[channel']
      BY <1>8, <2>2, <2>3
    <3> QED
      BY <2>5, <2>6, <3>1, DownFrom
  <2>8. PairsInv' /\ LinkInv'
    <3>1. Gains({}, f.keep \cap WsRequests)
      BY <2>1, ResumingGains
    <3>2. f.keep \cap WsRequests \subseteq kept
      BY <1>4, <1>6, <1>10 DEF AckInv
    <3> HIDE DEF f
    <3> QED
      BY <1>1, <1>2, <3>1, <3>2, GainsKept
  <2> QED
    BY <1>1, <1>8, <1>9, <2>7, <2>8 DEF Inv
<1>11. CASE f.type # "hello.ack"
  <2>1. UNCHANGED <<established, listed>>
    BY <1>5, <1>11
  <2>2. \A p \in opened' \ opened : f.type = "pair.open" /\ f.pair = p
    BY <1>5, <1>11 DEF C!PairOpen, C!OpenPairs
  <2>3. DownInv'
    <3>1. ASSUME channel' # None PROVE Later(down[channel], down'[channel], 1)
      BY <1>4, <1>8, <1>11, <3>1, LaterRead
    <3>2. \A p \in opened' \ opened :
            \E i \in 1..1 : /\ i \in 1..Len(down[channel])
                            /\ down[channel][i].type = "pair.open"
                            /\ down[channel][i].pair = p
      BY <1>4, <2>2
    <3> QED
      BY <1>1, <1>3, <1>4, <1>7, <2>1, <3>1, <3>2, DownKept
  <2>4. PairsInv' /\ LinkInv'
    <3>1. CASE f.type = "pair.open"
      <4>1. C!OpenPairs({f.pair})
        BY <1>5, <3>1 DEF C!PairOpen
      <4>2. Gains({f.pair}, {})
        BY <2>1, <4>1, OpeningGains
      <4>3. f.pair \in requested /\ (~established => f.pair \in early)
        BY <1>4, <1>6, <3>1 DEF OpenInv
      <4> HIDE DEF f
      <4> QED
        BY <1>1, <1>2, <2>1, <4>2, <4>3, GainsKept
    <3>2. CASE f.type # "pair.open"
      <4>1. C!PairClose(f.pair) \/ UNCHANGED clientVars
        BY <1>5, <1>11, <3>2
      <4>2. Gains({}, {})
        <5>1. CASE UNCHANGED clientVars
          BY <5>1, ServerGains
        <5>2. CASE C!PairClose(f.pair)
          <6>1. /\ C!ClosePairs({f.pair}) /\ opened' = opened
                /\ clientPairs' \subseteq clientPairs
            BY <5>2 DEF C!PairClose, C!ClosePairs
          <6>2. \A l \in C!Links : link'[l] \in Dialing => link[l] \in Dialing
            BY <6>1, DestroyedDialsNot DEF C!ClosePairs, C!DestroyLinks
          <6> QED
            BY <2>1, <6>1, <6>2 DEF Gains
        <5> QED
          BY <4>1, <5>1, <5>2
      <4> QED
        BY <1>1, <1>2, <4>2, GainsKept
    <3> QED
      BY <3>1, <3>2
  <2> QED
    BY <1>1, <1>8, <1>9, <2>3, <2>4 DEF Inv
<1> QED
  BY <1>10, <1>11

LEMMA ClientConnectsInv ==
  ASSUME Inv, [Next]_vars, NEW n \in Nat, ClientConnects(n)
  PROVE  Inv'
<1> DEFINE q == down[channel]
           P == {q[i].pair : i \in 1..n}
<1>1. Grows /\ ServerInv' /\ ClientInv'
  BY StepsOfEnds
<1>2. UNCHANGED <<serverVars, arriving>> /\ greeted' = greeted
  BY DEF ClientConnects, serverVars
<1>3. /\ NetworkInv' /\ channel # None /\ attempt # None /\ channel \in Sessions
      /\ channel' \in {channel, None}
      /\ n <= Len(q) /\ Len(q) \in Nat
      /\ channel' # None =>
           /\ Len(down'[channel]) = Len(q) - n
           /\ \A i \in 1..Len(down'[channel]) : down'[channel][i] = q[i + n]
      /\ \A s \in Sessions : s # channel => up'[s] = up[s]
      /\ up' = up \/ (/\ ~controlClosed /\ listed' \subseteq Requests
                      /\ Len(up'[channel]) = 1 /\ up'[channel][1] = Hello(listed'))
  BY ClientConnectsNetwork
<1>4. channel \notin greeted /\ up[channel] = <<>> /\ AckInv(q) /\ OpenInv(q)
  BY <1>3 DEF Inv, NetworkInv, DownInv
<1>5. ~established /\ ~established' /\ UNCHANGED controlClosed
  BY <1>3 DEF ClientConnects, C!ControlConnects, C!ConnectSucceeds, Inv, ClientInv
<1>6. /\ \A i \in 1..n : q[i].type = "pair.open"
      /\ controlClosed => UNCHANGED <<opened, clientPairs, link>>
      /\ ~controlClosed => C!OpenPairs(P) /\ listed' = clientPairs'
  BY DEF ClientConnects, C!ControlConnects, C!clusterVars
<1>7. \A i \in 1..Len(q) : q[i].type # "hello.ack"
  BY <1>4 DEF AckInv
<1>8. P \subseteq requested /\ P \subseteq early
  <2>1. ASSUME NEW i \in 1..n PROVE q[i].pair \in requested /\ q[i].pair \in early
    <3>1. i \in 1..Len(q)
      BY <1>3
    <3>2. \A j \in 1..(i - 1) : j \in 1..Len(q)
      BY <1>3
    <3>3. \A j \in 1..(i - 1) : q[j].type # "hello.ack"
      BY <1>7, <3>2
    <3> HIDE DEF q
    <3> QED
      BY <1>4, <1>5, <1>6, <3>1, <3>3 DEF OpenInv
  <2> QED
    BY <2>1
<1>9. Gains(P, {}) /\ opened' \subseteq opened \cup P
  <2>1. CASE controlClosed
    BY <1>5, <1>6, <2>1 DEF Gains
  <2>2. CASE ~controlClosed
    <3>1. Gains(P, {})
      <4> HIDE DEF P
      <4> QED
        BY <1>5, <1>6, <2>2, OpeningGains
    <3> QED
      BY <3>1 DEF Gains
  <2> QED
    BY <2>1, <2>2
<1>10. PairsInv' /\ LinkInv'
  <2> HIDE DEF P
  <2> QED
    BY <1>1, <1>2, <1>8, <1>9, GainsKept
<1>11. DownInv'
  <2>1. ASSUME channel' # None PROVE Later(q, down'[channel], n)
    <3>1. \A i \in 1..Len(down'[channel]) : i + n \in 1..Len(q)
      BY <1>3, <2>1
    <3> QED
      BY <1>3, <1>7, <2>1, <3>1 DEF Later, AcksLater, OpensLater
  <2>2. \A p \in opened' \ opened :
          \E i \in 1..n : i \in 1..Len(q) /\ q[i].type = "pair.open" /\ q[i].pair = p
    <3> SUFFICES ASSUME NEW p \in opened' \ opened
                 PROVE  \E i \in 1..n : /\ i \in 1..Len(q) /\ q[i].type = "pair.open"
                                        /\ q[i].pair = p
      OBVIOUS
    <3>1. PICK i \in 1..n : q[i].pair = p
      BY <1>9
    <3>2. i \in 1..Len(q)
      BY <1>3
    <3> QED
      BY <1>6, <3>1, <3>2
  <2> QED
    BY <1>1, <1>2, <1>3, <1>4, <1>5, <2>1, <2>2, DownKept
<1>12. HelloInv'
  <2>1. ASSUME NEW s \in Sessions, s # channel PROVE HelloAt(s)'
    <3>1. SameHellos(s) /\ s # channel'
      BY <1>3, <2>1, NoSession DEF SameHellos
    <3> QED
      BY <1>1, <3>1, HelloKept
  <2>2. ASSUME NEW s \in Sessions, s = channel PROVE HelloAt(s)'
    <3>1. CASE up' = up
      <4>1. Len(up'[s]) = 0
        BY <1>4, <2>2, <3>1, EmptySeq
      <4> QED
        BY <4>1 DEF HelloAt
    <3>2. CASE up' # up
      <4>1. /\ ~controlClosed /\ listed' \subseteq Requests
            /\ Len(up'[s]) = 1 /\ up'[s][1] = Hello(listed')
        BY <1>3, <2>2, <3>2
      <4>2. up'[s][1].inflightPairs = listed'
        BY <4>1, FramesMade
      <4>3. listed' \subseteq S!Listable'
        <5>1. listed' = clientPairs' /\ clientPairs' \subseteq opened'
          BY <1>1, <1>6, <4>1 DEF ClientInv
        <5>2. opened' \subseteq requested' /\ clientPairs' \ WsRequests \subseteq early'
          BY <1>5, <1>10 DEF PairsInv
        <5> QED
          BY <5>1, <5>2 DEF S!Listable
      <4>4. s \notin greeted'
        BY <1>2, <1>4, <2>2
      <4> QED
        BY <1>5, <4>1, <4>2, <4>3, <4>4 DEF HelloAt
    <3> QED
      BY <3>1, <3>2
  <2> QED
    BY <2>1, <2>2 DEF HelloInv
<1> QED
  BY <1>1, <1>3, <1>10, <1>11, <1>12 DEF Inv

\* What the server reads of a session, or drops with it.
Consumed(s) ==
  \/ up'[s] = up[s] \/ up'[s] = <<>>
  \/ up[s] # <<>> /\ up'[s] = Tail(up[s])

LEMMA ConsumedKeeps ==
  ASSUME Inv, NEW s \in Sessions, Consumed(s)
  PROVE  up'[s] \in Seq(Frames) /\ SameHellos(s) /\ (up[s] = <<>> => up'[s] = <<>>)
<1>1. up[s] \in Seq(Frames) /\ Len(<<>>) = 0 /\ <<>> \in Seq(Frames)
  BY EmptySeq DEF Inv, NetworkInv
<1>2. CASE up'[s] = up[s] \/ up'[s] = <<>>
  <2>1. up'[s] = <<>> => Len(up'[s]) = 0
    BY <1>1
  <2>2. SameHellos(s)
    BY <1>2, <2>1 DEF SameHellos
  <2> QED
    BY <1>1, <1>2, <2>2
<1>3. CASE up[s] # <<>> /\ up'[s] = Tail(up[s])
  BY <1>1, <1>3, TailKnown, ReadHasNoHello
<1> QED
  BY <1>2, <1>3 DEF Consumed

\* A step of the server that changes neither which connection is in use nor who said hello.
LEMMA ServerCalmInv ==
  ASSUME Inv, [Next]_vars, UNCHANGED <<clientVars, channel, greeted>>, arriving' \subseteq arriving,
         down' \in [Sessions -> Seq(Frames)], \A s \in Sessions : s # channel => down'[s] = down[s],
         channel # None => Later(down[channel], down'[channel], 0),
         up' \in [Sessions -> Seq(Frames)], \A s \in Sessions : Consumed(s)
  PROVE  Inv'
<1>1. Grows /\ ServerInv' /\ ClientInv'
  BY StepsOfEnds
<1>2. UNCHANGED <<established, controlClosed, listed, opened>>
  BY DEF clientVars
<1>3. \A s \in Sessions : SameHellos(s) /\ (up[s] = <<>> => up'[s] = <<>>)
  BY ConsumedKeeps
<1>4. NetworkInv'
  BY <1>3, ServerNetwork DEF Inv, NetworkInv
<1>5. HelloInv'
  <2>1. ASSUME NEW s \in Sessions PROVE HelloAt(s)'
    BY <1>1, <1>2, <1>3, HelloKept
  <2> QED
    BY <2>1 DEF HelloInv
<1>6. DownInv'
  BY <1>1, <1>2, DownUnread
<1>7. PairsInv' /\ LinkInv'
  BY <1>1, ServerGains, GainsKept
<1> QED
  BY <1>1, <1>4, <1>5, <1>6, <1>7 DEF Inv

\* Nothing is said.
LEMMA SilentInv ==
  ASSUME Inv, [Next]_vars, UNCHANGED <<clientVars, channel, greeted, down>>,
         arriving' \subseteq arriving, up' \in {up, Unread(up)}
  PROVE  Inv'
<1>1. up' \in [Sessions -> Seq(Frames)] /\ \A s \in Sessions : Consumed(s)
  <2>1. up \in [Sessions -> Seq(Frames)] /\ <<>> \in Seq(Frames)
    BY EmptySeq DEF Inv, NetworkInv
  <2> QED
    BY <2>1 DEF Unread, Consumed
<1>2. channel # None => Later(down[channel], down'[channel], 0)
  BY LaterSame DEF Inv, NetworkInv
<1>3. down' \in [Sessions -> Seq(Frames)]
  BY DEF Inv, NetworkInv
<1> QED
  BY <1>1, <1>2, <1>3, ServerCalmInv

LEMMA SilentStepsInv ==
  ASSUME Inv, [Next]_vars,
         \/ SessionsEnd \/ ServerAlone \/ UNCHANGED vars
         \/ \E l \in C!Links : Arrives(l) \/ ArrivalLost(l) \/ EndArrives(l)
  PROVE  Inv'
<1>1. CASE SessionsEnd
  <2>1. greeted' = greeted
    BY <1>1 DEF SessionsEnd, S!ControlSessionClose, S!WindowExpires, S!Destroy, S!DestroyTunnel
  <2> QED
    BY <1>1, <2>1, SilentInv DEF SessionsEnd
<1>2. CASE ServerAlone
  <2>1. greeted' = greeted
    BY <1>2
       DEF ServerAlone, S!ReservationTimeout, S!ResponseCompletes, S!WsExternalCloses,
           S!DataSocketFails, S!DataSocketClosed, S!controlVars
  <2> QED
    BY <1>2, <2>1, SilentInv DEF ServerAlone, networkVars
<1>3. CASE UNCHANGED vars
  BY <1>3, SilentInv DEF vars, serverVars, networkVars
<1>4. ASSUME NEW l \in C!Links, Arrives(l) \/ ArrivalLost(l) \/ EndArrives(l)
      PROVE  Inv'
  <2>1. greeted' = greeted
    BY <1>4
       DEF Arrives, ArrivalLost, EndArrives, S!DataSocketArrives, S!ReplacementArrives,
           S!DataSocketEnds, S!controlVars, serverVars
  <2> QED
    BY <1>4, <2>1, SilentInv DEF Arrives, ArrivalLost, EndArrives, networkVars
<1> QED
  BY <1>1, <1>2, <1>3, <1>4

\* The client is told of the end of a pair, or nothing.
LEMMA ClosesSent ==
  ASSUME Inv, [Next]_vars, channel' = channel, NEW s, SendDown(s, Closes) \/ down' = down
  PROVE  /\ down' \in [Sessions -> Seq(Frames)]
         /\ \A t \in Sessions : t # channel => down'[t] = down[t]
         /\ channel # None => Later(down[channel], down'[channel], 0)
<1>1. PICK closes : closes = Closes
  OBVIOUS
<1>2. closes \in Seq(Frames) /\ \A i \in 1..Len(closes) : closes[i].type = "pair.close"
  BY <1>1, StepsOfEnds, ClosesAreFrames DEF Inv, ServerInv
<1>3. channel # None => down[channel] \in Seq(Frames)
  BY DEF Inv, NetworkInv
<1>4. CASE down' = down
  BY <1>3, <1>4, LaterSame DEF Inv, NetworkInv
<1>5. CASE SendDown(s, Closes)
  <2>1. SendDown(s, closes)
    BY <1>1, <1>5 DEF SendDown
  <2>2. /\ down' \in [Sessions -> Seq(Frames)]
        /\ \A t \in Sessions : t # channel => down'[t] = down[t]
        /\ channel # None =>
             down'[channel] = IF s = channel THEN down[channel] \o closes ELSE down[channel]
    BY <1>2, <2>1, SendKeeps DEF Inv
  <2>3. channel # None => Later(down[channel], down'[channel], 0)
    BY <1>2, <1>3, <2>2, LaterSame, LaterClosed
  <2> QED
    BY <2>2, <2>3
<1> QED
  BY <1>4, <1>5

LEMMA UpgradeInv ==
  ASSUME Inv, [Next]_vars, NEW s \in Sessions, Upgrade(s)
  PROVE  Inv'
<1>1. Grows /\ ServerInv' /\ ClientInv'
  BY StepsOfEnds
<1>2. /\ attempt # None /\ ~exited /\ channel = None /\ channel' = s /\ s # None
      /\ up' = Unread(up) /\ UNCHANGED <<clientVars, down, arriving>>
      /\ session[s] = "new" /\ session'[s] = "open" /\ greeted' = greeted
  BY NoSession
     DEF Upgrade, S!AttachControlSession, S!TakeControl, S!Supersede, Inv, ServerInv
<1>3. UNCHANGED <<attempt, socket, exited, established, controlClosed, listed, opened>>
  BY <1>2 DEF clientVars
<1>4. /\ s \notin greeted /\ up[s] = <<>> /\ down[s] = <<>>
      /\ \A t \in Sessions : down[t] = <<>>
  BY <1>2, NoSession DEF Inv, ServerInv, NetworkInv
<1>5. /\ up' \in [Sessions -> Seq(Frames)]
      /\ \A t \in Sessions : up'[t] = up[t] \/ up'[t] = <<>>
  <2>1. <<>> \in Seq(Frames) /\ up \in [Sessions -> Seq(Frames)]
    BY EmptySeq DEF Inv, NetworkInv
  <2> QED
    BY <1>2, <2>1 DEF Unread
<1>6. NetworkInv'
  <2>1. \A t \in Sessions : session'[t] = "new" => up'[t] = <<>>
    BY <1>1, <1>5 DEF Grows, Inv, NetworkInv
  <2>2. up'[s] = <<>>
    BY <1>4, <1>5
  <2>3. down' \in [Sessions -> Seq(Frames)]
    BY <1>2 DEF Inv, NetworkInv
  <2> QED
    BY <1>2, <1>3, <1>4, <1>5, <2>1, <2>2, <2>3 DEF NetworkInv
<1>7. HelloInv'
  <2>1. ASSUME NEW t \in Sessions PROVE HelloAt(t)'
    <3>1. CASE t = s
      <4>1. Len(up'[t]) = 0
        BY <1>4, <1>5, <3>1, EmptySeq
      <4> QED
        BY <4>1 DEF HelloAt
    <3>2. CASE t # s
      <4>1. SameHellos(t)
        BY <1>5, ConsumedKeeps DEF Consumed
      <4> QED
        BY <1>1, <1>2, <3>2, <4>1, HelloKept
    <3> QED
      BY <3>1, <3>2
  <2> QED
    BY <2>1 DEF HelloInv
<1>8. DownInv'
  <2>1. PICK q : q = <<>>
    OBVIOUS
  <2>2. Len(q) = 0 /\ q = down'[channel']
    BY <1>2, <1>4, <2>1, EmptySeq
  <2>3. AckInv(q)' /\ OpenInv(q)'
    BY <1>2, <1>4, <2>2 DEF AckInv, OpenInv
  <2> QED
    BY <2>2, <2>3, DownFrom
<1>9. PairsInv' /\ LinkInv'
  BY <1>1, <1>2, ServerGains, GainsKept
<1> QED
  BY <1>1, <1>6, <1>7, <1>8, <1>9 DEF Inv

\* A hello is answered: what was on its way holds no hello.ack yet.
LEMMA AnswerSent ==
  ASSUME Inv, Grows, NEW P, NEW keep \in SUBSET P, NEW closes \in Seq(Frames), P \subseteq Requests,
         \A i \in 1..Len(closes) : closes[i].type = "pair.close",
         channel' = channel, channel \in Sessions, channel \notin greeted, channel \in greeted',
         ~established, UNCHANGED <<established, controlClosed, listed, opened>>,
         controlClosed \/ P = listed, keep \cap WsRequests \subseteq kept',
         down'[channel] = down[channel] \o (<<HelloAck(keep, P \ keep)>> \o closes)
  PROVE  DownInv'
<1>1. PICK q : q = down[channel]
  OBVIOUS
<1>2. PICK ack : ack = HelloAck(keep, P \ keep)
  OBVIOUS
<1>3. PICK q2 : q2 = q \o (<<ack>> \o closes)
  OBVIOUS
<1>4. /\ ack \in Frames /\ ack.type = "hello.ack" /\ ack.keep \cup ack.drop = P
      /\ ack.keep \cap WsRequests \subseteq kept'
  <2>1. PICK drop : drop = P \ keep
    OBVIOUS
  <2>2. drop \in SUBSET Requests /\ keep \in SUBSET Requests /\ ack = HelloAck(keep, drop)
    BY <1>2, <2>1
  <2>3. ack \in Frames /\ ack.type = "hello.ack" /\ ack.keep = keep /\ ack.drop = drop
    BY <2>2 DEF HelloAck, Frames
  <2> QED
    BY <2>1, <2>3
<1>5. /\ q \in Seq(Frames) /\ AckInv(q) /\ OpenInv(q)
  BY <1>1, NoSession DEF Inv, NetworkInv, DownInv
<1>6. \A i \in 1..Len(q) : q[i].type # "hello.ack"
  BY <1>5 DEF AckInv
<1>7. /\ <<ack>> \in Seq(Frames) /\ Len(<<ack>>) = 1 /\ <<ack>>[1] = ack
      /\ <<ack>> \o closes \in Seq(Frames)
      /\ Len(closes) \in Nat /\ Len(<<ack>> \o closes) = 1 + Len(closes)
      /\ (<<ack>> \o closes)[1] = ack
      /\ \A i \in 2..(1 + Len(closes)) : (<<ack>> \o closes)[i].type = "pair.close"
  <2>1. <<ack>> \in Seq(Frames) /\ Len(<<ack>>) = 1 /\ <<ack>>[1] = ack
    BY <1>4
  <2>2. /\ <<ack>> \o closes \in Seq(Frames)
        /\ Len(closes) \in Nat /\ Len(<<ack>> \o closes) = 1 + Len(closes)
        /\ \A i \in 1..(1 + Len(closes)) :
             (<<ack>> \o closes)[i] = IF i <= 1 THEN <<ack>>[i] ELSE closes[i - 1]
    BY <2>1, ConcatProperties, LenProperties
  <2>3. \A i \in 2..(1 + Len(closes)) : i - 1 \in 1..Len(closes) /\ ~(i <= 1)
                                        /\ i \in 1..(1 + Len(closes))
    BY <2>2
  <2>4. 1 \in 1..(1 + Len(closes)) /\ 1 <= 1
    BY <2>2
  <2> QED
    BY <2>1, <2>2, <2>3, <2>4
<1>8. /\ Len(q) \in Nat /\ Len(q2) = Len(q) + 1 + Len(closes)
      /\ \A i \in 1..Len(q) : q2[i] = q[i]
      /\ q2[Len(q) + 1] = ack
      /\ \A i \in (Len(q) + 2)..Len(q2) : q2[i].type = "pair.close"
  <2>1. PICK more : more = <<ack>> \o closes
    OBVIOUS
  <2>2. /\ more \in Seq(Frames) /\ Len(more) = 1 + Len(closes) /\ Len(closes) \in Nat
        /\ more[1] = ack /\ \A i \in 2..(1 + Len(closes)) : more[i].type = "pair.close"
    BY <1>7, <2>1
  <2>3. /\ Len(q) \in Nat /\ Len(q2) = Len(q) + Len(more)
        /\ \A i \in 1..(Len(q) + Len(more)) :
             q2[i] = IF i <= Len(q) THEN q[i] ELSE more[i - Len(q)]
    BY <1>3, <1>5, <2>1, <2>2, ConcatProperties, LenProperties
  <2>4. q2[Len(q) + 1] = more[1]
    <3>1. Len(q) + 1 \in 1..(Len(q) + Len(more)) /\ ~(Len(q) + 1 <= Len(q))
          /\ (Len(q) + 1) - Len(q) = 1
      BY <2>2, <2>3
    <3> QED
      BY <2>3, <3>1
  <2>5. ASSUME NEW i \in (Len(q) + 2)..Len(q2) PROVE q2[i].type = "pair.close"
    <3>1. i \in 1..(Len(q) + Len(more)) /\ ~(i <= Len(q)) /\ i - Len(q) \in 2..(1 + Len(closes))
      BY <2>2, <2>3
    <3> QED
      BY <2>2, <2>3, <3>1
  <2>6. \A i \in 1..Len(q) : q2[i] = q[i]
    BY <2>2, <2>3
  <2> QED
    BY <2>2, <2>3, <2>4, <2>5, <2>6
<1>9. \A i \in 1..Len(q2) : i \in 1..Len(q) \/ i = Len(q) + 1 \/ i \in (Len(q) + 2)..Len(q2)
  BY <1>7, <1>8
<1>10. \A i \in 1..Len(q2) : q2[i].type = "hello.ack" => i = Len(q) + 1
  BY <1>6, <1>8, <1>9
<1>11. Len(q) + 1 \in 1..Len(q2)
  BY <1>7, <1>8
<1>12. AckInv(q2)'
  BY <1>4, <1>8, <1>10, <1>11 DEF AckInv
<1>13. OpenInv(q2)'
  <2>1. OpensLater(q, q2, 0)
    <3>1. \A i \in 1..Len(q2) : q2[i].type = "pair.open" => i \in 1..Len(q) /\ q2[i] = q[i]
      BY <1>4, <1>8, <1>9
    <3>2. \A i \in 1..Len(q2) : i + 0 = i
      BY <1>7, <1>8
    <3> QED
      BY <1>7, <1>8, <3>1, <3>2 DEF OpensLater
  <2>2. PICK n : n = 0
    OBVIOUS
  <2> QED
    BY <1>5, <1>6, <2>1, <2>2, OpenKept
<1> QED
  BY <1>1, <1>2, <1>3, <1>12, <1>13, DownFrom

LEMMA HelloReadInv ==
  ASSUME Inv, [Next]_vars, NEW s \in Sessions, up[s] # <<>>, Head(up[s]).type = "hello",
         S!OnHello(s, Head(up[s]).inflightPairs),
         LET P == Head(up[s]).inflightPairs
             keep == {p \in P : S!Keepable(p)}
         IN  SendDown(s, <<HelloAck(keep, P \ keep)>> \o Closes),
         up' = [up EXCEPT ![s] = Tail(@)], UNCHANGED <<clientVars, channel, arriving>>
  PROVE  Inv'
<1>1. Grows /\ ServerInv' /\ ClientInv' /\ notified' \ notified \subseteq pairs
  BY StepsOfEnds
<1>2. UNCHANGED <<attempt, socket, exited, established, controlClosed, listed, opened>>
  BY DEF clientVars
<1>3. PICK P : P = Head(up[s]).inflightPairs
  OBVIOUS
<1>4. PICK keep : keep = {p \in P : S!Keepable(p)}
  OBVIOUS
<1>5. PICK closes : closes = Closes
  OBVIOUS
<1>6. /\ up[s][1].type = "hello" /\ up[s][1].inflightPairs = P /\ 1 \in 1..Len(up[s])
      /\ P \subseteq Requests
  BY <1>3, HeadsKnown, FramesRead DEF Inv
<1>7. /\ s = channel => ~established /\ (controlClosed \/ P = listed)
      /\ s \notin greeted /\ greeted' = greeted \cup {s} /\ keep \cap WsRequests \subseteq kept'
  <2>1. s = channel => ~established /\ (controlClosed \/ P = listed)
    BY <1>6 DEF Inv, HelloInv, HelloAt
  <2>2. /\ s \notin greeted /\ greeted' = greeted \cup {s}
        /\ kept' = kept \cup ({p \in P : S!Keepable(p)} \cap WsRequests)
    BY <1>3 DEF S!OnHello
  <2> QED
    BY <1>4, <2>1, <2>2
<1>8. closes \in Seq(Frames) /\ \A i \in 1..Len(closes) : closes[i].type = "pair.close"
  BY <1>1, <1>5, ClosesAreFrames DEF Inv, ServerInv
<1>9. keep \in SUBSET P /\ P \ keep \subseteq Requests
  BY <1>4, <1>6
<1>10. PICK frames : frames = <<HelloAck(keep, P \ keep)>> \o closes
  OBVIOUS
<1>11. frames \in Seq(Frames)
  <2>1. HelloAck(keep, P \ keep) \in Frames
    BY <1>6, <1>9, FramesMade
  <2>2. <<HelloAck(keep, P \ keep)>> \in Seq(Frames)
    BY <2>1
  <2> QED
    BY <1>8, <1>10, <2>2, ConcatProperties
<1>12. /\ down' \in [Sessions -> Seq(Frames)]
       /\ \A t \in Sessions : t # channel => down'[t] = down[t]
       /\ channel # None =>
            down'[channel] = IF s = channel THEN down[channel] \o frames ELSE down[channel]
  <2>1. SendDown(s, frames)
    BY <1>3, <1>4, <1>5, <1>10 DEF SendDown
  <2> QED
    BY <1>11, <2>1, SendKeeps DEF Inv
<1>13. /\ up' \in [Sessions -> Seq(Frames)] /\ up'[s] = Tail(up[s])
       /\ \A t \in Sessions : t # s => up'[t] = up[t]
  <2>1. Tail(up[s]) \in Seq(Frames) /\ up \in [Sessions -> Seq(Frames)]
    BY TailKnown DEF Inv, NetworkInv
  <2> QED
    BY <2>1
<1>14. \A t \in Sessions : SameHellos(t) /\ (up[t] = <<>> => up'[t] = <<>>)
  BY <1>13, ConsumedKeeps DEF Consumed
<1>15. NetworkInv'
  <2>1. channel # None /\ attempt # None => channel \notin greeted'
    BY <1>7 DEF Inv, NetworkInv
  <2> QED
    BY <1>12, <1>13, <1>14, <2>1, ServerNetwork
<1>16. HelloInv'
  <2>1. ASSUME NEW t \in Sessions PROVE HelloAt(t)'
    <3>1. CASE t = s
      BY <1>13, <3>1, ReadHasNoHello DEF HelloAt
    <3>2. CASE t # s
      BY <1>1, <1>2, <1>7, <1>14, <3>2, HelloKept
    <3> QED
      BY <3>1, <3>2
  <2> QED
    BY <2>1 DEF HelloInv
<1>17. DownInv'
  <2>1. CASE s = channel
    <3>1. down'[channel] = down[channel] \o (<<HelloAck(keep, P \ keep)>> \o closes)
      BY <1>10, <1>12, <2>1, NoSession
    <3>2. channel \notin greeted /\ channel \in greeted' /\ ~established
          /\ (controlClosed \/ P = listed) /\ keep \cap WsRequests \subseteq kept'
      BY <1>7, <2>1
    <3> QED
      BY <1>1, <1>2, <1>6, <1>8, <1>9, <2>1, <3>1, <3>2, AnswerSent
  <2>2. CASE s # channel
    <3>1. CASE channel = None
      BY <3>1, DownFrom
    <3>2. CASE channel # None
      <4>1. PICK q : q = down[channel]
        OBVIOUS
      <4>2. q \in Seq(Frames) /\ AckInv(q) /\ OpenInv(q) /\ q = down'[channel']
        BY <1>12, <2>2, <3>2, <4>1 DEF Inv, NetworkInv, DownInv
      <4>3. Later(q, q, 0)
        BY <4>2, LaterSame
      <4>4. PICK n : n = 0
        OBVIOUS
      <4>5. AckInv(q)'
        BY <1>1, <1>2, <1>7, <2>2, <4>2, <4>3, <4>4, AckKept DEF Later
      <4>6. OpenInv(q)'
        BY <1>1, <1>2, <4>2, <4>3, <4>4, OpenKept DEF Later, AcksLater
      <4> QED
        BY <4>2, <4>5, <4>6, DownFrom
    <3> QED
      BY <3>1, <3>2
  <2> QED
    BY <2>1, <2>2
<1>18. PairsInv' /\ LinkInv'
  BY <1>1, ServerGains, GainsKept
<1> QED
  BY <1>1, <1>15, <1>16, <1>17, <1>18 DEF Inv

LEMMA ServerReadsInv ==
  ASSUME Inv, [Next]_vars, NEW s \in Sessions, ServerReads(s)
  PROVE  Inv'
<1>1. CASE Head(up[s]).type = "hello"
  BY <1>1, HelloReadInv DEF ServerReads
<1>2. CASE Head(up[s]).type # "hello"
  <2>1. /\ S!PairFailed(Head(up[s]).pair) \/ UNCHANGED serverVars
        /\ SendDown(s, Closes) \/ down' = down
        /\ up[s] # <<>> /\ up' = [up EXCEPT ![s] = Tail(@)]
        /\ UNCHANGED <<clientVars, channel, arriving>>
    BY <1>2 DEF ServerReads
  <2>2. greeted' = greeted
    BY <2>1 DEF S!PairFailed, S!controlVars, serverVars
  <2>3. up' \in [Sessions -> Seq(Frames)] /\ \A t \in Sessions : Consumed(t)
    <3>1. Tail(up[s]) \in Seq(Frames) /\ up \in [Sessions -> Seq(Frames)]
      BY <2>1, TailKnown DEF Inv, NetworkInv
    <3> QED
      BY <2>1, <3>1 DEF Consumed
  <2>4. /\ down' \in [Sessions -> Seq(Frames)]
        /\ \A t \in Sessions : t # channel => down'[t] = down[t]
        /\ channel # None => Later(down[channel], down'[channel], 0)
    BY <2>1, ClosesSent
  <2> QED
    BY <2>1, <2>2, <2>3, <2>4, ServerCalmInv
<1> QED
  BY <1>1, <1>2

\* A pair is asked for that was never asked for before, of a client that has read the hello.ack
\* or will read it first, or else the pair is an early one.
LEMMA PairOpenSent ==
  ASSUME Inv, Grows, NEW r \in Requests, channel' = channel, channel \in Sessions,
         UNCHANGED <<greeted, established, controlClosed, listed, opened>>,
         r \in requested' \ requested, channel \in greeted \/ r \in early',
         down'[channel] = down[channel] \o <<PairOpen(r)>>
  PROVE  DownInv'
<1>1. PICK q : q = down[channel]
  OBVIOUS
<1>2. PICK open : open = PairOpen(r)
  OBVIOUS
<1>3. PICK q2 : q2 = q \o <<open>>
  OBVIOUS
<1>4. open \in Frames /\ open.type = "pair.open" /\ open.pair = r
  BY <1>2, FramesMade
<1>5. q \in Seq(Frames) /\ AckInv(q) /\ OpenInv(q)
  BY <1>1, NoSession DEF Inv, NetworkInv, DownInv
<1>6. /\ Len(q) \in Nat /\ Len(q2) = Len(q) + 1
      /\ \A i \in 1..Len(q) : q2[i] = q[i]
      /\ q2[Len(q) + 1] = open
  <2>1. <<open>> \in Seq(Frames) /\ Len(<<open>>) = 1 /\ <<open>>[1] = open
    BY <1>4
  <2>2. /\ Len(q) \in Nat /\ Len(q2) = Len(q) + 1
        /\ \A i \in 1..(Len(q) + 1) : q2[i] = IF i <= Len(q) THEN q[i] ELSE <<open>>[i - Len(q)]
    BY <1>3, <1>5, <2>1, ConcatProperties, LenProperties
  <2>3. Len(q) + 1 \in 1..(Len(q) + 1) /\ (Len(q) + 1) - Len(q) = 1 /\ ~(Len(q) + 1 <= Len(q))
    BY <2>2
  <2>4. \A i \in 1..Len(q) : i \in 1..(Len(q) + 1) /\ i <= Len(q)
    BY <2>2
  <2> QED
    BY <2>1, <2>2, <2>3, <2>4
<1>7. \A i \in 1..Len(q2) : i \in 1..Len(q) \/ i = Len(q) + 1
  BY <1>6
<1>8. AckInv(q2)'
  <2>1. AcksLater(q, q2, 0)
    <3>1. \A i \in 1..Len(q2) : q2[i].type = "hello.ack" => i \in 1..Len(q) /\ q2[i] = q[i]
      BY <1>4, <1>6, <1>7
    <3>2. \A i \in 1..Len(q) : i \in 1..Len(q2) /\ q2[i] = q[i] /\ i > 0
      BY <1>6
    <3>3. /\ \A i \in 1..Len(q) : i - 0 = i
          /\ \A i \in 1..Len(q2) : i + 0 = i
      BY <1>6
    <3> QED
      BY <1>6, <3>1, <3>2, <3>3 DEF AcksLater
  <2>2. PICK n : n = 0
    OBVIOUS
  <2> QED
    BY <1>5, <2>1, <2>2, AckKept
<1>9. OpenInv(q2)'
  <2> SUFFICES ASSUME NEW i \in 1..Len(q2), q2[i].type = "pair.open"
               PROVE  /\ q2[i].pair \in requested' \ opened
                      /\ \A j \in 1..Len(q2) :
                           q2[j].type = "pair.open" /\ q2[j].pair = q2[i].pair => j = i
                      /\ ~established /\ (\A j \in 1..(i - 1) : q2[j].type # "hello.ack") =>
                           q2[i].pair \in early'
    BY DEF OpenInv
  <2>1. \A j \in 1..Len(q) : q[j].type = "pair.open" => q[j].pair \in requested \ opened
    BY <1>5 DEF OpenInv
  <2>2. r \notin opened
    BY DEF Inv, PairsInv
  <2>3. CASE i \in 1..Len(q)
    <3>1. /\ q2[i] = q[i] /\ q[i].pair \in requested \ opened
          /\ \A j \in 1..Len(q) : q[j].type = "pair.open" /\ q[j].pair = q[i].pair => j = i
          /\ ~established /\ (\A j \in 1..(i - 1) : q[j].type # "hello.ack") => q[i].pair \in early
      BY <1>5, <1>6, <2>3 DEF OpenInv
    <3>2. ASSUME NEW j \in 1..Len(q2), q2[j].type = "pair.open", q2[j].pair = q2[i].pair
          PROVE  j = i
      <4>1. j # Len(q) + 1
        BY <1>4, <1>6, <3>1, <3>2
      <4> QED
        BY <1>6, <1>7, <3>1, <3>2, <4>1
    <3>3. \A j \in 1..(i - 1) : q2[j] = q[j]
      BY <1>6, <2>3
    <3> QED
      BY <3>1, <3>2, <3>3 DEF Grows
  <2>4. CASE i = Len(q) + 1
    <3>1. q2[i].pair = r
      BY <1>4, <1>6, <2>4
    <3>2. ASSUME NEW j \in 1..Len(q2), q2[j].type = "pair.open", q2[j].pair = r
          PROVE  j = i
      BY <1>6, <1>7, <2>1, <2>4, <3>2
    <3>3. ASSUME ~established, \A j \in 1..(i - 1) : q2[j].type # "hello.ack"
          PROVE  r \in early'
      <4>1. ASSUME channel \in greeted PROVE FALSE
        <5>1. PICK j \in 1..Len(q) : q[j].type = "hello.ack"
          BY <1>5, <3>3, <4>1 DEF AckInv
        <5>2. j \in 1..(i - 1)
          BY <1>6, <2>4
        <5> QED
          BY <1>6, <3>3, <5>1, <5>2
      <4> QED
        BY <4>1
    <3> QED
      BY <2>2, <3>1, <3>2, <3>3
  <2> QED
    BY <1>7, <2>3, <2>4
<1> QED
  BY <1>1, <1>2, <1>3, <1>8, <1>9, DownFrom

LEMMA OpenPairInv ==
  ASSUME Inv, [Next]_vars, NEW r \in Requests, S!OpenPair(r),
         SendDown(control, <<PairOpen(r)>>), UNCHANGED <<clientVars, channel, up, arriving>>
  PROVE  Inv'
<1>1. Grows /\ ServerInv' /\ ClientInv'
  BY StepsOfEnds
<1>2. UNCHANGED <<attempt, socket, exited, established, controlClosed, listed, opened>>
  BY DEF clientVars
<1>3. /\ greeted' = greeted /\ requested' = requested \cup {r} /\ external[r] = "idle"
      /\ control \in greeted \/ r \in early'
  BY DEF S!OpenPair, S!controlVars
<1>4. r \notin requested
  BY <1>3 DEF Inv, ServerInv
<1>5. PICK frames : frames = <<PairOpen(r)>>
  OBVIOUS
<1>6. frames \in Seq(Frames)
  BY <1>5, FramesMade
<1>7. /\ down' \in [Sessions -> Seq(Frames)]
      /\ \A t \in Sessions : t # channel => down'[t] = down[t]
      /\ channel # None =>
           down'[channel] = IF control = channel THEN down[channel] \o frames ELSE down[channel]
  BY <1>5, <1>6, SendKeeps DEF Inv
<1>8. NetworkInv'
  <2>1. up' \in [Sessions -> Seq(Frames)] /\ \A s \in Sessions : up[s] = <<>> => up'[s] = <<>>
    BY DEF Inv, NetworkInv
  <2>2. channel # None /\ attempt # None => channel \notin greeted'
    BY <1>3 DEF Inv, NetworkInv
  <2> QED
    BY <1>7, <2>1, <2>2, ServerNetwork
<1>9. HelloInv'
  <2>1. ASSUME NEW s \in Sessions PROVE HelloAt(s)'
    <3>1. SameHellos(s)
      BY DEF SameHellos
    <3> QED
      BY <1>1, <1>2, <1>3, <3>1, HelloKept
  <2> QED
    BY <2>1 DEF HelloInv
<1>10. DownInv'
  <2>1. CASE channel = None
    BY <2>1, DownFrom
  <2>2. CASE channel # None /\ control = channel
    <3>1. channel \in Sessions
      BY <2>2 DEF Inv, NetworkInv
    <3>2. down'[channel] = down[channel] \o <<PairOpen(r)>>
      BY <1>5, <1>7, <2>2
    <3>3. channel \in greeted \/ r \in early'
      BY <1>3, <2>2
    <3> QED
      BY <1>1, <1>2, <1>3, <1>4, <3>1, <3>2, <3>3, PairOpenSent
  <2>3. CASE channel # None /\ control # channel
    <3>1. Later(down[channel], down'[channel], 0)
      BY <1>7, <2>3, LaterSame DEF Inv, NetworkInv
    <3> QED
      BY <1>1, <1>2, <1>3, <3>1, DownUnread
  <2> QED
    BY <2>1, <2>2, <2>3
<1>11. PairsInv' /\ LinkInv'
  BY <1>1, ServerGains, GainsKept
<1> QED
  BY <1>1, <1>8, <1>9, <1>10, <1>11 DEF Inv

LEMMA ServerTellsInv ==
  ASSUME Inv, [Next]_vars, ServerTells
  PROVE  Inv'
<1>1. ASSUME NEW r \in Requests, S!OpenPair(r), SendDown(control, <<PairOpen(r)>>)
      PROVE  Inv'
  BY <1>1, OpenPairInv DEF ServerTells
<1>2. ASSUME NEW r \in Requests, S!HttpExternalCloses(r), SendDown(control, Closes)
      PROVE  Inv'
  <2>1. greeted' = greeted /\ UNCHANGED <<clientVars, channel, up, arriving>>
    BY <1>2 DEF S!HttpExternalCloses, S!controlVars, ServerTells
  <2>2. /\ down' \in [Sessions -> Seq(Frames)]
        /\ \A t \in Sessions : t # channel => down'[t] = down[t]
        /\ channel # None => Later(down[channel], down'[channel], 0)
    BY <1>2, <2>1, ClosesSent
  <2>3. up' \in [Sessions -> Seq(Frames)] /\ \A s \in Sessions : Consumed(s)
    BY <2>1 DEF Inv, NetworkInv, Consumed
  <2> QED
    BY <2>1, <2>2, <2>3, ServerCalmInv
<1> QED
  BY <1>1, <1>2 DEF ServerTells

-----------------------------------------------------------------------------
(* The theorems.                                                           *)

\* The constants of the two ends are what their modules assume.
LEMMA EndsAssumptions ==
  /\ WsRequests \subseteq Requests
  /\ MaxConnections \in Nat /\ MaxReplacements \in Nat
  /\ None \notin Sessions /\ None \notin Nat /\ None \notin {"503", "502", "response"}
  /\ TRUE \in BOOLEAN /\ 1 \in Nat \ {0} /\ 0 \in Nat
  /\ MaxInWindow \in Nat \ {0} /\ MaxTotal \in Nat \ {0}
  /\ None \notin {"first", "retry"}
BY TunnelAssumption DEF Sessions

\* In the beginning nothing is said and nobody is known.
LEMMA InitInv ==
  ASSUME Init
  PROVE  Inv
<1> USE DEF Init, S!Init, C!ControlInit, C!ClusterInit
<1>1. ServerInv
  BY FS_EmptySet DEF ServerInv
<1>2. ClientInv
  BY DEF ClientInv, C!Phases
<1>3. NetworkInv
  BY EmptySeq DEF NetworkInv
<1>4. HelloInv
  <2>1. \A s \in Sessions : Len(up[s]) = 0
    BY EmptySeq
  <2> QED
    BY <2>1 DEF HelloInv, HelloAt
<1>5. DownInv
  BY DEF DownInv
<1>6. PairsInv /\ LinkInv
  BY DEF PairsInv, LinkInv
<1> QED
  BY <1>1, <1>2, <1>3, <1>4, <1>5, <1>6 DEF Inv

LEMMA StepInv ==
  ASSUME Inv, [Next]_vars
  PROVE  Inv'
<1>1. ASSUME NEW n \in 0..Cardinality(Requests), ClientConnects(n)
      PROVE  Inv'
  BY <1>1, ClientConnectsInv
<1> QED
  BY <1>1, ClientAloneInv, ClientReadsInv, LinksInv, UpgradeInv, ServerReadsInv, ServerTellsInv,
     SilentStepsInv
     DEF Next

LEMMA InvContracts ==
  ASSUME Inv
  PROVE  ContractsKept
<1>1. HelloIsListable
  <2>1. \A s \in Sessions : DOMAIN up[s] = 1..Len(up[s])
    BY LenProperties DEF Inv, NetworkInv
  <2> QED
    BY <2>1 DEF HelloIsListable, Inv, HelloInv, HelloAt
<1>2. FramesFit
  <2>1. channel # None => DOMAIN down[channel] = 1..Len(down[channel])
    BY LenProperties DEF Inv, NetworkInv
  <2> QED
    BY <2>1 DEF FramesFit, Inv, DownInv, AckInv, OpenInv
<1>3. ReplacementsAsked
  BY DEF ReplacementsAsked, Inv, LinkInv, Asked
<1> QED
  BY <1>1, <1>2, <1>3 DEF ContractsKept

\* Whatever is lost, late or overtaken between the two ends, each gets what its module takes for
\* granted of the other: hellos it may list, acks of the hello before, pairs opened once, and
\* replacements of kept pairs only.
THEOREM ContractsCorrect == Spec => []ContractsKept
<1>1. Init => Inv
  BY InitInv
<1>2. Inv /\ [Next]_vars => Inv'
  BY StepInv
<1>3. Inv => ContractsKept
  BY InvContracts
<1> QED
  BY <1>1, <1>2, <1>3, PTL DEF Spec

\* The server's end of a tunnel is a ServerTunnel: what is proved of that module holds of it.
THEOREM ServerEndCorrect == Spec => S!Spec
<1>1. Init => Inv
  BY InitInv
<1>2. Inv /\ [Next]_vars => Inv'
  BY StepInv
<1>3. Init => S!Init
  BY DEF Init
<1>4. Inv /\ [Next]_vars => [S!Next]_(S!vars)
  <2>1. UNCHANGED serverVars => UNCHANGED S!vars
    BY DEF serverVars, S!vars, S!controlVars, S!pairVars, S!socketVars, S!externalVars
  <2> QED
    BY <2>1, StepsOfEnds
<1> QED
  BY <1>1, <1>2, <1>3, <1>4, PTL DEF Spec, S!Spec

\* And the client's end is a ClientTunnel.
THEOREM ClientEndCorrect == Spec => C!Spec
<1>1. Init => Inv
  BY InitInv
<1>2. Inv /\ [Next]_vars => Inv'
  BY StepInv
<1>3. Init => C!Init
  BY DEF Init, C!Init
<1>4. Inv /\ [Next]_vars => [C!Next]_(C!vars)
  <2>1. UNCHANGED clientVars => UNCHANGED C!vars
    BY DEF clientVars, C!vars, C!controlVars, C!clusterVars, C!lifeVars
  <2> QED
    BY <2>1, StepsOfEnds
<1> QED
  BY <1>1, <1>2, <1>3, <1>4, PTL DEF Spec, C!Spec

=============================================================================
